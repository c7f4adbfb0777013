-------------------------- MODULE WebConfigProofs --------------------------
(***************************************************************************)
(* Theorems about WebConfig for every set of games, versions and modes of  *)
(* old files, and number of events:                                        *)
(*   FilesOwn       the settings files are their own, and the one in use   *)
(*                  is in memory (Inv, the type invariant included);       *)
(*   SettingsStay   a setting the web page was told is stored stays;       *)
(*   CoreInStep     the wired core runs with the modes in use or is about  *)
(*                  to be started again.                                   *)
(* The inductive invariant has three parts.  Base says what a task may be  *)
(* doing and that two tasks which met have harmed the files they turn to;  *)
(* Settings what each unharmed file holds, and what memory holds at each   *)
(* step of a call that is alone; Compared how what config_is_rst_required  *)
(* remembers relates to what the core was started with.                    *)
(***************************************************************************)
EXTENDS WebConfig, TLAPS

(* The types of all variables, the locals of the tasks included. *)
Ats  == {"idle", "init", "choose", "load", "upgrade", "update", "pick", "open", "write",
         "check", "end"}
Ends == {"none", "boot", "saved", "copied", "rm_gid", "remove"}

TaskRec == [at : Ats, dst : {"default", "gameid"}, key : Keys, chain : 0..3, end : Ends,
            arg : Keys, home : Keys \cup {"none"}, new : SUBSET Edits, met : BOOLEAN]

FileRec == [len : {"absent", "empty", "head", "full"}, data : ContentType]

CfgType  == /\ config \in ContentType /\ config_src \in {"default", "gameid"}
            /\ file \in [Keys -> FileRec]
GidType  == gid \in Games \cup {"none"} /\ up \in BOOLEAN /\ events \in 0..MaxEvents
CoreType == /\ core \in Modes \cup {-1} /\ rst_bare \in BOOLEAN /\ wired_rst \in BOOLEAN
            /\ rst_magic \in -1..3 /\ rst_mode \in Modes
HistType == /\ prepared \subseteq Edits /\ promise \in [Keys -> SUBSET Edits]
            /\ harmed \subseteq Keys /\ missed \in BOOLEAN
TaskType == task \in [Tasks -> TaskRec]

Types == CfgType /\ GidType /\ CoreType /\ HistType /\ TaskType

(* The default file is not a game's; "none" names no file. *)
LEMMA KeyFacts ==
  /\ "default" \in Keys /\ Games \subseteq Keys /\ "none" \notin Keys /\ "default" \notin Games
  /\ \A k \in Keys : k # "default" => k \in Games
  BY WebAssumption DEF Keys

(* Edits are numbered up to the bound on events. *)
LEMMA EditFacts == MaxEvents \in Nat /\ 0 \in Edits /\ \A e \in 0..MaxEvents : e \in Edits
  BY WebAssumption DEF Edits

(* An empty and a default configuration are well typed; what the parts of one are. *)
LEMMA ContentFacts ==
  /\ Zero \in ContentType
  /\ \A k \in Keys : Fresh(k) \in ContentType
  /\ \A c \in ContentType : /\ c.head.edits \subseteq Edits /\ c.tail.edits \subseteq Edits
                            /\ c.head.mode \in Modes /\ c.magic \in -1..3
<1>1. Zero \in ContentType
  BY DEF Zero, Config, Parts, ContentType, Modes
<1>2. ASSUME NEW k \in Keys PROVE Fresh(k) \in ContentType
  BY DEF Fresh, Config, Parts, ContentType, Modes, CONFIG_VERSION
<1>3. ASSUME NEW c \in ContentType
      PROVE  /\ c.head.edits \subseteq Edits /\ c.tail.edits \subseteq Edits
             /\ c.head.mode \in Modes /\ c.magic \in -1..3
  BY DEF ContentType
<1> QED BY <1>1, <1>2, <1>3

(* What an edit, an upgrade or a cut makes of a configuration. *)
LEMMA ContentSteps ==
  ASSUME NEW c \in ContentType, NEW S \in SUBSET Edits
  PROVE  /\ [c EXCEPT !.tail.edits = S] \in ContentType
         /\ [c EXCEPT !.tail.combos = @ + 1] \in ContentType
         /\ [c EXCEPT !.magic = CONFIG_VERSION] \in ContentType
         /\ [c EXCEPT !.tail = Zero.tail] \in ContentType
         /\ \A d \in ContentType : [c EXCEPT !.tail = d.tail] \in ContentType
         /\ \A m \in Modes : [c EXCEPT !.head.edits = S, !.head.mode = m] \in ContentType
         /\ \A k \in Keys : [c EXCEPT !.head.own = k, !.tail.own = k] \in ContentType
<1>1. /\ c.head \in [own : Keys \cup {"zero"}, edits : SUBSET Edits, mode : Modes]
      /\ c.tail \in [own : Keys \cup {"zero"}, edits : SUBSET Edits, combos : Nat]
      /\ c.magic \in -1..3
  BY DEF ContentType
<1>2. [c EXCEPT !.tail.edits = S] \in ContentType
  BY <1>1 DEF ContentType
<1>3. [c EXCEPT !.tail.combos = @ + 1] \in ContentType
  BY <1>1 DEF ContentType
<1>4. [c EXCEPT !.magic = CONFIG_VERSION] \in ContentType
  BY <1>1 DEF ContentType, CONFIG_VERSION
<1>5. [c EXCEPT !.tail = Zero.tail] \in ContentType
  BY <1>1 DEF ContentType, Zero, Config, Parts
<1>6. ASSUME NEW d \in ContentType PROVE [c EXCEPT !.tail = d.tail] \in ContentType
  BY <1>1 DEF ContentType
<1>7. ASSUME NEW m \in Modes
      PROVE  [c EXCEPT !.head.edits = S, !.head.mode = m] \in ContentType
  BY <1>1 DEF ContentType
<1>8. ASSUME NEW k \in Keys
      PROVE  [c EXCEPT !.head.own = k, !.tail.own = k] \in ContentType
  BY <1>1 DEF ContentType
<1> QED BY <1>2, <1>3, <1>4, <1>5, <1>6, <1>7, <1>8

(***************************************************************************)
(* What each action does to task, field by field.                          *)
(***************************************************************************)
Only(t) == \A o \in Tasks : o # t => task'[o] = task[o]
Same(t) == /\ task'[t].dst = task[t].dst /\ task'[t].end = task[t].end
           /\ task'[t].arg = task[t].arg /\ task'[t].home = task[t].home
           /\ task'[t].met = task[t].met
Held(t) == /\ Same(t) /\ task'[t].key = task[t].key /\ task'[t].chain = task[t].chain
           /\ task'[t].new = task[t].new
MoveTo(t, a) == Only(t) /\ Held(t) /\ task'[t].at = a

(* Goto changes where t is, and nothing else of it. *)
LEMMA GotoEffect ==
  ASSUME TaskType, NEW t \in Tasks, NEW a \in Ats, Goto(t, a)
  PROVE  TaskType' /\ MoveTo(t, a)
<1>1. task'[t] = [task[t] EXCEPT !.at = a] /\ Only(t) /\ DOMAIN task' = Tasks
      /\ task' = [o \in Tasks |-> task'[o]]
  BY DEF TaskType, Goto, Only
<1>2. task[t] \in TaskRec
  BY DEF TaskType
<1>3. task'[t] \in TaskRec /\ Held(t) /\ task'[t].at = a
  BY <1>1, <1>2 DEF TaskRec, Held, Same
<1>4. \A o \in Tasks : task'[o] \in TaskRec
  BY <1>1, <1>3 DEF TaskType, Only
<1>5. TaskType'
  BY <1>1, <1>4 DEF TaskType
<1> QED BY <1>1, <1>3, <1>5 DEF MoveTo

(* The same for an action that replaces the record of t by r. *)
LEMMA PutEffect ==
  ASSUME TaskType, NEW t \in Tasks, NEW r \in TaskRec, task' = [task EXCEPT ![t] = r]
  PROVE  TaskType' /\ Only(t) /\ task'[t] = r
<1>1. task'[t] = r /\ Only(t) /\ task' = [o \in Tasks |-> task'[o]]
  BY DEF TaskType, Only
<1>2. \A o \in Tasks : task'[o] \in TaskRec
  BY <1>1 DEF TaskType, Only
<1> QED BY <1>1, <1>2 DEF TaskType

ChooseTo(t, k) ==
  /\ Only(t) /\ Same(t) /\ task'[t].chain = task[t].chain /\ task'[t].new = task[t].new
  /\ task'[t].at = "load" /\ task'[t].key = k

(* config_init takes the game's file when there is one, else the default. *)
LEMMA ChooseEffect ==
  ASSUME Types, NEW t \in Tasks, Choose(t)
  PROVE  /\ TaskType'
         /\ \/ /\ task[t].dst = "gameid" /\ gid \in Games /\ file[gid].len # "absent"
               /\ config_src' = "gameid" /\ ChooseTo(t, gid)
            \/ /\ ~(task[t].dst = "gameid" /\ gid # "none" /\ file[gid].len # "absent")
               /\ config_src' = config_src /\ ChooseTo(t, "default")
<1> DEFINE found == task[t].dst = "gameid" /\ gid # "none" /\ file[gid].len # "absent"
           k == IF found THEN gid ELSE "default"
<1>1. k \in Keys /\ (found => gid \in Games)
  BY KeyFacts DEF Types, GidType
<1>2. PICK r : r = [task[t] EXCEPT !.at = "load", !.key = k]
  OBVIOUS
<1>3. task[t] \in TaskRec
  BY DEF Types, TaskType
<1>4. r \in TaskRec /\ r.at = "load" /\ r.key = k /\ r.dst = task[t].dst /\ r.end = task[t].end
      /\ r.arg = task[t].arg /\ r.home = task[t].home /\ r.met = task[t].met
      /\ r.chain = task[t].chain /\ r.new = task[t].new
  BY <1>1, <1>2, <1>3 DEF TaskRec, Ats
<1>5. task' = [task EXCEPT ![t].at = "load", ![t].key = k]
  BY DEF Choose
<1>6. task' = [task EXCEPT ![t] = r]
  BY <1>2, <1>5 DEF Types, TaskType
<1>7. TaskType' /\ Only(t) /\ task'[t] = r
  BY <1>4, <1>6, PutEffect DEF Types
<1>8. ChooseTo(t, k)
  BY <1>4, <1>7 DEF ChooseTo, Same
<1>9. config_src' = IF found THEN "gameid" ELSE config_src
  BY DEF Choose
<1> QED BY <1>1, <1>7, <1>8, <1>9

LoadTo(t, a, v) ==
  /\ Only(t) /\ Same(t) /\ task'[t].key = task[t].key /\ task'[t].new = task[t].new
  /\ task'[t].at = a /\ task'[t].chain = v

(* config_load_from_file: what is in memory is that of a version that is    *)
(* upgraded, the present one, or no configuration at all.                   *)
LEMMA LoadedEffect ==
  ASSUME Types, NEW t \in Tasks, NEW data \in ContentType, Loaded(t, data)
  PROVE  /\ TaskType'
         /\ \/ data.magic = -1 /\ config' = Fresh(task[t].key) /\ LoadTo(t, "open", 3)
            \/ data.magic = 3 /\ config' = data /\ LoadTo(t, "check", 3)
            \/ data.magic \in 0..2 /\ config' = data /\ LoadTo(t, "upgrade", data.magic)
<1> DEFINE a == CASE data.magic = -1 -> "open" [] data.magic = CONFIG_VERSION -> "check"
                  [] OTHER -> "upgrade"
           v == IF data.magic = -1 THEN CONFIG_VERSION ELSE data.magic
<1>1. data.magic \in -1..3 /\ CONFIG_VERSION = 3
  BY ContentFacts DEF CONFIG_VERSION
<1>2. a \in Ats /\ v \in 0..3
  BY <1>1 DEF Ats
<1>3. PICK r : r = [task[t] EXCEPT !.at = a, !.chain = v]
  OBVIOUS
<1>4. task[t] \in TaskRec
  BY DEF Types, TaskType
<1>5. r \in TaskRec /\ r.at = a /\ r.chain = v /\ r.dst = task[t].dst /\ r.end = task[t].end
      /\ r.arg = task[t].arg /\ r.home = task[t].home /\ r.met = task[t].met
      /\ r.key = task[t].key /\ r.new = task[t].new
  <2> HIDE DEF a, v
  <2> QED BY <1>2, <1>3, <1>4 DEF TaskRec
<1>6. task' = [task EXCEPT ![t].at = a, ![t].chain = v]
  BY DEF Loaded
<1>7. task' = [task EXCEPT ![t] = r]
  <2> HIDE DEF a, v
  <2> QED BY <1>3, <1>6 DEF Types, TaskType
<1>8. TaskType' /\ Only(t) /\ task'[t] = r
  BY <1>5, <1>7, PutEffect DEF Types
<1>9. LoadTo(t, a, v)
  <2> HIDE DEF a, v
  <2> QED BY <1>5, <1>8 DEF LoadTo, Same
<1>10. config' = IF data.magic = -1 THEN Fresh(task[t].key) ELSE data
  BY DEF Loaded
<1>11. CASE data.magic = -1
  <2>1. a = "open" /\ v = 3
    BY <1>1, <1>11
  <2> HIDE DEF a, v
  <2> QED BY <1>8, <1>9, <1>10, <1>11, <2>1
<1>12. CASE data.magic = 3
  <2>1. a = "check" /\ v = 3
    BY <1>1, <1>12
  <2> HIDE DEF a, v
  <2> QED BY <1>8, <1>9, <1>10, <1>12, <2>1
<1>13. CASE data.magic \in 0..2
  <2>1. a = "upgrade" /\ v = data.magic
    BY <1>1, <1>13
  <2> HIDE DEF a, v
  <2> QED BY <1>8, <1>9, <1>10, <1>13, <2>1
<1>14. data.magic = -1 \/ data.magic = 3 \/ data.magic \in 0..2
  BY <1>1
<1> HIDE DEF a, v
<1> QED BY <1>11, <1>12, <1>13, <1>14

(* A step of the upgrade leads to its store. *)
LEMMA UpgradeEffect ==
  ASSUME Types, NEW t \in Tasks, Upgrade(t), task[t].chain < 3
  PROVE  TaskType' /\ LoadTo(t, "open", task[t].chain + 1)
<1> DEFINE v == task[t].chain + 1
<1>1. PICK r : r = [task[t] EXCEPT !.at = "open", !.chain = v]
  OBVIOUS
<1>2. task[t] \in TaskRec
  BY DEF Types, TaskType
<1>3. v \in 0..3
  BY <1>2 DEF TaskRec
<1> HIDE DEF v
<1>4. r \in TaskRec /\ r.at = "open" /\ r.chain = v /\ r.dst = task[t].dst
      /\ r.end = task[t].end /\ r.arg = task[t].arg /\ r.home = task[t].home
      /\ r.met = task[t].met /\ r.key = task[t].key /\ r.new = task[t].new
  BY <1>1, <1>2, <1>3 DEF TaskRec, Ats
<1>5. task' = [task EXCEPT ![t].at = "open", ![t].chain = v]
  BY DEF Upgrade, v
<1>6. task' = [task EXCEPT ![t] = r]
  BY <1>1, <1>5 DEF Types, TaskType
<1>7. TaskType' /\ Only(t) /\ task'[t] = r
  BY <1>4, <1>6, PutEffect DEF Types
<1> QED BY <1>4, <1>7 DEF LoadTo, Same, v

PickTo(t, k, new) ==
  /\ Only(t) /\ Same(t) /\ task'[t].chain = task[t].chain
  /\ task'[t].at = "open" /\ task'[t].key = k /\ task'[t].new = new

(* config_update takes the game's file by its name alone; a copy is given to it. *)
LEMMA PickEffect ==
  ASSUME Types, NEW t \in Tasks, Pick(t)
  PROVE  LET named == task[t].dst = "gameid" /\ gid # "none"
             k == IF named THEN gid ELSE "default"
             copied == task[t].end = "copied" /\ named
         IN  /\ TaskType' /\ k \in Keys
             /\ config_src' = IF named THEN "gameid" ELSE config_src
             /\ config' = IF copied THEN [config EXCEPT !.head.own = k, !.tail.own = k]
                          ELSE config
             /\ PickTo(t, k, IF copied THEN config.head.edits \cup config.tail.edits
                             ELSE task[t].new)
<1> DEFINE named == task[t].dst = "gameid" /\ gid # "none"
           k == IF named THEN gid ELSE "default"
           copied == task[t].end = "copied" /\ named
           new == IF copied THEN config.head.edits \cup config.tail.edits ELSE task[t].new
<1>1. k \in Keys
  BY KeyFacts DEF Types, GidType
<1>2. task[t] \in TaskRec
  BY DEF Types, TaskType
<1>3. new \in SUBSET Edits
  BY <1>2, ContentFacts DEF Types, CfgType, TaskRec
<1>4. PICK r : r = [task[t] EXCEPT !.at = "open", !.key = k, !.new = new]
  OBVIOUS
<1>5. r \in TaskRec /\ r.at = "open" /\ r.key = k /\ r.dst = task[t].dst /\ r.end = task[t].end
      /\ r.arg = task[t].arg /\ r.home = task[t].home /\ r.met = task[t].met
      /\ r.chain = task[t].chain /\ r.new = new
  <2> HIDE DEF k, new
  <2> QED BY <1>1, <1>2, <1>3, <1>4 DEF TaskRec, Ats
<1>6. task' = [task EXCEPT ![t].at = "open", ![t].key = k, ![t].new = new]
  <2>1. task' = [task EXCEPT ![t].at = "open", ![t].key = k,
                   ![t].new = IF copied THEN config.head.edits \cup config.tail.edits ELSE @]
    BY DEF Pick
  <2> QED BY <2>1 DEF Types, TaskType
<1>7. task' = [task EXCEPT ![t] = r]
  <2> HIDE DEF k, new
  <2> QED BY <1>4, <1>6 DEF Types, TaskType
<1>8. TaskType' /\ Only(t) /\ task'[t] = r
  BY <1>5, <1>7, PutEffect DEF Types
<1>9. PickTo(t, k, new)
  <2> HIDE DEF k, new
  <2> QED BY <1>5, <1>8 DEF PickTo, Same
<1>10. /\ config_src' = IF named THEN "gameid" ELSE config_src
       /\ config' = IF copied THEN [config EXCEPT !.head.own = k, !.tail.own = k] ELSE config
  BY DEF Pick
<1> QED BY <1>1, <1>8, <1>9, <1>10

(* What starting a task does: both remember that they met.                 *)
Began(t, call) ==
  /\ task'[t].at = call.at /\ task'[t].dst = call.dst /\ task'[t].end = call.end
  /\ task'[t].arg = call.arg /\ task'[t].home = call.home /\ task'[t].new = call.new
  /\ task'[t].key = call.key /\ task'[t].chain = call.chain /\ task'[t].met = ~Quiet
Meets(o) ==
  /\ task'[o].at = task[o].at /\ task'[o].dst = task[o].dst /\ task'[o].end = task[o].end
  /\ task'[o].arg = task[o].arg /\ task'[o].home = task[o].home
  /\ task'[o].new = task[o].new /\ task'[o].key = task[o].key
  /\ task'[o].chain = task[o].chain /\ task'[o].met = ~At(o, "idle")

(* Begin, field by field: the other task keeps all but what it has met. *)
LEMMA BeginEffect ==
  ASSUME Types, NEW t \in Tasks, NEW call \in TaskRec, Begin(t, call)
  PROVE  TaskType' /\ Began(t, call) /\ (\A o \in Tasks : o # t => Meets(o))
<1> DEFINE met == ~Quiet
<1>1. met \in BOOLEAN
  BY Zenon
<1>2. task' = [o \in Tasks |-> IF o = t THEN [call EXCEPT !.met = met]
                               ELSE [task[o] EXCEPT !.met = ~At(o, "idle")]]
  BY DEF Begin
<1>3. task'[t] = [call EXCEPT !.met = met]
  BY <1>2
<1>4. task'[t] \in TaskRec /\ Began(t, call)
  <2> HIDE DEF met
  <2>1. task'[t] \in TaskRec /\ task'[t].met = met /\ task'[t].at = call.at
        /\ task'[t].dst = call.dst /\ task'[t].end = call.end /\ task'[t].arg = call.arg
        /\ task'[t].home = call.home /\ task'[t].new = call.new /\ task'[t].key = call.key
        /\ task'[t].chain = call.chain
    BY <1>1, <1>3 DEF TaskRec
  <2> QED BY <2>1 DEF Began, met
<1>5. ASSUME NEW o \in Tasks, o # t PROVE task'[o] \in TaskRec /\ Meets(o)
  <2>1. PICK b : b = ~At(o, "idle")
    OBVIOUS
  <2>2. b \in BOOLEAN
    BY <2>1, Zenon
  <2>3. task'[o] = [task[o] EXCEPT !.met = b]
    BY <1>2, <1>5, <2>1
  <2>4. task[o] \in TaskRec
    BY DEF Types, TaskType
  <2>5. task'[o] \in TaskRec /\ task'[o].met = b /\ task'[o].at = task[o].at
        /\ task'[o].dst = task[o].dst /\ task'[o].end = task[o].end
        /\ task'[o].arg = task[o].arg /\ task'[o].home = task[o].home
        /\ task'[o].new = task[o].new /\ task'[o].key = task[o].key
        /\ task'[o].chain = task[o].chain
    BY <2>2, <2>3, <2>4 DEF TaskRec
  <2> QED BY <2>1, <2>5 DEF Meets
<1>6. \A o \in Tasks : task'[o] \in TaskRec
  BY <1>4, <1>5
<1>7. task' = [o \in Tasks |-> task'[o]]
  BY <1>2
<1>8. TaskType'
  BY <1>6, <1>7 DEF TaskType
<1> QED BY <1>4, <1>5, <1>8

(* The record of a task at rest. *)
LEMMA IdleType == Idle \in TaskRec /\ Idle.at = "idle" /\ Idle.met = FALSE /\ Idle.chain = 3
                  /\ Idle.end = "none" /\ Idle.new = {} /\ Idle.key = "default"
                  /\ Idle.dst = "default"
  BY KeyFacts DEF Idle, TaskRec, Ats, Ends, CONFIG_VERSION

(* The record of a call of config_init or config_update. *)
LEMMA CallType ==
  ASSUME NEW a \in Ats, NEW d \in {"default", "gameid"}, NEW e \in Ends
  PROVE  /\ Call(a, d, e) \in TaskRec
         /\ Call(a, d, e).at = a /\ Call(a, d, e).dst = d /\ Call(a, d, e).end = e
         /\ Call(a, d, e).chain = 3 /\ Call(a, d, e).new = {}
<1>1. PICK i : i = Idle
  OBVIOUS
<1>2. Call(a, d, e) = [i EXCEPT !.at = a, !.dst = d, !.end = e]
  BY <1>1 DEF Call
<1> QED BY <1>1, <1>2, IdleType DEF TaskRec

(* config_src stands for a file, or for that of no game. *)
LEMMA CurrentType == Types => Current \in Keys \cup {"none"}
  BY KeyFacts DEF Types, CfgType, GidType, Current

(* The call that stores an edit. *)
LEMMA SaveType ==
  ASSUME Types, NEW new \in SUBSET Edits
  PROVE  LET c == Save(new)
         IN  /\ c \in TaskRec /\ c.at = "update" /\ c.dst = config_src /\ c.end = "saved"
             /\ c.chain = 3 /\ c.new = new /\ c.home = Current
<1>1. PICK c : c = Call("update", config_src, "saved")
  OBVIOUS
<1>2. c \in TaskRec /\ c.at = "update" /\ c.dst = config_src /\ c.end = "saved" /\ c.chain = 3
  BY <1>1, CallType DEF Types, CfgType, Ats, Ends
<1>3. PICK h : h = Current
  OBVIOUS
<1>4. h \in Keys \cup {"none"}
  BY <1>3, CurrentType
<1>5. Save(new) = [c EXCEPT !.home = h, !.new = new]
  BY <1>1, <1>3 DEF Save
<1>6. /\ Save(new) \in TaskRec /\ Save(new).at = c.at /\ Save(new).dst = c.dst
      /\ Save(new).end = c.end /\ Save(new).chain = c.chain /\ Save(new).new = new
      /\ Save(new).home = h
  BY <1>2, <1>4, <1>5 DEF TaskRec
<1> QED BY <1>2, <1>3, <1>6

(* What SetGameId and DelFile start.                                       *)
LEMMA SetType ==
  ASSUME Types
  PROVE  LET c == [Call("update", "gameid", "copied") EXCEPT !.home = Current]
         IN  /\ c \in TaskRec /\ c.at = "update" /\ c.dst = "gameid" /\ c.end = "copied"
             /\ c.chain = 3 /\ c.new = {} /\ c.home = Current
<1>1. PICK d : d = Call("update", "gameid", "copied")
  OBVIOUS
<1>2. d \in TaskRec /\ d.at = "update" /\ d.dst = "gameid" /\ d.end = "copied" /\ d.chain = 3
      /\ d.new = {}
  BY <1>1, CallType DEF Ats, Ends
<1>3. PICK h : h = Current
  OBVIOUS
<1>4. h \in Keys \cup {"none"}
  BY <1>3, CurrentType
<1>5. PICK c : c = [d EXCEPT !.home = h]
  OBVIOUS
<1>6. c \in TaskRec /\ c.at = d.at /\ c.dst = d.dst /\ c.end = d.end /\ c.chain = d.chain
      /\ c.new = d.new /\ c.home = h
  BY <1>2, <1>4, <1>5 DEF TaskRec
<1> QED BY <1>1, <1>2, <1>3, <1>5, <1>6

(* The call before a file is deleted. *)
LEMMA DelType ==
  ASSUME Types, NEW k \in Keys
  PROVE  LET a == IF k = gid THEN "init" ELSE "end"
             c == [Call(a, "default", "remove") EXCEPT !.arg = k]
         IN  /\ c \in TaskRec /\ c.at = a /\ c.dst = "default" /\ c.end = "remove"
             /\ c.chain = 3 /\ c.new = {} /\ c.arg = k
<1> DEFINE a == IF k = gid THEN "init" ELSE "end"
<1>1. PICK d : d = Call(a, "default", "remove")
  OBVIOUS
<1>2. a \in Ats
  BY DEF Ats
<1>3. d \in TaskRec /\ d.at = a /\ d.dst = "default" /\ d.end = "remove" /\ d.chain = 3
      /\ d.new = {}
  <2> HIDE DEF a
  <2> QED BY <1>1, <1>2, CallType DEF Ends
<1>4. PICK c : c = [d EXCEPT !.arg = k]
  OBVIOUS
<1>5. c \in TaskRec /\ c.at = d.at /\ c.dst = d.dst /\ c.end = d.end /\ c.chain = d.chain
      /\ c.new = d.new /\ c.arg = k
  BY <1>3, <1>4 DEF TaskRec
<1> QED BY <1>1, <1>3, <1>4, <1>5

(***************************************************************************)
(* The type invariant, action by action.                                   *)
(***************************************************************************)
LEMMA ClashFacts ==
  ASSUME harmed \subseteq Keys, NEW t \in Tasks, NEW k
  PROVE  harmed \subseteq Clash(t, k) /\ Clash(t, k) \subseteq Keys
  BY DEF Clash

(* An event numbers the next edit. *)
LEMMA EventFacts ==
  ASSUME GidType, Event
  PROVE  events' \in 0..MaxEvents /\ events + 1 \in Edits /\ {events + 1} \in SUBSET Edits
  BY WebAssumption DEF GidType, Event, Edits

(* The fields of a task are well typed. *)
LEMMA TaskFacts ==
  ASSUME TaskType, NEW t \in Tasks
  PROVE  /\ task[t].key \in Keys /\ task[t].at \in Ats /\ task[t].chain \in 0..3
         /\ task[t].end \in Ends /\ task[t].new \subseteq Edits /\ task[t].arg \in Keys
         /\ task[t].home \in Keys \cup {"none"} /\ task[t].dst \in {"default", "gameid"}
         /\ task[t].met \in BOOLEAN
  BY DEF TaskType, TaskRec

(* config_init begins with the default source. *)
LEMMA TypesInitSrc ==
  ASSUME Types, NEW t \in Tasks, InitSrc(t) PROVE Types'
<1>1. TaskType'
  BY GotoEffect DEF InitSrc, Types, Ats
<1> QED BY <1>1 DEF InitSrc, Types, CfgType, GidType, CoreType, HistType, coreVars, histVars

(* config_init chooses its file. *)
LEMMA TypesChoose ==
  ASSUME Types, NEW t \in Tasks, Choose(t) PROVE Types'
<1>1. TaskType' /\ config_src' \in {"default", "gameid"}
  BY ChooseEffect DEF Types, CfgType
<1>2. harmed' \subseteq Keys
  BY ClashFacts DEF Choose, Types, HistType
<1> QED BY <1>1, <1>2 DEF Choose, Types, CfgType, GidType, CoreType, HistType, coreVars

(* What fread leaves in memory is well typed. *)
LEMMA FreadType ==
  ASSUME Types, NEW k \in Keys PROVE Fread(file[k]) \in ContentType
<1>1. file[k].data \in ContentType /\ config \in ContentType
  BY DEF Types, CfgType, FileRec
<1>2. [file[k].data EXCEPT !.tail = config.tail] \in ContentType
  BY <1>1, ContentSteps
<1> QED BY <1>1, <1>2 DEF Fread

(* config_load_from_file reads, or does without. *)
LEMMA TypesLoad ==
  ASSUME Types, NEW t \in Tasks, Load(t) PROVE Types'
<1> DEFINE k == task[t].key
<1>1. k \in Keys
  BY TaskFacts DEF Types
<1>2. config \in ContentType /\ Fresh(k) \in ContentType
  BY <1>1, ContentFacts DEF Types, CfgType
<1>3. /\ events' \in 0..MaxEvents /\ harmed' \subseteq Keys
      /\ TaskType' /\ config' \in ContentType
  <2>1. CASE config' = Fresh(k) /\ Goto(t, "open") /\ UNCHANGED <<events, harmed>>
    BY <1>2, <2>1, GotoEffect DEF Types, GidType, HistType, Ats
  <2>2. CASE Loaded(t, Fread(file[k])) /\ UNCHANGED <<events, harmed>>
    <3>1. TaskType' /\ config' \in ContentType
      BY <1>1, <1>2, <2>2, FreadType, LoadedEffect
    <3> QED BY <2>2, <3>1 DEF Types, GidType, HistType
  <2>3. CASE Event /\ harmed' = harmed \cup {k} /\ Loaded(t, config)
    <3>1. TaskType' /\ config' \in ContentType
      BY <1>1, <1>2, <2>3, LoadedEffect
    <3> QED BY <1>1, <2>3, <3>1, EventFacts DEF Types, HistType
  <2> QED BY <2>1, <2>2, <2>3 DEF Load
<1> QED BY <1>3 DEF Load, Types, CfgType, GidType, CoreType, HistType, coreVars

(* What config_v0_update to config_v2_update make is well typed. *)
LEMMA UpgradedType ==
  ASSUME Types, NEW k \in Keys, NEW v \in 0..2
  PROVE  /\ Upgraded(k, v) \in ContentType
         /\ [Upgraded(k, v) EXCEPT !.magic = CONFIG_VERSION] \in ContentType
<1>1. config \in ContentType /\ file[k].data \in ContentType /\ Fresh(k) \in ContentType
  BY ContentFacts DEF Types, CfgType, FileRec
<1>2. {} \in SUBSET Edits
  OBVIOUS
<1>3. /\ [config EXCEPT !.tail.edits = {}] \in ContentType
      /\ [config EXCEPT !.tail = file[k].data.tail] \in ContentType
      /\ [config EXCEPT !.tail.combos = @ + 1] \in ContentType
  BY <1>1, <1>2, ContentSteps
<1>4. Upgraded(k, v) \in ContentType
  <2>1. CASE v = 0
    BY <1>3, <2>1 DEF Upgraded
  <2>2. CASE v = 1
    BY <1>1, <1>3, <2>2 DEF Upgraded
  <2>3. CASE v = 2
    BY <1>3, <2>3 DEF Upgraded
  <2> QED BY <2>1, <2>2, <2>3
<1>5. PICK u : u = Upgraded(k, v)
  OBVIOUS
<1>6. [u EXCEPT !.magic = CONFIG_VERSION] \in ContentType
  BY <1>2, <1>4, <1>5, ContentSteps
<1> QED BY <1>4, <1>5, <1>6

(* A step of the upgrade. *)
LEMMA TypesUpgrade ==
  ASSUME Types, NEW t \in Tasks, Upgrade(t), task[t].chain < 3 PROVE Types'
<1>1. TaskType'
  BY UpgradeEffect
<1>2. task[t].key \in Keys /\ task[t].chain \in 0..2
  BY TaskFacts DEF Types
<1>3. config' \in ContentType
  BY <1>2, UpgradedType DEF Upgrade
<1> QED BY <1>1, <1>3 DEF Upgrade, Types, CfgType, GidType, CoreType, HistType, coreVars,
                          histVars

(* config_update begins with the default source. *)
LEMMA TypesUpdateSrc ==
  ASSUME Types, NEW t \in Tasks, UpdateSrc(t) PROVE Types'
<1>1. TaskType'
  BY GotoEffect DEF UpdateSrc, Types, Ats
<1> QED BY <1>1 DEF UpdateSrc, Types, CfgType, GidType, CoreType, HistType, coreVars, histVars

(* config_update chooses its file. *)
LEMMA TypesPick ==
  ASSUME Types, NEW t \in Tasks, Pick(t) PROVE Types'
<1>1. PICK k \in Keys : /\ config' \in {config, [config EXCEPT !.head.own = k, !.tail.own = k]}
                        /\ harmed' \in {Clash(t, k), Clash(t, k) \cup {k}}
  <2> DEFINE k == IF task[t].dst = "gameid" /\ gid # "none" THEN gid ELSE "default"
  <2>1. k \in Keys
    BY PickEffect
  <2>2. /\ config' \in {config, [config EXCEPT !.head.own = k, !.tail.own = k]}
        /\ harmed' \in {Clash(t, k), Clash(t, k) \cup {k}}
    BY DEF Pick
  <2> QED BY <2>1, <2>2
<1>2. config' \in ContentType /\ harmed' \subseteq Keys
  BY <1>1, ContentSteps, ClashFacts DEF Types, CfgType, HistType
<1>3. TaskType' /\ config_src' \in {"default", "gameid"}
  BY PickEffect DEF Types, CfgType
<1> QED BY <1>2, <1>3 DEF Pick, Types, CfgType, GidType, CoreType, HistType, coreVars

(* After a store a task goes on to a step it knows. *)
LEMMA StoredType == \A t \in Tasks : Stored(t) \in Ats
  BY DEF Stored, Ats

(* config_store_on_file opens, or fails. *)
LEMMA TypesOpen ==
  ASSUME Types, NEW t \in Tasks, Open(t) PROVE Types'
<1>1. task[t].key \in Keys
  BY TaskFacts DEF Types
<1>2. TaskType'
  BY GotoEffect, StoredType DEF Open, Types, Ats
<1>3. File("empty", Zero) \in FileRec
  BY ContentFacts DEF File, FileRec
<1>4. file' \in [Keys -> FileRec]
  BY <1>1, <1>3 DEF Open, Types, CfgType
<1>5. events' \in 0..MaxEvents /\ harmed' \subseteq Keys
  BY <1>1, EventFacts DEF Open, Types, GidType, HistType
<1> QED BY <1>2, <1>4, <1>5 DEF Open, Types, CfgType, GidType, CoreType, HistType, coreVars

(* config_store_on_file writes. *)
LEMMA TypesWrite ==
  ASSUME Types, NEW t \in Tasks, Write(t) PROVE Types'
<1>1. TaskType'
  BY GotoEffect, StoredType DEF Write, Types
<1>2. File("full", config) \in FileRec
  BY DEF File, FileRec, Types, CfgType
<1>3. file' \in [Keys -> FileRec]
  BY <1>2 DEF Write, Types, CfgType
<1> QED BY <1>1, <1>3 DEF Write, Types, CfgType, GidType, CoreType, HistType, coreVars, histVars

(* The comparison with what the core was started with. *)
LEMMA TypesCheck ==
  ASSUME Types, NEW t \in Tasks, Check(t) PROVE Types'
<1>1. TaskType'
  BY GotoEffect DEF Check, Types, Ats
<1>2. config.head.mode \in Modes /\ config.magic \in -1..3
  BY ContentFacts DEF Types, CfgType
<1>3. /\ wired_rst' \in BOOLEAN /\ rst_magic' \in -1..3 /\ rst_mode' \in Modes
      /\ missed' \in BOOLEAN
  <2>1. CASE rst_bare
    <3>1. /\ wired_rst' \in BOOLEAN /\ missed' \in BOOLEAN
      BY <2>1, Zenon DEF Check
    <3> QED BY <1>2, <2>1, <3>1 DEF Check
  <2>2. CASE ~rst_bare
    BY <2>2 DEF Check, Types, CoreType, HistType
  <2> QED BY <2>1, <2>2
<1> QED BY <1>1, <1>3 DEF Check, Types, CfgType, GidType, CoreType, HistType, cfgVars

(* The files that End removes, and what is promised after it.              *)
Removes(t) ==
  CASE task[t].end = "remove" -> {task[t].arg}
    [] task[t].end = "rm_gid" -> {gid} \cap Games
    [] OTHER -> {}
Promised(t) ==
  CASE task[t].end = "saved" -> [promise EXCEPT ![task[t].home] = @ \cup task[t].new]
    [] task[t].end = "copied" /\ task[t].key \in Games ->
         [promise EXCEPT ![task[t].key] = task[t].new]
    [] OTHER -> promise

(* The end of a call: t is at rest, what it removes is gone. *)
LEMMA EndEffect ==
  ASSUME Types, NEW t \in Tasks, End(t)
  PROVE  /\ TaskType' /\ Only(t) /\ task'[t] = Idle
         /\ file' = [k \in Keys |-> IF k \in Removes(t) THEN Absent ELSE file[k]]
         /\ promise' = [k \in Keys |-> IF k \in Removes(t) THEN {} ELSE Promised(t)[k]]
<1>1. task' = [task EXCEPT ![t] = Idle]
  BY DEF End
<1>2. TaskType' /\ Only(t) /\ task'[t] = Idle
  BY <1>1, IdleType, PutEffect DEF Types
<1>3. /\ file' = [k \in Keys |-> IF k \in Removes(t) THEN Absent ELSE file[k]]
      /\ promise' = [k \in Keys |-> IF k \in Removes(t) THEN {} ELSE Promised(t)[k]]
  BY DEF End, Removes, Promised
<1> QED BY <1>2, <1>3

(* What each caller promises, by the kind of its call. *)
LEMMA PromisedFacts ==
  ASSUME Types, NEW t \in Tasks
  PROVE  \A k \in Keys :
           /\ Promised(t)[k] \subseteq Edits
           /\ task[t].end = "saved" /\ k = task[t].home =>
                Promised(t)[k] = promise[k] \cup task[t].new
           /\ task[t].end = "saved" /\ k # task[t].home => Promised(t)[k] = promise[k]
           /\ task[t].end = "copied" /\ k = task[t].key /\ k \in Games =>
                Promised(t)[k] = task[t].new
           /\ task[t].end = "copied" /\ ~(k = task[t].key /\ k \in Games) =>
                Promised(t)[k] = promise[k]
           /\ task[t].end \notin {"saved", "copied"} => Promised(t)[k] = promise[k]
<1>1. task[t].new \subseteq Edits /\ promise \in [Keys -> SUBSET Edits] /\ task[t].end \in Ends
  BY TaskFacts DEF Types, HistType
<1> SUFFICES ASSUME NEW k \in Keys
             PROVE  /\ Promised(t)[k] \subseteq Edits
                    /\ task[t].end = "saved" /\ k = task[t].home =>
                         Promised(t)[k] = promise[k] \cup task[t].new
                    /\ task[t].end = "saved" /\ k # task[t].home => Promised(t)[k] = promise[k]
                    /\ task[t].end = "copied" /\ k = task[t].key /\ k \in Games =>
                         Promised(t)[k] = task[t].new
                    /\ task[t].end = "copied" /\ ~(k = task[t].key /\ k \in Games) =>
                         Promised(t)[k] = promise[k]
                    /\ task[t].end \notin {"saved", "copied"} => Promised(t)[k] = promise[k]
  OBVIOUS
<1>2. CASE task[t].end = "saved"
  <2>1. Promised(t) = [promise EXCEPT ![task[t].home] = @ \cup task[t].new]
    BY <1>2 DEF Promised
  <2> QED BY <1>1, <1>2, <2>1
<1>3. CASE task[t].end = "copied" /\ task[t].key \in Games
  <2>1. Promised(t) = [promise EXCEPT ![task[t].key] = task[t].new]
    BY <1>3 DEF Promised
  <2> QED BY <1>1, <1>3, <2>1
<1>4. CASE task[t].end # "saved" /\ ~(task[t].end = "copied" /\ task[t].key \in Games)
  <2>1. Promised(t) = promise
    BY <1>4 DEF Promised
  <2> QED BY <1>1, <1>4, <2>1
<1> QED BY <1>2, <1>3, <1>4

(* The end of a call keeps the types. *)
LEMMA TypesEnd ==
  ASSUME Types, NEW t \in Tasks, End(t) PROVE Types'
<1>1. Absent \in FileRec
  BY ContentFacts DEF Absent, File, FileRec
<1>2. file' \in [Keys -> FileRec]
  BY <1>1, EndEffect DEF Types, CfgType
<1>3. promise' \in [Keys -> SUBSET Edits]
  BY EndEffect, PromisedFacts
<1>4. up' \in BOOLEAN /\ TaskType'
  <2>1. up' \in BOOLEAN
    BY Zenon DEF End
  <2> QED BY <2>1, EndEffect
<1> QED BY <1>2, <1>3, <1>4 DEF End, Types, CfgType, GidType, CoreType, HistType, coreVars

(* The actions that start a task.                                          *)
LEMMA WriteHeadEffect ==
  ASSUME Types, NEW mode \in Modes, WriteHead(mode)
  PROVE  /\ TaskType' /\ Began("bt", Save({events + 1}))
         /\ \A o \in Tasks : o # "bt" => Meets(o)
<1>1. "bt" \in Tasks /\ {events + 1} \in SUBSET Edits
  BY EventFacts DEF Tasks, WriteHead, Types
<1> QED BY <1>1, SaveType, BeginEffect DEF WriteHead

(* A write to the input configuration begins a store. *)
LEMMA WriteTailEffect ==
  ASSUME Types, WriteTail
  PROVE  /\ TaskType' /\ Began("bt", Save({events + 1}))
         /\ \A o \in Tasks : o # "bt" => Meets(o)
<1>1. "bt" \in Tasks /\ {events + 1} \in SUBSET Edits
  BY EventFacts DEF Tasks, WriteTail, Types
<1> QED BY <1>1, SaveType, BeginEffect DEF WriteTail

(* The end of a long write begins a store of what was prepared. *)
LEMMA ExecEffect ==
  ASSUME Types, Exec
  PROVE  /\ TaskType' /\ Began("bt", Save(prepared))
         /\ \A o \in Tasks : o # "bt" => Meets(o)
<1>1. "bt" \in Tasks /\ prepared \in SUBSET Edits
  BY DEF Tasks, Types, HistType
<1> QED BY <1>1, SaveType, BeginEffect DEF Exec

(* The return to the default file begins a load. *)
LEMMA SetDefaultEffect ==
  ASSUME Types, SetDefault
  PROVE  /\ TaskType' /\ Began("bt", Call("init", "default", "rm_gid"))
         /\ \A o \in Tasks : o # "bt" => Meets(o)
<1>1. "bt" \in Tasks /\ Call("init", "default", "rm_gid") \in TaskRec
  BY CallType DEF Tasks, Ats, Ends
<1> QED BY <1>1, BeginEffect DEF SetDefault

(* Making a game's file begins a store of a copy. *)
LEMMA SetGameIdEffect ==
  ASSUME Types, SetGameId
  PROVE  /\ TaskType'
         /\ Began("bt", [Call("update", "gameid", "copied") EXCEPT !.home = Current])
         /\ \A o \in Tasks : o # "bt" => Meets(o)
<1>1. "bt" \in Tasks
  BY DEF Tasks
<1> QED BY <1>1, SetType, BeginEffect DEF SetGameId

(* Deleting a file begins a load only when the file is that of the game. *)
LEMMA DelFileEffect ==
  ASSUME Types, NEW k \in Keys, DelFile(k)
  PROVE  /\ TaskType'
         /\ Began("bt", [Call(IF k = gid THEN "init" ELSE "end", "default", "remove")
                           EXCEPT !.arg = k])
         /\ \A o \in Tasks : o # "bt" => Meets(o)
<1>1. "bt" \in Tasks
  BY DEF Tasks
<1> QED BY <1>1, DelType, BeginEffect DEF DelFile

(* A new game begins a load on the feedback task. *)
LEMMA GidUpdateEffect ==
  ASSUME Types, NEW g \in Games \cup {"none"}, GidUpdate(g)
  PROVE  /\ TaskType' /\ Began("fb", Call("init", "gameid", "none"))
         /\ \A o \in Tasks : o # "fb" => Meets(o)
<1>1. "fb" \in Tasks /\ Call("init", "gameid", "none") \in TaskRec
  BY CallType DEF Tasks, Ats, Ends
<1> QED BY <1>1, BeginEffect DEF GidUpdate

(* What every action that starts a call leaves well typed. *)
LEMMA TypesBegin ==
  ASSUME Types, TaskType', harmed' \in SUBSET Keys, config' \in ContentType,
         gid' \in Games \cup {"none"}, events' \in 0..MaxEvents, prepared' \subseteq Edits,
         UNCHANGED <<config_src, file, up, coreVars, promise, missed>>
  PROVE  Types'
  BY DEF Types, CfgType, GidType, CoreType, HistType, coreVars

(* There are two tasks. *)
LEMMA BtIsTask == "bt" \in Tasks /\ "fb" \in Tasks /\ "bt" # "fb"
                  /\ \A t \in Tasks : t = "bt" \/ t = "fb"
  BY DEF Tasks

(* A call that begins harms what it overlaps with, and nothing is healed. *)
LEMMA BeginHarm ==
  ASSUME Types, NEW t \in Tasks, NEW call, Begin(t, call)
  PROVE  harmed \subseteq harmed' /\ harmed' \in SUBSET Keys /\ harmed' = Clash(t, Current)
  BY ClashFacts DEF Begin, Types, HistType

(* A write to the global or output configuration keeps the types. *)
LEMMA TypesWriteHead ==
  ASSUME Types, NEW mode \in Modes, WriteHead(mode) PROVE Types'
<1>1. config.head.edits \cup {events + 1} \in SUBSET Edits
  BY EventFacts, ContentFacts DEF WriteHead, Types, CfgType
<1>2. config' \in ContentType
  <2>1. config' = [config EXCEPT !.head.edits = config.head.edits \cup {events + 1},
                                 !.head.mode = mode]
    BY DEF WriteHead
  <2> QED BY <1>1, <2>1, ContentSteps DEF Types, CfgType
<1>3. harmed' \in SUBSET Keys
  BY BeginHarm, BtIsTask DEF WriteHead
<1> QED BY <1>2, <1>3, TypesBegin, WriteHeadEffect, EventFacts
        DEF WriteHead, Types, GidType, HistType

(* An edit of the tail keeps the types. *)
LEMMA TailEdit ==
  ASSUME Types, Event, config' = [config EXCEPT !.tail.edits = @ \cup {events + 1}]
  PROVE  config' \in ContentType
<1>1. config.tail.edits \cup {events + 1} \in SUBSET Edits
  BY EventFacts, ContentFacts DEF Types, CfgType
<1>2. config' = [config EXCEPT !.tail.edits = config.tail.edits \cup {events + 1}]
  OBVIOUS
<1> QED BY <1>1, <1>2, ContentSteps DEF Types, CfgType

(* A write to the input configuration keeps the types. *)
LEMMA TypesWriteTail ==
  ASSUME Types, WriteTail PROVE Types'
<1>1. config' \in ContentType
  BY TailEdit DEF WriteTail
<1>2. harmed' \in SUBSET Keys
  BY BeginHarm, BtIsTask DEF WriteTail
<1> QED BY <1>1, <1>2, TypesBegin, WriteTailEffect, EventFacts
        DEF WriteTail, Types, GidType, HistType

(* A part of a long write keeps the types. *)
LEMMA TypesPrepare ==
  ASSUME Types, Prepare PROVE Types'
<1>1. config' \in ContentType
  BY TailEdit DEF Prepare
<1>2. harmed' \in SUBSET Keys
  BY ClashFacts, BtIsTask DEF Prepare, Types, HistType
<1>3. events' \in 0..MaxEvents /\ prepared' \subseteq Edits
  BY EventFacts DEF Prepare, Types, HistType
<1> QED BY <1>1, <1>2, <1>3, TypesBegin DEF Prepare, Types, GidType, TaskType

(* The commands and a new game keep the types. *)
LEMMA TypesStarts ==
  ASSUME Types,
         \/ Exec \/ SetDefault \/ SetGameId \/ (\E k \in Keys : DelFile(k))
         \/ \E g \in Games \cup {"none"} : GidUpdate(g)
  PROVE  Types'
<1>1. config \in ContentType /\ gid \in Games \cup {"none"} /\ events \in 0..MaxEvents
      /\ prepared \subseteq Edits
  BY DEF Types, CfgType, GidType, HistType
<1>2. CASE Exec
  <2>1. harmed' \in SUBSET Keys
    BY <1>2, BeginHarm, BtIsTask DEF Exec
  <2> QED BY <1>1, <1>2, <2>1, TypesBegin, ExecEffect DEF Exec, cfgVars
<1>3. CASE SetDefault
  <2>1. harmed' \in SUBSET Keys /\ events' \in 0..MaxEvents
    BY <1>3, BeginHarm, BtIsTask, EventFacts DEF SetDefault, Types
  <2> QED BY <1>1, <1>3, <2>1, TypesBegin, SetDefaultEffect DEF SetDefault, cfgVars
<1>4. CASE SetGameId
  <2>1. harmed' \in SUBSET Keys /\ events' \in 0..MaxEvents
    BY <1>4, BeginHarm, BtIsTask, EventFacts DEF SetGameId, Types
  <2> QED BY <1>1, <1>4, <2>1, TypesBegin, SetGameIdEffect DEF SetGameId, cfgVars
<1>5. ASSUME NEW k \in Keys, DelFile(k) PROVE Types'
  <2>1. harmed' \in SUBSET Keys /\ events' \in 0..MaxEvents
    BY <1>5, BeginHarm, BtIsTask, EventFacts DEF DelFile, Types
  <2> QED BY <1>1, <1>5, <2>1, TypesBegin, DelFileEffect DEF DelFile, cfgVars
<1>6. ASSUME NEW g \in Games \cup {"none"}, GidUpdate(g) PROVE Types'
  <2>1. harmed' \in SUBSET Keys /\ events' \in 0..MaxEvents
    BY <1>6, BeginHarm, BtIsTask, EventFacts DEF GidUpdate, Types
  <2> QED BY <1>1, <1>6, <2>1, TypesBegin, GidUpdateEffect DEF GidUpdate, cfgVars
<1> QED BY <1>2, <1>3, <1>4, <1>5, <1>6

(* The actions that start no call keep the types. *)
LEMMA TypesQuiet ==
  ASSUME Types, Cancel \/ OtaStart \/ OtaEnd \/ CoreStart \/ WiredReset PROVE Types'
<1>1. config.head.mode \in Modes
  BY ContentFacts DEF Types, CfgType
<1>2. CASE Cancel
  BY <1>2 DEF Cancel, Types, CfgType, GidType, CoreType, HistType, TaskType, cfgVars, coreVars
<1>3. CASE OtaStart
  <2>1. events' \in 0..MaxEvents
    BY <1>3, EventFacts DEF OtaStart, Types
  <2> QED BY <1>3, <2>1 DEF OtaStart, Types, CfgType, GidType, CoreType, HistType, TaskType,
                            cfgVars, coreVars, histVars
<1>4. CASE OtaEnd
  BY <1>4 DEF OtaEnd, Types, CfgType, GidType, CoreType, HistType, TaskType, cfgVars, coreVars,
              histVars
<1>5. CASE CoreStart
  BY <1>1, <1>5 DEF CoreStart, Types, CfgType, GidType, CoreType, HistType, TaskType, cfgVars,
                    histVars
<1>6. CASE WiredReset
  <2>1. missed' \in BOOLEAN
    BY <1>6, Zenon DEF WiredReset
  <2> QED BY <1>1, <1>6, <2>1 DEF WiredReset, Types, CfgType, GidType, CoreType, HistType,
                                  TaskType, cfgVars
<1> QED BY <1>2, <1>3, <1>4, <1>5, <1>6

(* The record of start-up. *)
LEMMA BootType == Boot \in TaskRec /\ Boot.at = "init" /\ Boot.met = FALSE /\ Boot.chain = 3
                  /\ Boot.end = "boot" /\ Boot.new = {} /\ Boot.dst = "default"
                  /\ Boot.key = "default"
<1>1. "init" \in Ats /\ "boot" \in Ends
  BY DEF Ats, Ends
<1>2. PICK i : i = Idle
  OBVIOUS
<1>3. Boot = [i EXCEPT !.at = "init", !.dst = "default", !.end = "boot"]
  BY <1>2 DEF Boot, Call
<1> QED BY <1>1, <1>2, <1>3, IdleType DEF TaskRec

(* After a start app_main loads and the feedback task is at rest. *)
LEMMA BootTask ==
  ASSUME NEW T, T = [t \in Tasks |-> IF t = "bt" THEN Boot ELSE Idle]
  PROVE  T \in [Tasks -> TaskRec] /\ T["bt"] = Boot /\ T["fb"] = Idle
  BY BootType, IdleType, BtIsTask

\* What a cut leaves of the files being stored
CutFile(len) ==
  File(len, IF len = "full" THEN config ELSE [config EXCEPT !.tail = Zero.tail])
Storing == {task[t].key : t \in {o \in Tasks : At(o, "write")}}
Between ==
  {k \in Keys : /\ file[k].data.magic = CONFIG_VERSION /\ file[k].data.tail.combos = 0
                /\ \E t \in Tasks : task[t].key = k /\ task[t].at \in {"upgrade", "open"}}

(* What a cut leaves: a file being stored has nothing, its head, or all of it. *)
LEMMA CutEffect ==
  ASSUME Types, Cut
  PROVE  /\ task' \in [Tasks -> TaskRec] /\ task'["bt"] = Boot /\ task'["fb"] = Idle
         /\ harmed' = harmed \cup Storing \cup Between
         /\ \E len \in {"empty", "head", "full"} :
              file' = [k \in Keys |-> IF k \notin Storing \/ len = "empty" THEN file[k]
                                      ELSE CutFile(len)]
<1>1. task' = [t \in Tasks |-> IF t = "bt" THEN Boot ELSE Idle]
  BY DEF Cut
<1>2. harmed' = harmed \cup Storing \cup Between
  BY DEF Cut, Storing, Between
<1>3. \E len \in {"empty", "head", "full"} :
        file' = [k \in Keys |-> IF k \notin Storing \/ len = "empty" THEN file[k]
                                ELSE CutFile(len)]
  BY DEF Cut, Storing, CutFile
<1>4. task' \in [Tasks -> TaskRec] /\ task'["bt"] = Boot /\ task'["fb"] = Idle
  BY <1>1, BootTask
<1> QED BY <1>2, <1>3, <1>4

(* A power cut or restart keeps the types. *)
LEMMA TypesCut ==
  ASSUME Types, Cut PROVE Types'
<1>1. TaskType' /\ harmed' = harmed \cup Storing \cup Between
  BY CutEffect DEF TaskType
<1>2. Storing \subseteq Keys /\ Between \subseteq Keys
  BY TaskFacts DEF Storing, Between, Types
<1>3. ASSUME NEW len \in {"empty", "head", "full"} PROVE CutFile(len) \in FileRec
  <2>1. {} \in SUBSET Edits
    OBVIOUS
  <2>2. config \in ContentType /\ [config EXCEPT !.tail = Zero.tail] \in ContentType
    BY <2>1, ContentSteps DEF Types, CfgType
  <2> QED BY <2>2 DEF CutFile, File, FileRec
<1>4. file' \in [Keys -> FileRec]
  BY <1>3, CutEffect DEF Types, CfgType
<1>5. events' \in 0..MaxEvents
  BY EventFacts DEF Cut, Types
<1>6. /\ config' = Zero /\ config_src' = "default" /\ gid' = "none" /\ up' = FALSE
      /\ core' = -1 /\ rst_bare' = FALSE /\ rst_magic' = -1 /\ rst_mode' = 0
      /\ wired_rst' = FALSE /\ prepared' = {} /\ missed' = FALSE /\ promise' = promise
  BY DEF Cut
<1>7. CfgType' /\ GidType' /\ CoreType'
  <2>1. CfgType'
    BY <1>4, <1>6, ContentFacts DEF CfgType
  <2>2. GidType'
    BY <1>5, <1>6 DEF GidType
  <2>3. rst_bare' \in BOOLEAN /\ wired_rst' \in BOOLEAN
    BY <1>6, Zenon
  <2>4. CoreType'
    BY <1>6, <2>3 DEF CoreType, Modes
  <2> QED BY <2>1, <2>2, <2>4
<1>8. HistType'
  BY <1>1, <1>2, <1>6 DEF HistType, Types
<1> QED BY <1>1, <1>7, <1>8 DEF Types

(* A file of an earlier session is whole and its own. *)
LEMMA OldType ==
  ASSUME NEW k \in Keys, NEW v \in OldFiles, NEW m \in OldModes
  PROVE  /\ Old(k, v, m) \in FileRec /\ Old(k, v, m).len = "full"
         /\ Old(k, v, m).data.magic = v /\ Old(k, v, m).data.head.own = k
         /\ Old(k, v, m).data.tail.own = k
         /\ Old(k, v, m).data.head.edits = {0} /\ Old(k, v, m).data.tail.edits = {0}
         /\ Old(k, v, m).data.tail.combos = IF v = 3 THEN 1 ELSE 0
<1>1. v \in 0..3 /\ m \in {0, 1} /\ {0} \in SUBSET Edits
  BY WebAssumption, EditFacts
<1> DEFINE n == IF v = CONFIG_VERSION THEN 1 ELSE 0
<1>2. PICK c : c = Config(v, Parts(k, {0}, m, n))
  OBVIOUS
<1>3. n \in Nat /\ n = IF v = 3 THEN 1 ELSE 0
  BY DEF CONFIG_VERSION
<1>4. c \in ContentType /\ c.magic = v /\ c.head.own = k /\ c.tail.own = k
      /\ c.head.edits = {0} /\ c.tail.edits = {0} /\ c.tail.combos = n
  <2> HIDE DEF n
  <2> QED BY <1>1, <1>2, <1>3 DEF Config, Parts, ContentType, Modes
<1>5. Old(k, v, m) = [len |-> "full", data |-> c]
  BY <1>2 DEF Old, File
<1> QED BY <1>3, <1>4, <1>5 DEF FileRec

(* What memory holds before anything is loaded, and what an absent file does. *)
LEMMA ZeroFacts ==
  /\ Zero.head.edits = {} /\ Zero.tail.edits = {} /\ Zero.head.own = "zero"
  /\ Zero.tail.own = "zero" /\ Zero.magic = -1 /\ Zero.tail.combos = 0
  /\ Absent \in FileRec /\ Absent.len = "absent" /\ Absent.data = Zero
<1>1. /\ Zero.head.edits = {} /\ Zero.tail.edits = {} /\ Zero.head.own = "zero"
      /\ Zero.tail.own = "zero" /\ Zero.magic = -1 /\ Zero.tail.combos = 0
  BY DEF Zero, Config, Parts
<1> QED BY <1>1, ContentFacts DEF Absent, File, FileRec

(* A file at the first start is absent or of an earlier session.           *)
LEMMA FirstFiles ==
  ASSUME Init, NEW k \in Keys
  PROVE  /\ file[k] = Absent \/ \E v \in OldFiles : \E m \in OldModes : file[k] = Old(k, v, m)
         /\ file[k] \in FileRec /\ promise[k] = file[k].data.head.edits
<1>1. file[k] \in {Absent} \cup {Old(j, v, m) : j \in Keys, v \in OldFiles, m \in OldModes}
  BY DEF Init
<1>2. promise[k] = file[k].data.head.edits
  BY DEF Init
<1>3. CASE file[k] = Absent
  BY <1>2, <1>3, ZeroFacts
<1>4. CASE \E j \in Keys : \E v \in OldFiles : \E m \in OldModes : file[k] = Old(j, v, m)
  <2>1. PICK j \in Keys, v \in OldFiles, m \in OldModes : file[k] = Old(j, v, m)
    BY <1>4
  <2>2. file[k].data.head.own = j
    BY <2>1, OldType
  <2>3. j \in {k, "zero"}
    BY <2>2 DEF Init
  <2>4. "zero" \notin Keys
    BY WebAssumption DEF Keys
  <2> QED BY <1>2, <2>1, <2>3, <2>4, OldType
<1> QED BY <1>1, <1>3, <1>4

(* The first state is well typed. *)
LEMMA TypesInit ==
  ASSUME Init PROVE Types
<1>1. file \in [Keys -> FileRec]
  <2>1. file = [k \in Keys |-> file[k]]
    BY DEF Init
  <2> QED BY <2>1, FirstFiles
<1>2. promise \in [Keys -> SUBSET Edits]
  <2>1. \A k \in Keys : file[k].data.head.edits \in SUBSET Edits
    BY <1>1, ContentFacts DEF FileRec
  <2> QED BY <2>1 DEF Init
<1>3. TaskType
  BY BootTask DEF Init, TaskType
<1>4. CfgType /\ GidType /\ CoreType
  <2>1. CfgType
    BY <1>1, ContentFacts DEF Init, CfgType
  <2>2. rst_bare \in BOOLEAN /\ wired_rst \in BOOLEAN /\ up \in BOOLEAN
    BY Zenon DEF Init
  <2>3. GidType
    BY <2>2, EditFacts DEF Init, GidType
  <2>4. CoreType
    BY <2>2 DEF Init, CoreType, Modes
  <2> QED BY <2>1, <2>3, <2>4
<1>5. HistType
  BY <1>2 DEF Init, HistType
<1> QED BY <1>3, <1>4, <1>5 DEF Types

(***************************************************************************)
(* What a task may be doing: Flow, its place in config_init or             *)
(* config_update given its caller; Calls, that two tasks at work know of   *)
(* each other and that only start-up runs before up.                       *)
(***************************************************************************)
Loading  == {"init", "choose", "load"}
Updating == {"update", "pick"}
Storers  == {"saved", "copied"}

Flow(t) ==
  /\ task[t].at = "idle" => task[t] = Idle
  /\ task[t].at = "upgrade" => task[t].chain < 3
  /\ task[t].chain < 3 => task[t].at \in {"upgrade", "open", "write"}
  /\ task[t].at \in Updating => task[t].end \in Storers
  /\ task[t].at \in Loading \cup {"upgrade"} => task[t].end \notin Storers
  /\ task[t].end \in Storers => task[t].chain = 3
  /\ task[t].end = "copied" => task[t].dst = "gameid"
  /\ task[t].end \notin Storers => task[t].new = {}

Meeting ==
  task["bt"].at # "idle" /\ task["fb"].at # "idle" => task["bt"].met /\ task["fb"].met

Booting ==
  /\ \A t \in Tasks : task[t].at # "idle" => (task[t].end = "boot" <=> ~up)
  /\ ~up => /\ task["fb"].at = "idle" /\ task["bt"].at # "idle" /\ ~task["bt"].met
            /\ gid = "none" /\ task["bt"].dst = "default"

Calls == (\A t \in Tasks : Flow(t)) /\ Meeting /\ Booting /\ task["fb"].end = "none"

NamedGid == config_src = "gameid" => gid # "none" \/ task["fb"].at = "init"

(* A step of t leaves where the other task is in its call. *)
LEMMA FlowOnly ==
  ASSUME NEW t \in Tasks, Only(t), \A o \in Tasks : Flow(o), Flow(t)'
  PROVE  \A o \in Tasks : Flow(o)'
  BY DEF Only, Flow

(* A step of a call under way leaves who is at work alone.                 *)
LEMMA StepCalls ==
  ASSUME Types, Calls, NEW t \in Tasks, Only(t), Same(t), task[t].at # "idle",
         task'[t].at # "idle", up' = up, gid' = gid, Flow(t)'
  PROVE  Calls'
<1>1. \A o \in Tasks : Flow(o)'
  BY FlowOnly DEF Calls
<1>2. CASE t = "bt"
  <2>1. task'["fb"] = task["fb"]
    BY <1>2, BtIsTask DEF Only
  <2>2. Meeting'
    BY <1>2, <2>1 DEF Calls, Meeting, Same
  <2>3. Booting'
    BY <1>2, <2>1, BtIsTask DEF Calls, Booting, Same
  <2> QED BY <1>1, <2>1, <2>2, <2>3 DEF Calls
<1>3. CASE t = "fb"
  <2>1. task'["bt"] = task["bt"]
    BY <1>3, BtIsTask DEF Only
  <2>2. Meeting'
    BY <1>3, <2>1 DEF Calls, Meeting, Same
  <2>3. Booting'
    BY <1>3, <2>1, BtIsTask DEF Calls, Booting, Same
  <2>4. task'["fb"].end = "none"
    BY <1>3 DEF Calls, Same
  <2> QED BY <1>1, <2>2, <2>3, <2>4 DEF Calls
<1> QED BY <1>2, <1>3, BtIsTask

(* A move of t along its call keeps Calls. *)
LEMMA MoveCalls ==
  ASSUME Types, Calls, NEW t \in Tasks, NEW a \in Ats, MoveTo(t, a), task[t].at # "idle",
         a # "idle", up' = up, gid' = gid, Flow(t)'
  PROVE  Calls'
  BY StepCalls DEF MoveTo, Held

(* The steps with one way out keep Calls. *)
LEMMA CallsInitSrc ==
  ASSUME Types, Calls, NEW t \in Tasks, InitSrc(t) \/ UpdateSrc(t) \/ Check(t) PROVE Calls'
<1>1. Flow(t)
  BY DEF Calls
<1>2. ASSUME NEW a, NEW b \in Ats, task[t].at = a, Goto(t, b), <<a, b>> \in
               {<<"init", "choose">>, <<"update", "pick">>, <<"check", "end">>}
      PROVE  MoveTo(t, b) /\ Flow(t)' /\ task[t].at # "idle" /\ b # "idle"
  <2>1. MoveTo(t, b)
    BY <1>2, GotoEffect DEF Types
  <2> QED BY <1>1, <1>2, <2>1 DEF Flow, MoveTo, Held, Same, Loading, Updating
<1>3. \E b \in Ats : /\ MoveTo(t, b) /\ Flow(t)' /\ task[t].at # "idle" /\ b # "idle"
                     /\ up' = up /\ gid' = gid
  <2>1. {"choose", "pick", "end"} \subseteq Ats
    BY DEF Ats
  <2>2. CASE InitSrc(t)
    BY <1>2, <2>1, <2>2 DEF InitSrc, At
  <2>3. CASE UpdateSrc(t)
    BY <1>2, <2>1, <2>3 DEF UpdateSrc, At
  <2>4. CASE Check(t)
    BY <1>2, <2>1, <2>4 DEF Check, At
  <2> QED BY <2>2, <2>3, <2>4
<1> QED BY <1>3, MoveCalls

(* The choice of config_init keeps Calls. *)
LEMMA CallsChoose ==
  ASSUME Types, Calls, NEW t \in Tasks, Choose(t) PROVE Calls'
<1>1. Flow(t) /\ task[t].at = "choose" /\ up' = up /\ gid' = gid
  BY DEF Calls, Choose, At
<1>2. \E k : ChooseTo(t, k)
  BY ChooseEffect
<1>3. Flow(t)' /\ Only(t) /\ Same(t) /\ task'[t].at # "idle"
  BY <1>1, <1>2 DEF ChooseTo, Flow, Same, Loading, Updating
<1> QED BY <1>1, <1>3, StepCalls

(* What the three ways of Load have in common.                             *)
LEMMA LoadEffect ==
  ASSUME Types, NEW t \in Tasks, Load(t)
  PROVE  LET k == task[t].key
         IN  /\ task[t].at = "load" /\ k \in Keys
             /\ \/ config' = Fresh(k) /\ Only(t) /\ Same(t) /\ task'[t].key = k
                   /\ task'[t].new = task[t].new /\ task'[t].at = "open"
                   /\ task'[t].chain \in {3, task[t].chain}
                \/ \E d \in {config, Fread(file[k])} :
                     \/ d.magic = 3 /\ config' = d /\ LoadTo(t, "check", 3)
                     \/ d.magic \in 0..2 /\ config' = d /\ LoadTo(t, "upgrade", d.magic)
<1> DEFINE k == task[t].key
<1>1. k \in Keys /\ task[t].at = "load"
  BY TaskFacts DEF Types, Load, At
<1>2. config \in ContentType /\ Fread(file[k]) \in ContentType
  BY <1>1, FreadType DEF Types, CfgType
<1>3. CASE config' = Fresh(k) /\ Goto(t, "open")
  <2>1. MoveTo(t, "open")
    BY <1>3, GotoEffect DEF Types, Ats
  <2> QED BY <1>1, <1>3, <2>1 DEF MoveTo, Held
<1>4. ASSUME NEW d \in {config, Fread(file[k])}, Loaded(t, d)
      PROVE  \/ config' = Fresh(k) /\ LoadTo(t, "open", 3)
             \/ d.magic = 3 /\ config' = d /\ LoadTo(t, "check", 3)
             \/ d.magic \in 0..2 /\ config' = d /\ LoadTo(t, "upgrade", d.magic)
  BY <1>2, <1>4, LoadedEffect
<1>5. \/ config' = Fresh(k) /\ Goto(t, "open")
      \/ \E d \in {config, Fread(file[k])} : Loaded(t, d)
  BY DEF Load
<1>6. ASSUME NEW d \in {config, Fread(file[k])}, Loaded(t, d)
      PROVE  \/ config' = Fresh(k) /\ Only(t) /\ Same(t) /\ task'[t].key = k
                /\ task'[t].new = task[t].new /\ task'[t].at = "open"
                /\ task'[t].chain \in {3, task[t].chain}
             \/ \E e \in {config, Fread(file[k])} :
                  \/ e.magic = 3 /\ config' = e /\ LoadTo(t, "check", 3)
                  \/ e.magic \in 0..2 /\ config' = e /\ LoadTo(t, "upgrade", e.magic)
  <2>1. CASE config' = Fresh(k) /\ LoadTo(t, "open", 3)
    BY <2>1 DEF LoadTo
  <2>2. CASE ~(config' = Fresh(k) /\ LoadTo(t, "open", 3))
    BY <1>4, <1>6, <2>2
  <2> QED BY <2>1, <2>2
<1> QED BY <1>1, <1>3, <1>5, <1>6

(* The load keeps Calls, whichever way it goes. *)
LEMMA CallsLoad ==
  ASSUME Types, Calls, NEW t \in Tasks, Load(t) PROVE Calls'
<1>1. Flow(t) /\ task[t].at = "load" /\ up' = up /\ gid' = gid
  BY DEF Calls, Load, At
<1>2. task[t].chain = 3 /\ task[t].end \notin Storers /\ task[t].new = {}
  <2>1. task[t].chain \in 0..3
    BY TaskFacts DEF Types
  <2> QED BY <1>1, <2>1 DEF Flow, Loading
<1>3. \/ /\ Only(t) /\ Same(t) /\ task'[t].new = {} /\ task'[t].at = "open"
         /\ task'[t].chain = 3
      \/ LoadTo(t, "check", 3)
      \/ \E v \in 0..2 : LoadTo(t, "upgrade", v)
  <2> DEFINE k == task[t].key
  <2>1. \/ Only(t) /\ Same(t) /\ task'[t].new = task[t].new /\ task'[t].at = "open"
           /\ task'[t].chain \in {3, task[t].chain}
        \/ \E d \in {config, Fread(file[k])} :
             LoadTo(t, "check", 3) \/ (d.magic \in 0..2 /\ LoadTo(t, "upgrade", d.magic))
    BY LoadEffect
  <2> QED BY <1>2, <2>1
<1>4. Only(t) /\ Same(t) /\ task'[t].at # "idle" /\ Flow(t)'
  <2>1. CASE Only(t) /\ Same(t) /\ task'[t].new = {} /\ task'[t].at = "open"
             /\ task'[t].chain = 3
    BY <1>1, <1>2, <2>1 DEF Flow, Same, Loading, Updating, Storers
  <2>2. CASE LoadTo(t, "check", 3)
    BY <1>1, <1>2, <2>2 DEF Flow, LoadTo, Same, Loading, Updating, Storers
  <2>3. ASSUME NEW v \in 0..2, LoadTo(t, "upgrade", v)
        PROVE  Only(t) /\ Same(t) /\ task'[t].at # "idle" /\ Flow(t)'
    BY <1>1, <1>2, <2>3 DEF Flow, LoadTo, Same, Loading, Updating, Storers
  <2> QED BY <1>3, <2>1, <2>2, <2>3
<1> QED BY <1>1, <1>4, StepCalls

(* A step of the upgrade keeps Calls. *)
LEMMA CallsUpgrade ==
  ASSUME Types, Calls, NEW t \in Tasks, Upgrade(t) PROVE Calls'
<1>1. Flow(t) /\ task[t].at = "upgrade" /\ up' = up /\ gid' = gid
  BY DEF Calls, Upgrade, At
<1>2. task[t].chain < 3
  BY <1>1 DEF Flow
<1>3. LoadTo(t, "open", task[t].chain + 1)
  BY <1>2, UpgradeEffect
<1>4. Only(t) /\ Same(t) /\ task'[t].at # "idle" /\ Flow(t)'
  <2>1. task[t].chain \in 0..3 /\ task[t].end \notin Storers
    BY <1>1, TaskFacts DEF Types, Flow
  <2> QED BY <1>1, <1>2, <1>3, <2>1 DEF Flow, LoadTo, Same, Loading, Updating, Storers
<1> QED BY <1>1, <1>4, StepCalls

(* The choice of config_update keeps Calls. *)
LEMMA CallsPick ==
  ASSUME Types, Calls, NEW t \in Tasks, Pick(t) PROVE Calls'
<1>1. Flow(t) /\ task[t].at = "pick" /\ up' = up /\ gid' = gid
  BY DEF Calls, Pick, At
<1>2. \E k, n : PickTo(t, k, n)
  BY PickEffect
<1>3. Only(t) /\ Same(t) /\ task'[t].at # "idle" /\ Flow(t)'
  BY <1>1, <1>2 DEF Flow, PickTo, Same, Loading, Updating, Storers
<1> QED BY <1>1, <1>3, StepCalls

(* Where a store leads, and what it leaves to be upgraded.                 *)
LEMMA StoredFacts ==
  ASSUME Types, NEW t \in Tasks
  PROVE  \/ Stored(t) = "upgrade" /\ task[t].chain < 3
         \/ Stored(t) = "check" /\ task[t].chain = 3
<1>1. task[t].chain \in 0..3
  BY TaskFacts DEF Types
<1> QED BY <1>1 DEF Stored, CONFIG_VERSION

(* A store keeps Calls. *)
LEMMA CallsOpen ==
  ASSUME Types, Calls, NEW t \in Tasks, Open(t) \/ Write(t) PROVE Calls'
<1>1. Flow(t) /\ task[t].at \in {"open", "write"} /\ up' = up /\ gid' = gid
  BY DEF Calls, Open, Write, At
<1>2. MoveTo(t, "write") \/ MoveTo(t, Stored(t))
  BY GotoEffect, StoredType DEF Open, Write, Types, Ats
<1>3. Only(t) /\ Same(t) /\ task'[t].at # "idle" /\ Flow(t)'
  <2>1. CASE MoveTo(t, "write")
    BY <1>1, <2>1 DEF Flow, MoveTo, Held, Same, Loading, Updating, Storers
  <2>2. CASE MoveTo(t, Stored(t))
    BY <1>1, <2>2, StoredFacts DEF Flow, MoveTo, Held, Same, Loading, Updating, Storers
  <2> QED BY <1>2, <2>1, <2>2
<1> QED BY <1>1, <1>3, StepCalls

(* The end of a call keeps Calls. *)
LEMMA CallsEnd ==
  ASSUME Types, Calls, NEW t \in Tasks, End(t) PROVE Calls'
<1>1. Only(t) /\ task'[t] = Idle /\ task[t].at = "end" /\ gid' = gid
      /\ up' = (up \/ task[t].end = "boot")
  BY EndEffect DEF End, At
<1>2. Idle.at = "idle" /\ Idle.chain = 3 /\ Idle.end = "none" /\ Idle.new = {}
  BY IdleType
<1>3. \A o \in Tasks : Flow(o)'
  <2>1. Flow(t)'
    BY <1>1, <1>2 DEF Flow, Loading, Updating, Storers
  <2> QED BY <1>1, <2>1, FlowOnly DEF Calls
<1>4. Meeting' /\ task'["fb"].end = "none"
  BY <1>1, <1>2, BtIsTask DEF Calls, Meeting, Only
<1>5. up'
  BY <1>1 DEF Calls, Booting
<1>6. ASSUME NEW o \in Tasks, task'[o].at # "idle" PROVE task'[o].end # "boot"
  <2>1. o # t /\ task'[o] = task[o]
    BY <1>1, <1>2, <1>6 DEF Only
  <2>2. up
    BY <1>1, <1>6, <2>1, BtIsTask DEF Calls, Booting
  <2> QED BY <1>6, <2>1, <2>2 DEF Calls, Booting
<1>7. Booting'
  BY <1>5, <1>6 DEF Booting
<1> QED BY <1>3, <1>4, <1>7 DEF Calls

(* Two task records with the same fields are one. *)
LEMMA SameRecord ==
  ASSUME NEW r \in TaskRec, NEW s \in TaskRec,
         r.at = s.at, r.dst = s.dst, r.key = s.key, r.chain = s.chain, r.end = s.end,
         r.arg = s.arg, r.home = s.home, r.new = s.new, r.met = s.met
  PROVE  r = s
  BY DEF TaskRec

(* A call that begins: the other task, if it is at work, has met it.       *)
LEMMA BeginCalls ==
  ASSUME Types, Types', Calls, NEW t \in Tasks, NEW call \in TaskRec,
         up, task[t].at = "idle", Began(t, call), \A o \in Tasks : o # t => Meets(o),
         up' = up, call.at # "idle", call.chain = 3, call.end # "boot",
         call.at \in Updating => call.end \in Storers,
         call.at \in Loading \cup {"upgrade"} => call.end \notin Storers,
         call.end = "copied" => call.dst = "gameid", call.end \notin Storers => call.new = {},
         call.at # "upgrade", t = "fb" => call.end = "none"
  PROVE  Calls'
<1>1. Flow(t)'
  BY DEF Began, Flow
<1>2. ASSUME NEW o \in Tasks, o # t PROVE Flow(o)'
  <2>1. Flow(o) /\ Meets(o)
    BY <1>2 DEF Calls
  <2>2. CASE task[o].at = "idle"
    <3>1. task[o] = Idle
      BY <2>1, <2>2 DEF Flow
    <3>2. task'[o].met = FALSE
      BY <2>1, <2>2, Zenon DEF Meets, At
    <3>3. task'[o] \in TaskRec
      BY DEF Types, TaskType
    <3>4. task'[o] = Idle
      BY <2>1, <3>1, <3>2, <3>3, SameRecord, IdleType DEF Meets
    <3> QED BY <2>1, <2>2, <3>4, IdleType DEF Flow, Loading, Updating, Storers
  <2>3. CASE task[o].at # "idle"
    BY <2>1, <2>3 DEF Flow, Meets
  <2> QED BY <2>2, <2>3
<1>3. Meeting'
  <2>1. ASSUME task'["bt"].at # "idle", task'["fb"].at # "idle"
        PROVE  task'["bt"].met /\ task'["fb"].met
    <3>1. PICK o \in Tasks : o # t /\ (\A p \in Tasks : p = t \/ p = o)
      BY BtIsTask
    <3>2. Meets(o) /\ task[o].at # "idle"
      BY <2>1, <3>1, BtIsTask DEF Meets
    <3>3. task'[o].met
      BY <3>2 DEF Meets, At
    <3>4. task'[t].met
      BY <3>2 DEF Began, Quiet, At
    <3> QED BY <3>1, <3>3, <3>4, BtIsTask
  <2> QED BY <2>1 DEF Meeting
<1>4. Booting'
  <2>1. \A o \in Tasks : task'[o].at # "idle" => task'[o].end # "boot"
    BY DEF Began, Meets, Calls, Booting
  <2> QED BY <2>1 DEF Booting
<1>5. task'["fb"].end = "none"
  BY BtIsTask DEF Began, Meets, Calls
<1> QED BY <1>1, <1>2, <1>3, <1>4, <1>5 DEF Calls

(* Edits and the end of a long write keep Calls. *)
LEMMA CallsWrites ==
  ASSUME Types, Types', Calls,
         (\E mode \in Modes : WriteHead(mode)) \/ WriteTail \/ Exec
  PROVE  Calls'
<1>1. PICK S \in SUBSET Edits :
        /\ Began("bt", Save(S)) /\ (\A o \in Tasks : o # "bt" => Meets(o))
        /\ up /\ task["bt"].at = "idle" /\ up' = up
  <2> DEFINE P(S) == /\ Began("bt", Save(S)) /\ (\A o \in Tasks : o # "bt" => Meets(o))
                     /\ up /\ task["bt"].at = "idle" /\ up' = up
  <2>1. ASSUME NEW mode \in Modes, WriteHead(mode) PROVE P({events + 1})
    BY <2>1, WriteHeadEffect DEF WriteHead, Begin, At
  <2>2. ASSUME WriteTail PROVE P({events + 1})
    BY <2>2, WriteTailEffect DEF WriteTail, Begin, At
  <2>3. ASSUME Exec PROVE P(prepared)
    BY <2>3, ExecEffect DEF Exec, Begin, At
  <2>4. prepared \in SUBSET Edits
    BY DEF Types, HistType
  <2>5. ASSUME Event PROVE {events + 1} \in SUBSET Edits
    BY <2>5, EventFacts DEF Types
  <2>6. CASE \E mode \in Modes : WriteHead(mode)
    BY <2>1, <2>5, <2>6 DEF WriteHead
  <2>7. CASE WriteTail
    BY <2>2, <2>5, <2>7 DEF WriteTail
  <2> QED BY <2>3, <2>4, <2>6, <2>7
<1>2. PICK call \in TaskRec : call = Save(S)
  BY SaveType
<1>3. call.at = "update" /\ call.end = "saved" /\ call.chain = 3
  BY <1>2, SaveType
<1> QED BY <1>1, <1>2, <1>3, BeginCalls, BtIsTask DEF Loading, Updating, Storers

(* The return to the default file keeps Calls. *)
LEMMA CallsSetDefault ==
  ASSUME Types, Types', Calls, SetDefault PROVE Calls'
<1>1. PICK a \in Ats, e \in Ends : a = "init" /\ e = "rm_gid"
  BY DEF Ats, Ends
<1>2. PICK d \in {"default", "gameid"} : d = "default"
  OBVIOUS
<1>3. PICK call \in TaskRec : call = Call(a, d, e)
  BY CallType
<1>4. call.at = "init" /\ call.end = "rm_gid" /\ call.chain = 3 /\ call.new = {}
  <2>1. call.at = a /\ call.end = e /\ call.chain = 3 /\ call.new = {}
    BY <1>1, <1>2, <1>3, CallType
  <2> QED BY <1>1, <2>1
<1>5. Began("bt", call) /\ (\A o \in Tasks : o # "bt" => Meets(o))
  BY <1>1, <1>2, <1>3, SetDefaultEffect
<1>6. up /\ task["bt"].at = "idle" /\ up' = up
  BY DEF SetDefault, Begin, At
<1> QED BY <1>4, <1>5, <1>6, BeginCalls, BtIsTask DEF Loading, Updating, Storers

(* Making a game's file keeps Calls. *)
LEMMA CallsSetGameId ==
  ASSUME Types, Types', Calls, SetGameId PROVE Calls'
<1>1. PICK call \in TaskRec :
        call = [Call("update", "gameid", "copied") EXCEPT !.home = Current]
  BY SetType
<1>2. call.at = "update" /\ call.end = "copied" /\ call.chain = 3 /\ call.dst = "gameid"
  BY <1>1, SetType
<1>3. Began("bt", call) /\ (\A o \in Tasks : o # "bt" => Meets(o))
  BY <1>1, SetGameIdEffect
<1>4. up /\ task["bt"].at = "idle" /\ up' = up
  BY DEF SetGameId, Begin, At
<1> QED BY <1>2, <1>3, <1>4, BeginCalls, BtIsTask DEF Loading, Updating, Storers

(* Deleting a file keeps Calls. *)
LEMMA CallsDelFile ==
  ASSUME Types, Types', Calls, NEW k \in Keys, DelFile(k) PROVE Calls'
<1>1. PICK call \in TaskRec :
        call = [Call(IF k = gid THEN "init" ELSE "end", "default", "remove") EXCEPT !.arg = k]
  BY DelType
<1>2. call.at \in {"init", "end"} /\ call.end = "remove" /\ call.chain = 3 /\ call.new = {}
  BY <1>1, DelType
<1>3. Began("bt", call) /\ (\A o \in Tasks : o # "bt" => Meets(o))
  BY <1>1, DelFileEffect
<1>4. up /\ task["bt"].at = "idle" /\ up' = up
  BY DEF DelFile, Begin, At
<1> QED BY <1>2, <1>3, <1>4, BeginCalls, BtIsTask DEF Loading, Updating, Storers

(* A new game keeps Calls. *)
LEMMA CallsGidUpdate ==
  ASSUME Types, Types', Calls, NEW g \in Games \cup {"none"}, GidUpdate(g) PROVE Calls'
<1>1. PICK a \in Ats, e \in Ends : a = "init" /\ e = "none"
  BY DEF Ats, Ends
<1>2. PICK d \in {"default", "gameid"} : d = "gameid"
  OBVIOUS
<1>3. PICK call \in TaskRec : call = Call(a, d, e)
  BY CallType
<1>4. call.at = "init" /\ call.end = "none" /\ call.chain = 3 /\ call.new = {}
  <2>1. call.at = a /\ call.end = e /\ call.chain = 3 /\ call.new = {}
    BY <1>1, <1>2, <1>3, CallType
  <2> QED BY <1>1, <2>1
<1>5. Began("fb", call) /\ (\A o \in Tasks : o # "fb" => Meets(o))
  BY <1>1, <1>2, <1>3, GidUpdateEffect
<1>6. up /\ task["fb"].at = "idle" /\ up' = up
  BY DEF GidUpdate, Begin, At
<1> QED BY <1>4, <1>5, <1>6, BeginCalls, BtIsTask DEF Loading, Updating, Storers

(* Nothing of Calls depends on what the other actions change. *)
LEMMA CallsQuiet ==
  ASSUME Calls, UNCHANGED <<task, up, gid>> PROVE Calls'
  BY DEF Calls, Flow, Meeting, Booting

(* After a restart only start-up runs. *)
LEMMA CallsBoot ==
  ASSUME task' \in [Tasks -> TaskRec], task'["bt"] = Boot, task'["fb"] = Idle, up' = FALSE,
         gid' = "none"
  PROVE  Calls'
<1>1. Flow("bt")'
  BY BootType DEF Flow, Loading, Updating, Storers
<1>2. Flow("fb")'
  BY IdleType DEF Flow, Loading, Updating, Storers
<1>3. Meeting' /\ Booting' /\ task'["fb"].end = "none"
  BY BootType, IdleType, BtIsTask DEF Meeting, Booting
<1> QED BY <1>1, <1>2, <1>3, BtIsTask DEF Calls

(* At the first start only start-up runs. *)
LEMMA CallsInit ==
  ASSUME Init PROVE Calls
<1>1. task \in [Tasks -> TaskRec] /\ task["bt"] = Boot /\ task["fb"] = Idle
  BY BootTask DEF Init
<1>2. up = FALSE /\ gid = "none"
  BY DEF Init
<1>3. Flow("bt")
  BY <1>1, BootType DEF Flow, Loading, Updating, Storers
<1>4. Flow("fb")
  BY <1>1, IdleType DEF Flow, Loading, Updating, Storers
<1>5. Meeting /\ Booting /\ task["fb"].end = "none"
  BY <1>1, <1>2, BootType, IdleType, BtIsTask DEF Meeting, Booting
<1> QED BY <1>3, <1>4, <1>5, BtIsTask DEF Calls

(***************************************************************************)
(* What is harmed: what a task does after it has met the other is with     *)
(* files in harmed.                                                        *)
(***************************************************************************)
Working == {"load", "upgrade", "open", "write", "check"}
Deciding(t) == task[t].at \in {"init", "choose", "update", "pick"}

HarmedBy(t) ==
  task[t].met =>
    /\ task[t].at \in Working => task[t].key \in harmed
    /\ task[t].at = "end" /\ task[t].end \in Storers => task[t].key \in harmed
    /\ task[t].end = "saved" => task[t].home \in harmed \cup {"none"}

MetHarms ==
  /\ \A t \in Tasks : HarmedBy(t)
  /\ (\A t \in Tasks : ~Deciding(t)) /\ (\E t \in Tasks : task[t].met) => Current \in harmed

(* Once the feedback task has begun to load, config_src stands for a file. *)
LEMMA CurrentNamed ==
  ASSUME Types, NamedGid, task["fb"].at # "init" PROVE Current \in Keys
  BY KeyFacts DEF Types, CfgType, GidType, NamedGid, Current

(* A step of t, which heals nothing, leaves what the other task has harmed. *)
LEMMA OnlyHarms ==
  ASSUME MetHarms, NEW t \in Tasks, Only(t), harmed \subseteq harmed', HarmedBy(t)'
  PROVE  \A o \in Tasks : HarmedBy(o)'
  BY DEF Only, MetHarms, HarmedBy

(* A task that goes on with its file has it harmed already, if it met the other. *)
LEMMA MetWorking ==
  ASSUME Types, MetHarms, NEW t \in Tasks, Only(t), Same(t), task'[t].key = task[t].key,
         task[t].at \in Working, task'[t].at \in Working \cup {"end"}, config_src' = config_src,
         gid' = gid, harmed \subseteq harmed'
  PROVE  MetHarms'
<1>1. HarmedBy(t)'
  BY DEF MetHarms, HarmedBy, Same, Working
<1>2. Current' = Current
  BY DEF Current
<1>3. \A o \in Tasks : Deciding(o)' = Deciding(o) /\ task'[o].met = task[o].met
  BY DEF Only, Same, Deciding, Working
<1>4. (\A o \in Tasks : ~Deciding(o)') /\ (\E o \in Tasks : task'[o].met) => Current' \in harmed'
  BY <1>2, <1>3 DEF MetHarms
<1> QED BY <1>1, <1>4, OnlyHarms DEF MetHarms

(* The choice of a source keeps MetHarms. *)
LEMMA MetSrc ==
  ASSUME Types, MetHarms, NEW t \in Tasks, InitSrc(t) \/ UpdateSrc(t) PROVE MetHarms'
<1>1. MoveTo(t, "choose") \/ MoveTo(t, "pick")
  BY GotoEffect DEF InitSrc, UpdateSrc, Types, Ats
<1>2. harmed' = harmed
  BY DEF InitSrc, UpdateSrc, histVars
<1>3. HarmedBy(t)' /\ Deciding(t)' /\ Only(t)
  BY <1>1, <1>2 DEF MetHarms, HarmedBy, Deciding, MoveTo, Held, Same, Working
<1> QED BY <1>2, <1>3, OnlyHarms DEF MetHarms

(* A task that chooses the file k: one it met the other over is harmed.    *)
LEMMA MetChoice ==
  ASSUME Types, Calls, NamedGid, MetHarms, NEW t \in Tasks, NEW k \in Keys, Only(t), Same(t),
         task'[t].key = k, task[t].at \in {"choose", "pick"}, task'[t].at \in Working,
         Clash(t, k) \subseteq harmed', gid' = gid,
         \/ config_src' = config_src
         \/ config_src' = "gameid" /\ k = gid
  PROVE  MetHarms'
<1>1. harmed \subseteq harmed'
  BY DEF Clash
<1>2. HarmedBy(t)'
  BY <1>1 DEF MetHarms, HarmedBy, Same, Working, Clash
<1>3. ASSUME \A o \in Tasks : ~Deciding(o)', NEW o \in Tasks, task'[o].met
      PROVE  Current' \in harmed'
  <2>1. task[t].met
    <3>1. CASE o = t
      BY <1>3, <3>1 DEF Same
    <3>2. CASE o # t
      <4>1. task[o].met
        BY <1>3, <3>2 DEF Only
      <4>2. task[o].at # "idle"
        BY <4>1, IdleType DEF Calls, Flow
      <4> QED BY <3>2, <4>2, BtIsTask DEF Calls, Meeting
    <3> QED BY <3>1, <3>2
  <2>2. task["fb"].at # "init"
    BY <1>3, BtIsTask DEF Only, Deciding
  <2>3. Current \in Keys
    BY <2>2, CurrentNamed
  <2>4. Current' \in {k, Current}
    BY DEF Current
  <2> QED BY <2>1, <2>3, <2>4 DEF Clash
<1> QED BY <1>1, <1>2, <1>3, OnlyHarms DEF MetHarms

(* The end of a call keeps MetHarms. *)
LEMMA MetEnd ==
  ASSUME Types, Calls, MetHarms, NEW t \in Tasks, End(t) PROVE MetHarms'
<1>1. Only(t) /\ task'[t] = Idle /\ task[t].at = "end" /\ harmed' = harmed /\ gid' = gid
      /\ config_src' = config_src
  BY EndEffect DEF End, At
<1>2. HarmedBy(t)'
  BY <1>1, IdleType DEF HarmedBy
<1>3. ASSUME \A o \in Tasks : ~Deciding(o)', NEW o \in Tasks, task'[o].met
      PROVE  Current' \in harmed'
  <2>1. o # t /\ task[o].met
    BY <1>1, <1>3, IdleType DEF Only
  <2>2. \A p \in Tasks : ~Deciding(p)
    BY <1>1, <1>3 DEF Only, Deciding
  <2> QED BY <1>1, <2>1, <2>2 DEF MetHarms, Current
<1> QED BY <1>1, <1>2, <1>3, OnlyHarms DEF MetHarms

(* A call that begins beside the other harms the files of both. *)
LEMMA MetBegin ==
  ASSUME Types, Calls, NamedGid, MetHarms, NEW t \in Tasks, NEW call \in TaskRec,
         task[t].at = "idle", Began(t, call), \A o \in Tasks : o # t => Meets(o),
         harmed' = Clash(t, Current), call.at \in {"init", "update", "end"},
         call.end \in Storers => call.at = "update", call.end = "saved" => call.home = Current,
         \/ config_src' = config_src /\ gid' = gid
         \/ t = "fb" /\ call.at = "init"
  PROVE  MetHarms'
<1>1. harmed \subseteq harmed'
  BY DEF Clash
<1>2. Current \in Keys \cup {"none"}
  BY CurrentType
<1>3. ASSUME ~Quiet
      PROVE  /\ Current \in harmed' \cup {"none"}
             /\ \A o \in Tasks : o # t => /\ task[o].key \in harmed'
                                          /\ task[o].home \in harmed' \cup {"none"}
  <2>1. PICK o \in Tasks : task[o].at # "idle"
    BY <1>3 DEF Quiet, At
  <2>2. o # t /\ \A p \in Tasks : p # t => p = o
    BY <2>1, BtIsTask
  <2>3. task[o].key \in Keys /\ task[o].home \in Keys \cup {"none"}
    BY TaskFacts DEF Types
  <2> QED BY <1>2, <2>1, <2>2, <2>3 DEF Clash, At
<1>4. HarmedBy(t)'
  BY <1>3 DEF HarmedBy, Began, Working
<1>5. ASSUME NEW o \in Tasks, o # t PROVE HarmedBy(o)'
  <2>1. Meets(o) /\ (task'[o].met => ~Quiet)
    BY <1>5 DEF Meets, Quiet
  <2> QED BY <1>3, <1>5, <2>1 DEF HarmedBy, Meets
<1>6. ASSUME \A o \in Tasks : ~Deciding(o)', NEW o \in Tasks, task'[o].met
      PROVE  Current' \in harmed'
  <2>1. ~Quiet
    BY <1>6 DEF Began, Meets, Quiet
  <2>2. task["fb"].at # "init"
    BY <1>6, BtIsTask DEF Deciding, Meets, Began
  <2>3. Current \in Keys /\ "none" \notin Keys
    BY <2>2, CurrentNamed, KeyFacts
  <2>4. Current' = Current
    BY <1>6, BtIsTask DEF Deciding, Began, Current
  <2> QED BY <1>3, <2>1, <2>3, <2>4
<1> QED BY <1>4, <1>5, <1>6 DEF MetHarms

(* Nothing of MetHarms depends on what the other actions change. *)
LEMMA MetQuiet ==
  ASSUME MetHarms, UNCHANGED <<task, config_src, gid>>, harmed \subseteq harmed' PROVE MetHarms'
  BY DEF MetHarms, HarmedBy, Deciding, Current

(* After a restart no task has met another. *)
LEMMA MetBoot ==
  ASSUME task' \in [Tasks -> TaskRec], task'["bt"] = Boot, task'["fb"] = Idle PROVE MetHarms'
<1>1. \A t \in Tasks : ~task'[t].met
  BY BootType, IdleType, BtIsTask
<1> QED BY <1>1 DEF MetHarms, HarmedBy

(* At the first start no task has met another. *)
LEMMA MetInit ==
  ASSUME Init PROVE MetHarms
<1>1. task["bt"] = Boot /\ task["fb"] = Idle
  BY BootTask DEF Init
<1>2. \A t \in Tasks : ~task[t].met
  BY <1>1, BootType, IdleType, BtIsTask
<1> QED BY <1>2 DEF MetHarms, HarmedBy

(* config_src keeps standing for a game while neither it nor the game changes. *)
LEMMA NamedKept ==
  ASSUME NamedGid, config_src' = config_src, gid' = gid,
         task["fb"].at = "init" => task'["fb"].at = "init"
  PROVE  NamedGid'
  BY DEF NamedGid

(* A task past the first step of config_init keeps NamedGid. *)
LEMMA NamedStep ==
  ASSUME NamedGid, NEW t \in Tasks, Only(t), task[t].at # "init", config_src' = config_src,
         gid' = gid
  PROVE  NamedGid'
  BY NamedKept, BtIsTask DEF Only

(* A call of the web page keeps NamedGid. *)
LEMMA NamedBegin ==
  ASSUME NamedGid, \A o \in Tasks : o # "bt" => Meets(o), config_src' = config_src, gid' = gid
  PROVE  NamedGid'
  BY NamedKept, BtIsTask DEF Meets

(***************************************************************************)
(* Types, calls and harm together.                                         *)
(***************************************************************************)
Base == Types /\ Calls /\ NamedGid /\ MetHarms

(* The steps of config_init, config_update and of what follows them.       *)
LEMMA BaseSteps ==
  ASSUME Base, NEW t \in Tasks,
         \/ InitSrc(t) \/ Choose(t) \/ Load(t) \/ Upgrade(t) \/ UpdateSrc(t) \/ Pick(t)
         \/ Open(t) \/ Write(t) \/ Check(t) \/ End(t)
  PROVE  Base'
<1> USE DEF Base
<1>1. CASE InitSrc(t) \/ UpdateSrc(t)
  <2>1. NamedGid'
    BY <1>1 DEF InitSrc, UpdateSrc, NamedGid
  <2> QED BY <1>1, <2>1, TypesInitSrc, TypesUpdateSrc, CallsInitSrc, MetSrc
<1>2. CASE Choose(t)
  <2>1. PICK k \in Keys : /\ ChooseTo(t, k) /\ harmed' = Clash(t, k) /\ gid' = gid
                          /\ \/ config_src' = config_src
                             \/ config_src' = "gameid" /\ k = gid /\ gid # "none"
    <3>1. gid' = gid /\ harmed' = Clash(t, task'[t].key)
      BY <1>2 DEF Choose
    <3>2. CASE gid \in Games /\ config_src' = "gameid" /\ ChooseTo(t, gid)
      BY <3>1, <3>2, KeyFacts DEF ChooseTo
    <3>3. CASE config_src' = config_src /\ ChooseTo(t, "default")
      BY <3>1, <3>3, KeyFacts DEF ChooseTo
    <3> QED BY <1>2, <3>2, <3>3, ChooseEffect
  <2>2. task[t].at = "choose"
    BY <1>2 DEF Choose, At
  <2>3. NamedGid'
    BY <2>1, <2>2, NamedStep, KeyFacts DEF ChooseTo, NamedGid
  <2>4. MetHarms'
    BY <2>1, <2>2, MetChoice DEF ChooseTo, Working
  <2> QED BY <1>2, <2>3, <2>4, TypesChoose, CallsChoose
<1>3. CASE Load(t)
  <2>1. /\ Only(t) /\ Same(t) /\ task'[t].key = task[t].key /\ task[t].at = "load"
        /\ task'[t].at \in Working
    BY <1>3, LoadEffect DEF LoadTo, Working
  <2>2. config_src' = config_src /\ gid' = gid /\ harmed \subseteq harmed'
    BY <1>3 DEF Load
  <2>3. NamedGid' /\ MetHarms'
    BY <2>1, <2>2, NamedStep, MetWorking DEF Working
  <2> QED BY <1>3, <2>3, TypesLoad, CallsLoad
<1>4. CASE Upgrade(t)
  <2>1. task[t].at = "upgrade" /\ task[t].chain < 3
    BY <1>4 DEF Upgrade, At, Calls, Flow
  <2>2. LoadTo(t, "open", task[t].chain + 1)
    BY <1>4, <2>1, UpgradeEffect
  <2>3. config_src' = config_src /\ gid' = gid /\ harmed \subseteq harmed'
    BY <1>4 DEF Upgrade, histVars
  <2>4. NamedGid' /\ MetHarms'
    BY <2>1, <2>2, <2>3, NamedStep, MetWorking DEF Working, LoadTo
  <2> QED BY <1>4, <2>1, <2>4, TypesUpgrade, CallsUpgrade
<1>5. CASE Pick(t)
  <2> DEFINE named == task[t].dst = "gameid" /\ gid # "none"
             k == IF named THEN gid ELSE "default"
  <2>1. /\ Only(t) /\ Same(t) /\ task'[t].key = k /\ task'[t].at = "open" /\ k \in Keys
        /\ config_src' = IF named THEN "gameid" ELSE config_src
    BY <1>5, PickEffect DEF PickTo
  <2>2. task[t].at = "pick" /\ gid' = gid /\ Clash(t, k) \subseteq harmed'
    BY <1>5 DEF Pick, At
  <2>3. NamedGid'
    BY <2>1, <2>2, NamedStep DEF NamedGid
  <2>4. config_src' = config_src \/ (config_src' = "gameid" /\ k = gid)
    BY <2>1
  <2>5. MetHarms'
    <3> HIDE DEF k, named
    <3> QED BY <2>1, <2>2, <2>4, MetChoice DEF Working
  <2> QED BY <1>5, <2>3, <2>5, TypesPick, CallsPick
<1>6. CASE Open(t) \/ Write(t) \/ Check(t)
  <2>1. PICK a \in {"write", "upgrade", "check", "end"} : MoveTo(t, a)
    <3>1. {"write", "upgrade", "check", "end"} \subseteq Ats
      BY DEF Ats
    <3>2. Stored(t) \in {"upgrade", "check"}
      BY StoredFacts
    <3>3. \E a \in {"write", "upgrade", "check", "end"} : Goto(t, a)
      BY <1>6, <3>2 DEF Open, Write, Check
    <3> QED BY <3>1, <3>3, GotoEffect DEF Types
  <2>2. task[t].at \in Working /\ task[t].at # "init"
    BY <1>6 DEF Open, Write, Check, At, Working
  <2>3. config_src' = config_src /\ gid' = gid /\ harmed \subseteq harmed'
    BY <1>6 DEF Open, Write, Check, histVars, cfgVars
  <2>4. NamedGid'
    BY <2>1, <2>2, <2>3, NamedStep DEF MoveTo
  <2>5. MetHarms'
    BY <2>1, <2>2, <2>3, MetWorking DEF Working, MoveTo, Held
  <2>6. Types'
    BY <1>6, TypesOpen, TypesWrite, TypesCheck
  <2> QED BY <1>6, <2>4, <2>5, <2>6, CallsOpen, CallsInitSrc
<1>7. CASE End(t)
  <2>1. Only(t) /\ task[t].at = "end" /\ config_src' = config_src /\ gid' = gid
    BY <1>7, EndEffect DEF End, At
  <2>2. NamedGid'
    BY <2>1, NamedStep
  <2> QED BY <1>7, <2>2, TypesEnd, CallsEnd, MetEnd
<1> QED BY <1>1, <1>2, <1>3, <1>4, <1>5, <1>6, <1>7

(* What the web page and a game that starts begin.                         *)
LEMMA BaseBegin ==
  ASSUME Base,
         \/ (\E mode \in Modes : WriteHead(mode)) \/ WriteTail \/ Exec \/ SetDefault \/ SetGameId
         \/ (\E k \in Keys : DelFile(k))
         \/ \E g \in Games \cup {"none"} : GidUpdate(g)
  PROVE  Base'
<1> USE DEF Base
<1>1. CASE (\E mode \in Modes : WriteHead(mode)) \/ WriteTail \/ Exec
  <2>1. Types'
    BY <1>1, TypesWriteHead, TypesWriteTail, TypesStarts
  <2>2. Calls'
    BY <1>1, <2>1, CallsWrites
  <2>3. PICK S \in SUBSET Edits :
          /\ Began("bt", Save(S)) /\ (\A o \in Tasks : o # "bt" => Meets(o))
          /\ task["bt"].at = "idle" /\ harmed' = Clash("bt", Current)
          /\ config_src' = config_src /\ gid' = gid
    <3>1. ASSUME NEW mode \in Modes, WriteHead(mode)
          PROVE  /\ Began("bt", Save({events + 1})) /\ (\A o \in Tasks : o # "bt" => Meets(o))
                 /\ task["bt"].at = "idle" /\ harmed' = Clash("bt", Current)
                 /\ config_src' = config_src /\ gid' = gid /\ {events + 1} \in SUBSET Edits
      BY <3>1, WriteHeadEffect, EventFacts DEF WriteHead, Begin, At, Types
    <3>2. ASSUME WriteTail
          PROVE  /\ Began("bt", Save({events + 1})) /\ (\A o \in Tasks : o # "bt" => Meets(o))
                 /\ task["bt"].at = "idle" /\ harmed' = Clash("bt", Current)
                 /\ config_src' = config_src /\ gid' = gid /\ {events + 1} \in SUBSET Edits
      BY <3>2, WriteTailEffect, EventFacts DEF WriteTail, Begin, At, Types
    <3>3. ASSUME Exec
          PROVE  /\ Began("bt", Save(prepared)) /\ (\A o \in Tasks : o # "bt" => Meets(o))
                 /\ task["bt"].at = "idle" /\ harmed' = Clash("bt", Current)
                 /\ config_src' = config_src /\ gid' = gid /\ prepared \in SUBSET Edits
      BY <3>3, ExecEffect DEF Exec, Begin, At, Types, HistType, cfgVars
    <3>4. CASE Exec
      BY <3>3, <3>4
    <3>5. CASE WriteTail
      BY <3>2, <3>5
    <3>6. CASE \E mode \in Modes : WriteHead(mode)
      BY <3>1, <3>6
    <3> QED BY <1>1, <3>4, <3>5, <3>6
  <2>4. PICK call \in TaskRec : call = Save(S)
    BY SaveType
  <2>5. call.at = "update" /\ call.end = "saved" /\ call.home = Current
    BY <2>4, SaveType
  <2>6. MetHarms'
    BY <2>3, <2>4, <2>5, MetBegin, BtIsTask
  <2>7. NamedGid'
    BY <2>3, NamedBegin
  <2> QED BY <2>1, <2>2, <2>6, <2>7
<1>2. CASE SetDefault
  <2>1. Types' /\ Calls'
    BY <1>2, TypesStarts, CallsSetDefault
  <2>2. PICK a \in Ats, d \in {"default", "gameid"}, e \in Ends :
          a = "init" /\ d = "default" /\ e = "rm_gid"
    BY DEF Ats, Ends
  <2>3. PICK call \in TaskRec : call = Call(a, d, e)
    BY CallType
  <2>4. call.at = "init" /\ call.end = "rm_gid"
    BY <2>2, <2>3, CallType
  <2>5. /\ Began("bt", call) /\ (\A o \in Tasks : o # "bt" => Meets(o))
        /\ task["bt"].at = "idle" /\ harmed' = Clash("bt", Current)
        /\ config_src' = config_src /\ gid' = gid
    BY <1>2, <2>2, <2>3, SetDefaultEffect DEF SetDefault, Begin, At, cfgVars
  <2>6. MetHarms'
    BY <2>4, <2>5, MetBegin, BtIsTask DEF Storers
  <2>7. NamedGid'
    BY <2>5, NamedBegin
  <2> QED BY <2>1, <2>6, <2>7
<1>3. CASE SetGameId
  <2>1. Types' /\ Calls'
    BY <1>3, TypesStarts, CallsSetGameId
  <2>2. PICK call \in TaskRec :
          call = [Call("update", "gameid", "copied") EXCEPT !.home = Current]
    BY SetType
  <2>3. call.at = "update" /\ call.end = "copied"
    BY <2>2, SetType
  <2>4. /\ Began("bt", call) /\ (\A o \in Tasks : o # "bt" => Meets(o))
        /\ task["bt"].at = "idle" /\ harmed' = Clash("bt", Current)
        /\ config_src' = config_src /\ gid' = gid
    BY <1>3, <2>2, SetGameIdEffect DEF SetGameId, Begin, At, cfgVars
  <2>5. MetHarms'
    BY <2>3, <2>4, MetBegin, BtIsTask
  <2>6. NamedGid'
    BY <2>4, NamedBegin
  <2> QED BY <2>1, <2>5, <2>6
<1>4. ASSUME NEW k \in Keys, DelFile(k) PROVE Base'
  <2>1. Types' /\ Calls'
    BY <1>4, TypesStarts, CallsDelFile
  <2>2. PICK call \in TaskRec :
          call = [Call(IF k = gid THEN "init" ELSE "end", "default", "remove") EXCEPT !.arg = k]
    BY DelType
  <2>3. call.at \in {"init", "end"} /\ call.end = "remove"
    BY <2>2, DelType
  <2>4. /\ Began("bt", call) /\ (\A o \in Tasks : o # "bt" => Meets(o))
        /\ task["bt"].at = "idle" /\ harmed' = Clash("bt", Current)
        /\ config_src' = config_src /\ gid' = gid
    BY <1>4, <2>2, DelFileEffect DEF DelFile, Begin, At, cfgVars
  <2>5. MetHarms'
    BY <2>3, <2>4, MetBegin, BtIsTask DEF Storers
  <2>6. NamedGid'
    BY <2>4, NamedBegin
  <2> QED BY <2>1, <2>5, <2>6
<1>5. ASSUME NEW g \in Games \cup {"none"}, GidUpdate(g) PROVE Base'
  <2>1. Types' /\ Calls'
    BY <1>5, TypesStarts, CallsGidUpdate
  <2>2. PICK a \in Ats, d \in {"default", "gameid"}, e \in Ends :
          a = "init" /\ d = "gameid" /\ e = "none"
    BY DEF Ats, Ends
  <2>3. PICK call \in TaskRec : call = Call(a, d, e)
    BY CallType
  <2>4. call.at = "init" /\ call.end = "none"
    BY <2>2, <2>3, CallType
  <2>5. /\ Began("fb", call) /\ (\A o \in Tasks : o # "fb" => Meets(o))
        /\ task["fb"].at = "idle" /\ harmed' = Clash("fb", Current)
    BY <1>5, <2>2, <2>3, GidUpdateEffect DEF GidUpdate, Begin, At
  <2>6. MetHarms'
    BY <2>4, <2>5, MetBegin, BtIsTask DEF Storers
  <2>7. NamedGid'
    BY <2>4, <2>5 DEF NamedGid, Began
  <2> QED BY <2>1, <2>6, <2>7
<1> QED BY <1>1, <1>2, <1>3, <1>4, <1>5

(* The actions that start no call keep Base. *)
LEMMA BaseQuiet ==
  ASSUME Base, Prepare \/ Cancel \/ OtaStart \/ OtaEnd \/ CoreStart \/ WiredReset PROVE Base'
<1>1. Types'
  BY TypesPrepare, TypesQuiet DEF Base
<1>2. harmed \subseteq harmed'
  BY ClashFacts, BtIsTask DEF Base, Types, HistType, Prepare, Cancel, OtaStart, OtaEnd,
                              CoreStart, WiredReset, histVars
<1>3. UNCHANGED <<task, up, gid, config_src>>
  BY DEF Prepare, Cancel, OtaStart, OtaEnd, CoreStart, WiredReset, cfgVars
<1>4. Calls' /\ MetHarms' /\ NamedGid'
  BY <1>2, <1>3, CallsQuiet, MetQuiet, NamedKept DEF Base
<1> QED BY <1>1, <1>4 DEF Base

(* A power cut or restart keeps Base. *)
LEMMA BaseCut ==
  ASSUME Base, Cut PROVE Base'
<1>1. Types'
  BY TypesCut DEF Base
<1>2. Calls' /\ MetHarms'
  <2>1. up' = FALSE /\ gid' = "none"
    BY DEF Cut
  <2> QED BY <2>1, CutEffect, CallsBoot, MetBoot DEF Base
<1>3. NamedGid'
  BY DEF Cut, NamedGid
<1> QED BY <1>1, <1>2, <1>3 DEF Base

(* Base holds at the first start. *)
LEMMA BaseInit ==
  ASSUME Init PROVE Base
<1>1. NamedGid
  BY DEF Init, NamedGid
<1> QED BY <1>1, TypesInit, CallsInit, MetInit DEF Base

(* A stuttering step keeps Base. *)
LEMMA BaseStutter ==
  ASSUME Base, UNCHANGED vars PROVE Base'
<1>1. UNCHANGED <<config, config_src, file, gid, task, up, core, rst_bare, rst_magic, rst_mode,
                  wired_rst, events, prepared, promise, harmed, missed>>
  BY DEF vars, cfgVars, coreVars, histVars
<1>2. Types'
  BY <1>1 DEF Base, Types, CfgType, GidType, CoreType, HistType, TaskType
<1>3. Calls' /\ MetHarms' /\ NamedGid'
  BY <1>1, CallsQuiet, MetQuiet, NamedKept DEF Base
<1> QED BY <1>2, <1>3 DEF Base

(***************************************************************************)
(* The files: outside harmed each is absent, being stored, of an earlier   *)
(* version, or whole and its own; what is promised is in it.               *)
(***************************************************************************)
Holds(c) == c.head.edits \cup c.tail.edits
Owned(c, k, n) == c.head.own = k /\ c.tail.own = k /\ c.tail.combos = n

Writer(k) == \E t \in Tasks : task[t].at = "write" /\ task[t].key = k
Upgrader(k) == \E t \in Tasks : task[t].at \in {"upgrade", "open"} /\ task[t].key = k

Whole(k) ==
  LET c == file[k].data
  IN  /\ c.magic \in 1..3
      /\ \/ c.magic = 3 /\ Owned(c, k, 1)
         \/ Owned(c, k, 0) /\ (c.magic = 3 => Upgrader(k))

Sound(k) ==
  /\ file[k].len \in {"absent", "full"} \/ (file[k].len = "empty" /\ Writer(k))
  /\ file[k].len \in {"absent", "empty"} => file[k].data = Zero
  /\ file[k].len = "full" => Whole(k)
  /\ promise[k] \subseteq Holds(file[k].data) \/ Writer(k)

Files == \A k \in Keys \ harmed : Sound(k)

(* A step that leaves the file and its promise, and who works on it.       *)
LEMMA SoundKept ==
  ASSUME NEW k \in Keys, Sound(k), file'[k] = file[k], promise'[k] = promise[k],
         Writer(k) => Writer(k)', Upgrader(k) => Upgrader(k)'
  PROVE  Sound(k)'
<1>1. file[k].len = "full" => Whole(k)'
  BY DEF Sound, Whole, Owned
<1> QED BY <1>1 DEF Sound, Holds

(* One that only moves a task on; a writer or upgrader of an unharmed file *)
(* stays one.                                                              *)
LEMMA FilesMove ==
  ASSUME Base, Files, NEW t \in Tasks, Only(t), harmed \subseteq harmed', file' = file,
         promise' = promise, task[t].at # "write",
         task[t].at \in {"upgrade", "open"} =>
           \/ task'[t].at \in {"upgrade", "open"} /\ task'[t].key = task[t].key
           \/ task[t].key \in harmed'
  PROVE  Files'
<1> SUFFICES ASSUME NEW k \in Keys, k \notin harmed' PROVE Sound(k)'
  BY DEF Files
<1>1. Sound(k)
  BY DEF Files
<1>2. Writer(k) => Writer(k)'
  BY DEF Writer, Only
<1>3. Upgrader(k) => Upgrader(k)'
  BY DEF Upgrader, Only
<1> QED BY <1>1, <1>2, <1>3, SoundKept

(* The steps that store nothing keep Files. *)
LEMMA FilesChoose ==
  ASSUME Base, Files, NEW t \in Tasks,
         InitSrc(t) \/ Choose(t) \/ Load(t) \/ Upgrade(t) \/ UpdateSrc(t) \/ Pick(t) \/ Check(t)
  PROVE  Files'
<1>1. file' = file /\ promise' = promise /\ harmed \subseteq harmed'
  BY DEF InitSrc, Choose, Load, Upgrade, UpdateSrc, Pick, Check, Clash, cfgVars, histVars
<1>2. Only(t)
  <2>1. CASE InitSrc(t) \/ UpdateSrc(t) \/ Check(t)
    BY <2>1, GotoEffect DEF InitSrc, UpdateSrc, Check, MoveTo, Base, Types, Ats
  <2>2. CASE Upgrade(t)
    <3>1. task[t].chain < 3
      BY <2>2 DEF Upgrade, At, Base, Calls, Flow
    <3> QED BY <2>2, <3>1, UpgradeEffect DEF LoadTo, Base
  <2>3. CASE Choose(t) \/ Pick(t)
    BY <2>3, ChooseEffect, PickEffect DEF ChooseTo, PickTo, Base
  <2>4. CASE Load(t)
    BY <2>4, LoadEffect DEF LoadTo, Base
  <2> QED BY <2>1, <2>2, <2>3, <2>4
<1>3. task[t].at \in {"init", "choose", "load", "update", "pick", "check"} \/ Upgrade(t)
  BY DEF InitSrc, Choose, Load, UpdateSrc, Pick, Check, At
<1>4. ASSUME Upgrade(t)
      PROVE  task[t].at = "upgrade" /\ task'[t].at = "open" /\ task'[t].key = task[t].key
  <2>1. task[t].at = "upgrade" /\ task[t].chain < 3
    BY <1>4 DEF Upgrade, At, Base, Calls, Flow
  <2> QED BY <1>4, <2>1, UpgradeEffect DEF LoadTo, Base
<1> QED BY <1>1, <1>2, <1>3, <1>4, FilesMove

(* fopen empties the file its task is to write, or harms it by failing. *)
LEMMA FilesOpen ==
  ASSUME Base, Files, NEW t \in Tasks, Open(t) PROVE Files'
<1>0. PICK k \in Keys : k = task[t].key
  BY TaskFacts DEF Base, Types
<1>1. task[t].at = "open" /\ promise' = promise
  BY DEF Open, At, histVars
<1>2. CASE file' = [file EXCEPT ![k] = File("empty", Zero)] /\ Goto(t, "write")
           /\ UNCHANGED <<events, harmed>>
  <2>1. MoveTo(t, "write") /\ harmed' = harmed
    BY <1>2, GotoEffect DEF Base, Types, Ats
  <2>2. file'[k].len = "empty" /\ file'[k].data = Zero
        /\ \A j \in Keys : j # k => file'[j] = file[j]
    BY <1>2 DEF Base, Types, CfgType, File
  <2>3. Writer(k)'
    BY <1>0, <2>1 DEF Writer, MoveTo, Held
  <2>4. Sound(k)'
    BY <2>2, <2>3 DEF Sound
  <2>5. ASSUME NEW j \in Keys, j \notin harmed, j # k PROVE Sound(j)'
    <3>2. Upgrader(j) => Upgrader(j)'
      BY <1>0, <2>1, <2>5 DEF Upgrader, Only, MoveTo
    <3>3. Writer(j) => Writer(j)'
      BY <1>1, <2>1 DEF Writer, Only, MoveTo
    <3> QED BY <1>1, <2>2, <2>5, <3>2, <3>3, SoundKept DEF Files
  <2> QED BY <2>1, <2>4, <2>5 DEF Files
<1>3. CASE harmed' = harmed \cup {k} /\ Goto(t, Stored(t)) /\ UNCHANGED file
  <2>1. MoveTo(t, Stored(t))
    BY <1>3, GotoEffect, StoredType DEF Base, Types
  <2> QED BY <1>0, <1>1, <1>3, <2>1, FilesMove DEF MoveTo
<1> QED BY <1>0, <1>2, <1>3 DEF Open

(***************************************************************************)
(* Where a task that is alone is, and what the configuration in memory     *)
(* then is: InUse, that of the file k once it is loaded; gone are the      *)
(* files its caller is about to remove.                                    *)
(***************************************************************************)
Solo(t) == task[t].at # "idle" /\ ~task[t].met

Backed(k, gone) ==
  /\ k = "default" /\ gid \in Games => file[gid].len = "absent" \/ gid \in gone
  /\ k # "default" => k = gid /\ file[k].len # "absent" /\ gid \notin gone

InUse(k, gone) ==
  k \in Keys \ harmed =>
    /\ config.magic = 3 /\ Owned(config, k, 1) /\ Backed(k, gone)
    /\ promise[k] \subseteq Holds(config) /\ prepared \subseteq Holds(config)

PhaseInit(t) ==
  /\ task[t].dst = "default" /\ gid \in Games => gid \in Removes(t)
  /\ task[t].dst = "gameid" => Removes(t) = {}

PhaseLoad(t) == task[t].key = Current /\ Backed(task[t].key, Removes(t))

PhaseUpgrade(t) ==
  LET k == task[t].key
  IN  /\ k = Current
      /\ k \notin harmed =>
           /\ Owned(config, k, 0) /\ Backed(k, Removes(t)) /\ task[t].chain # 0
           /\ promise[k] \subseteq Holds(config) /\ prepared \subseteq Holds(config)
           /\ task[t].chain = 1 =>
                file[k].len = "full" /\ file[k].data.magic = 1 /\ config = file[k].data

PhaseStore(t) ==
  LET k == task[t].key
  IN  /\ k = Current
      /\ task[t].end = "saved" => task[t].home = k
      /\ k \notin harmed =>
           /\ config.magic = 3 /\ Owned(config, k, IF task[t].chain = 3 THEN 1 ELSE 0)
           /\ task[t].chain \notin {0, 1}
           /\ k = "default" => Backed(k, Removes(t))
           /\ k # "default" => k = gid /\ k \notin Removes(t)
           /\ promise[k] \subseteq Holds(config) /\ prepared \subseteq Holds(config)
           /\ task[t].new \subseteq Holds(config)

PhaseDone(t) ==
  LET k == task[t].key
  IN  /\ InUse(Current, Removes(t))
      /\ task[t].end \in Storers =>
           /\ k = Current /\ (task[t].end = "saved" => task[t].home = k)
           /\ k \notin harmed =>
                task[t].new \subseteq Holds(file[k].data) /\ task[t].new \subseteq Holds(config)

PhaseUpdate(t) ==
  LET h == task[t].home
  IN  /\ h # "none" /\ InUse(h, {})
      /\ task[t].end = "saved" =>
           /\ task[t].dst = "gameid" => h = gid /\ gid # "none"
           /\ task[t].dst = "default" => h = "default"
           /\ h \notin harmed => task[t].new \subseteq Holds(config)
      /\ task[t].end = "copied" => h \in {"default", gid} /\ task[t].new = {}

Phase(t) ==
  /\ task[t].at \in {"init", "choose"} => PhaseInit(t)
  /\ task[t].at \in {"choose", "pick"} => config_src = "default"
  /\ task[t].at = "load" => PhaseLoad(t)
  /\ task[t].at = "upgrade" => PhaseUpgrade(t)
  /\ task[t].at \in {"open", "write"} => PhaseStore(t)
  /\ task[t].at \in {"check", "end"} => PhaseDone(t)
  /\ task[t].at \in Updating => PhaseUpdate(t)

Phases == \A t \in Tasks : Solo(t) => Phase(t)
AtRest == Quiet /\ up => InUse(Current, {})
Settings == Files /\ Phases /\ AtRest

(* A task that met no other is the only one at work. *)
LEMMA SoloAlone ==
  ASSUME Calls, NEW t \in Tasks, Solo(t)
  PROVE  \A o \in Tasks : o # t => task[o].at = "idle" /\ ~task[o].met
<1> SUFFICES ASSUME NEW o \in Tasks, o # t PROVE task[o].at = "idle" /\ ~task[o].met
  OBVIOUS
<1>1. task[o].at = "idle"
  BY BtIsTask DEF Calls, Meeting, Solo
<1>2. task[o] = Idle
  BY <1>1 DEF Calls, Flow
<1> QED BY <1>1, <1>2, IdleType

(* A step of a call under way: it is alone after it only if it was before. *)
LEMMA PhaseStep ==
  ASSUME Base, NEW t \in Tasks, Only(t), Same(t), task[t].at # "idle", task'[t].at # "idle",
         Solo(t) => Phase(t)'
  PROVE  Phases' /\ AtRest'
<1>1. AtRest'
  BY DEF AtRest, Quiet, At
<1>2. Solo(t)' => Phase(t)'
  BY DEF Solo, Same
<1>3. ASSUME NEW o \in Tasks, o # t PROVE ~Solo(o)'
  <2>1. task'[o] = task[o]
    BY <1>3 DEF Only
  <2>2. ~Solo(o)
    BY <1>3, BtIsTask DEF Base, Calls, Meeting, Solo
  <2> QED BY <2>1, <2>2 DEF Solo
<1> QED BY <1>1, <1>2, <1>3 DEF Phases

(* What the caller will remove does not change on the way. *)
LEMMA RemovesKept ==
  ASSUME NEW t \in Tasks, Same(t), gid' = gid PROVE Removes(t)' = Removes(t)
  BY DEF Removes, Same

(* The first step of config_init, for a task that is alone. *)
LEMMA PhaseInitSrc ==
  ASSUME Base, Settings, NEW t \in Tasks, InitSrc(t) PROVE Phases' /\ AtRest'
<1>1. MoveTo(t, "choose") /\ task[t].at = "init"
  BY GotoEffect DEF InitSrc, At, Base, Types, Ats
<1>2. ASSUME Solo(t) PROVE Phase(t)'
  <2>1. PhaseInit(t)
    BY <1>1, <1>2 DEF Settings, Phases, Phase
  <2>2. config_src' = "default" /\ gid' = gid
    BY DEF InitSrc
  <2>3. PhaseInit(t)'
    BY <1>1, <2>1, <2>2, RemovesKept DEF PhaseInit, MoveTo, Held, Same
  <2> QED BY <1>1, <2>2, <2>3 DEF Phase, MoveTo, Updating
<1> QED BY <1>1, <1>2, PhaseStep DEF MoveTo, Held

(* The file a task that is alone chooses is backed. *)
LEMMA PhaseChoose ==
  ASSUME Base, Settings, NEW t \in Tasks, Choose(t) PROVE Phases' /\ AtRest'
<1>1. task[t].at = "choose" /\ gid' = gid /\ file' = file
  BY DEF Choose, At
<1>2. PICK k \in Keys : ChooseTo(t, k)
  BY ChooseEffect, KeyFacts DEF Base
<1>3. ASSUME Solo(t) PROVE Phase(t)'
  <2>1. PhaseInit(t) /\ config_src = "default"
    BY <1>1, <1>3 DEF Settings, Phases, Phase
  <2>2. Removes(t)' = Removes(t)
    BY <1>1, <1>2, RemovesKept DEF ChooseTo
  <2>3. task[t].dst \in {"default", "gameid"} /\ gid \in Games \cup {"none"}
    BY TaskFacts DEF Base, Types, GidType
  <2>4. CASE task[t].dst = "gameid" /\ gid \in Games /\ file[gid].len # "absent"
             /\ config_src' = "gameid" /\ ChooseTo(t, gid)
    BY <1>1, <2>1, <2>2, <2>4, KeyFacts
       DEF Phase, PhaseLoad, PhaseInit, ChooseTo, Current, Backed, Updating
  <2>5. CASE ~(task[t].dst = "gameid" /\ gid # "none" /\ file[gid].len # "absent")
             /\ config_src' = config_src /\ ChooseTo(t, "default")
    <3>1. gid \in Games => file[gid].len = "absent" \/ gid \in Removes(t)
      BY <2>1, <2>3, <2>5, KeyFacts DEF PhaseInit
    <3> QED BY <1>1, <2>1, <2>2, <2>5, <3>1
            DEF Phase, PhaseLoad, ChooseTo, Current, Backed, Updating
  <2> QED BY <2>4, <2>5, ChooseEffect DEF Base
<1> QED BY <1>1, <1>2, <1>3, PhaseStep DEF ChooseTo

(* The first step of config_update, for a task that is alone. *)
LEMMA PhaseUpdateSrc ==
  ASSUME Base, Settings, NEW t \in Tasks, UpdateSrc(t) PROVE Phases' /\ AtRest'
<1>1. MoveTo(t, "pick") /\ task[t].at = "update"
  BY GotoEffect DEF UpdateSrc, At, Base, Types, Ats
<1>2. ASSUME Solo(t) PROVE Phase(t)'
  <2>1. PhaseUpdate(t)
    BY <1>1, <1>2 DEF Settings, Phases, Phase, Updating
  <2>2. /\ config_src' = "default" /\ gid' = gid /\ config' = config /\ file' = file
        /\ harmed' = harmed /\ promise' = promise /\ prepared' = prepared
    BY DEF UpdateSrc, histVars
  <2>3. PhaseUpdate(t)'
    BY <1>1, <2>1, <2>2 DEF PhaseUpdate, InUse, Owned, Backed, Holds, MoveTo, Held, Same
  <2> QED BY <1>1, <2>2, <2>3 DEF Phase, MoveTo
<1> QED BY <1>1, <1>2, PhaseStep DEF MoveTo, Held

(* A comparison leaves the configuration it compares. *)
LEMMA PhaseCheck ==
  ASSUME Base, Settings, NEW t \in Tasks, Check(t) PROVE Phases' /\ AtRest'
<1>1. MoveTo(t, "end") /\ task[t].at = "check"
  BY GotoEffect DEF Check, At, Base, Types, Ats
<1>2. ASSUME Solo(t) PROVE Phase(t)'
  <2>1. PhaseDone(t)
    BY <1>1, <1>2 DEF Settings, Phases, Phase
  <2>2. /\ config_src' = config_src /\ gid' = gid /\ config' = config /\ file' = file
        /\ harmed' = harmed /\ promise' = promise /\ prepared' = prepared
    BY DEF Check, cfgVars
  <2>3. PhaseDone(t)'
    BY <1>1, <2>1, <2>2, RemovesKept
       DEF PhaseDone, InUse, Owned, Backed, Holds, Current, MoveTo, Held, Same
  <2> QED BY <1>1, <2>3 DEF Phase, MoveTo, Updating
<1> QED BY <1>1, <1>2, PhaseStep DEF MoveTo, Held

(* The files while one task is alone and not storing.                      *)
LEMMA AloneFiles ==
  ASSUME Base, Files, NEW t \in Tasks, Solo(t), task[t].at # "write",
         NEW k \in Keys, k \notin harmed
  PROVE  /\ file[k].len \in {"absent", "full"} /\ promise[k] \subseteq Holds(file[k].data)
         /\ file[k].len = "absent" => file[k].data = Zero /\ promise[k] = {}
         /\ file[k].len = "full" =>
              /\ file[k].data.magic \in 1..3
              /\ file[k].data.magic # 3 => Owned(file[k].data, k, 0)
              /\ task[t].at \notin {"upgrade", "open"} /\ file[k].data.magic = 3 =>
                   Owned(file[k].data, k, 1)
<1>1. Sound(k)
  BY DEF Files
<1>2. \A o \in Tasks : o # t => task[o].at = "idle"
  BY SoloAlone DEF Base
<1>3. ~Writer(k) /\ (task[t].at \notin {"upgrade", "open"} => ~Upgrader(k))
  BY <1>2 DEF Writer, Upgrader
<1>4. file[k].len \in {"absent", "full"} /\ promise[k] \subseteq Holds(file[k].data)
  BY <1>1, <1>3 DEF Sound
<1>5. file[k].len = "absent" => file[k].data = Zero /\ promise[k] = {}
  BY <1>1, <1>4, ZeroFacts DEF Sound, Holds
<1>6. file[k].len = "full" => Whole(k)
  BY <1>1 DEF Sound
<1> QED BY <1>3, <1>4, <1>5, <1>6 DEF Whole

(* A default configuration is of the present version, its file's own and without edits. *)
LEMMA FreshFacts ==
  ASSUME NEW k \in Keys
  PROVE  Fresh(k).magic = 3 /\ Owned(Fresh(k), k, 1) /\ Holds(Fresh(k)) = {}
  BY DEF Fresh, Config, Parts, Owned, Holds, CONFIG_VERSION

(* What is loaded from an unharmed file is that file's, and holds what is promised. *)
LEMMA PhaseLoadStep ==
  ASSUME Base, Settings, NEW t \in Tasks, Load(t) PROVE Phases' /\ AtRest'
<1>1. PICK k \in Keys : k = task[t].key /\ task[t].at = "load"
  BY LoadEffect DEF Base
<1>2. /\ gid' = gid /\ config_src' = config_src /\ file' = file /\ promise' = promise
      /\ prepared' = {} /\ harmed \subseteq harmed'
      /\ harmed' = harmed \/ k \in harmed'
  BY <1>1 DEF Load
<1>3. /\ Only(t) /\ Same(t) /\ task'[t].key = k /\ task'[t].new = task[t].new
      /\ task'[t].at # "idle"
  BY <1>1, LoadEffect DEF LoadTo, Base
<1>4. ASSUME Solo(t) PROVE Phase(t)'
  <2>1. k = Current /\ Backed(k, Removes(t))
    BY <1>1, <1>4 DEF Settings, Phases, Phase, PhaseLoad
  <2>2. task[t].chain = 3 /\ task[t].end \notin Storers /\ task[t].new = {}
    <3>1. Flow(t) /\ task[t].chain \in 0..3
      BY TaskFacts DEF Base, Calls, Types
    <3> QED BY <1>1, <3>1 DEF Flow, Loading
  <2>3. Removes(t)' = Removes(t) /\ Current' = Current
    BY <1>2, <1>3, RemovesKept DEF Current
  <2>4. Backed(k, Removes(t))'
    BY <1>2, <2>1, <2>3 DEF Backed
  <2>5. k \notin harmed' =>
          /\ file[k].len \in {"absent", "full"} /\ promise[k] \subseteq Holds(file[k].data)
          /\ file[k].len = "absent" => promise[k] = {}
          /\ file[k].len = "full" =>
               /\ file[k].data.magic \in 1..3
               /\ file[k].data.magic # 3 => Owned(file[k].data, k, 0)
               /\ file[k].data.magic = 3 => Owned(file[k].data, k, 1)
    BY <1>1, <1>2, <1>4, AloneFiles DEF Settings, Base
  <2>6. k \notin harmed' =>
          \/ file[k].len = "absent" /\ config' = Fresh(k) /\ MoveTo(t, "open")
          \/ file[k].len = "full" /\ Loaded(t, file[k].data)
    <3>1. k \notin harmed' =>
            \/ file[k].len = "absent" /\ config' = Fresh(k) /\ Goto(t, "open")
            \/ file[k].len # "absent" /\ Loaded(t, Fread(file[k]))
      BY <1>1 DEF Load
    <3>2. file[k].len = "full" => Fread(file[k]) = file[k].data
      BY DEF Fread
    <3> QED BY <2>5, <3>1, <3>2, GotoEffect DEF Base, Types, Ats
  <2>7. CASE k \in harmed'
    <3>1. task'[t].at \in {"open", "check", "upgrade"}
      BY LoadEffect DEF LoadTo, Base
    <3>2. task'[t].key = k /\ Current' = k /\ task'[t].end \notin Storers
      BY <1>3, <2>1, <2>2, <2>3 DEF Same
    <3>3. PhaseUpgrade(t)' /\ PhaseStore(t)' /\ PhaseDone(t)'
      BY <2>7, <3>2 DEF PhaseUpgrade, PhaseStore, PhaseDone, InUse, Storers
    <3> QED BY <3>1, <3>3 DEF Phase, Updating
  <2>8. CASE k \notin harmed' /\ file[k].len = "absent" /\ config' = Fresh(k)
             /\ MoveTo(t, "open")
    <3>1. PhaseStore(t)'
      <4>1. promise'[k] = {} /\ prepared' = {} /\ task'[t].new = {} /\ task'[t].chain = 3
        BY <1>2, <2>2, <2>5, <2>8 DEF MoveTo, Held
      <4>2. config'.magic = 3 /\ Owned(config', k, 1)
        BY <2>8, FreshFacts
      <4>3. k # "default" => k = gid /\ k \notin Removes(t)
        BY <2>1 DEF Backed
      <4>4. task'[t].end # "saved"
        BY <1>3, <2>2 DEF Same, Storers
      <4> QED BY <1>2, <1>3, <2>1, <2>3, <2>4, <4>1, <4>2, <4>3, <4>4 DEF PhaseStore
    <3> QED BY <2>8, <3>1 DEF Phase, MoveTo, Updating
  <2>9. CASE k \notin harmed' /\ file[k].len = "full" /\ Loaded(t, file[k].data)
    <3> DEFINE d == file[k].data
    <3>1. d \in ContentType
      BY DEF Base, Types, CfgType, FileRec
    <3>2. d.magic \in 1..3 /\ promise'[k] \subseteq Holds(d)
      BY <1>2, <2>5, <2>9
    <3>3. \/ d.magic = 3 /\ config' = d /\ LoadTo(t, "check", 3)
          \/ d.magic \in 1..2 /\ config' = d /\ LoadTo(t, "upgrade", d.magic)
      BY <2>9, <3>1, <3>2, LoadedEffect DEF Base
    <3>4. CASE d.magic = 3 /\ config' = d /\ LoadTo(t, "check", 3)
      <4>1. Owned(config', k, 1) /\ config'.magic = 3
        BY <2>5, <2>9, <3>4
      <4>2. PhaseDone(t)'
        BY <1>2, <1>3, <2>1, <2>2, <2>3, <2>4, <3>2, <3>4, <4>1 DEF PhaseDone, InUse, Same
      <4> QED BY <3>4, <4>2 DEF Phase, LoadTo, Updating
    <3>5. CASE d.magic \in 1..2 /\ config' = d /\ LoadTo(t, "upgrade", d.magic)
      <4>1. Owned(config', k, 0)
        BY <2>5, <2>9, <3>5
      <4>2. PhaseUpgrade(t)'
        BY <1>2, <1>3, <2>1, <2>3, <2>4, <2>9, <3>2, <3>5, <4>1 DEF PhaseUpgrade, LoadTo
      <4> QED BY <3>5, <4>2 DEF Phase, LoadTo, Updating
    <3> QED BY <3>3, <3>4, <3>5
  <2> QED BY <2>6, <2>7, <2>8, <2>9
<1> QED BY <1>1, <1>3, <1>4, PhaseStep

(* A step of the upgrade keeps what is promised, from version 1 on. *)
LEMMA PhaseUpgradeStep ==
  ASSUME Base, Settings, NEW t \in Tasks, Upgrade(t) PROVE Phases' /\ AtRest'
<1>1. PICK k \in Keys : k = task[t].key
  BY TaskFacts DEF Base, Types
<1>2. task[t].at = "upgrade" /\ task[t].chain < 3 /\ task[t].chain \in 0..3
  BY TaskFacts DEF Upgrade, At, Base, Calls, Flow, Types
<1>3. PICK v \in 0..2 : v = task[t].chain
  BY <1>2
<1>4. LoadTo(t, "open", v + 1)
  BY <1>2, <1>3, UpgradeEffect DEF Base
<1>5. /\ gid' = gid /\ config_src' = config_src /\ file' = file /\ promise' = promise
      /\ prepared' = prepared /\ harmed' = harmed
      /\ config' = [Upgraded(k, v) EXCEPT !.magic = CONFIG_VERSION]
  BY <1>1, <1>3 DEF Upgrade, histVars
<1>6. ASSUME Solo(t) PROVE Phase(t)'
  <2>1. PhaseUpgrade(t)
    BY <1>2, <1>6 DEF Settings, Phases, Phase
  <2>2. Removes(t)' = Removes(t) /\ Current' = Current
    BY <1>4, <1>5, RemovesKept DEF Current, LoadTo
  <2>3. task'[t].end \notin Storers /\ task'[t].new = {}
    <3>1. task[t].end \notin Storers /\ task[t].new = {}
      BY <1>2 DEF Base, Calls, Flow
    <3> QED BY <1>4, <3>1 DEF LoadTo, Same
  <2>4. ASSUME k \notin harmed
        PROVE  /\ config'.magic = 3 /\ Owned(config', k, IF v + 1 = 3 THEN 1 ELSE 0)
               /\ Holds(config') = Holds(config) /\ v # 0
    <3>1. /\ Owned(config, k, 0) /\ v # 0
          /\ v = 1 => file[k].len = "full" /\ file[k].data.magic = 1 /\ config = file[k].data
      BY <1>1, <1>3, <2>1, <2>4 DEF PhaseUpgrade
    <3>2. config \in ContentType
      BY DEF Base, Types, CfgType
    <3>3. PICK u \in ContentType : u = Upgraded(k, v)
      BY UpgradedType DEF Base
    <3>4. config' = [u EXCEPT !.magic = 3]
      BY <1>5, <3>3 DEF CONFIG_VERSION
    <3>5. config'.magic = 3 /\ config'.head = u.head /\ config'.tail = u.tail
      BY <3>4 DEF ContentType
    <3>6. CASE v = 1
      <4>1. u = [config EXCEPT !.tail = file[k].data.tail]
        BY <3>1, <3>3, <3>6 DEF Upgraded
      <4>2. u.head = config.head /\ u.tail = config.tail
        BY <3>1, <3>2, <3>6, <4>1 DEF ContentType
      <4> QED BY <3>1, <3>5, <3>6, <4>2 DEF Owned, Holds
    <3>7. CASE v = 2
      <4>1. u = [config EXCEPT !.tail.combos = @ + 1]
        BY <3>3, <3>7 DEF Upgraded
      <4>2. u.head = config.head /\ u.tail.own = config.tail.own
            /\ u.tail.edits = config.tail.edits /\ u.tail.combos = config.tail.combos + 1
        BY <3>2, <4>1 DEF ContentType
      <4> QED BY <3>1, <3>5, <3>7, <4>2 DEF Owned, Holds
    <3> QED BY <3>1, <3>6, <3>7
  <2>5. PhaseStore(t)'
    <3>1. k = Current /\ task'[t].key = k /\ task'[t].chain = v + 1
          /\ task'[t].end # "saved"
      BY <1>1, <1>4, <2>1, <2>3 DEF PhaseUpgrade, LoadTo, Storers
    <3>2. CASE k \in harmed
      BY <1>5, <2>2, <3>1, <3>2 DEF PhaseStore
    <3>3. CASE k \notin harmed
      <4>1. /\ promise[k] \subseteq Holds(config) /\ prepared \subseteq Holds(config)
            /\ Backed(k, Removes(t))
        BY <1>1, <2>1, <3>3 DEF PhaseUpgrade
      <4>2. Backed(k, Removes(t))'
        BY <1>5, <2>2, <4>1 DEF Backed
      <4>3. k # "default" => k = gid /\ k \notin Removes(t)
        BY <4>1 DEF Backed
      <4> QED BY <1>5, <2>2, <2>3, <2>4, <3>1, <3>3, <4>1, <4>2, <4>3 DEF PhaseStore
    <3> QED BY <3>2, <3>3
  <2> QED BY <1>4, <2>5 DEF Phase, LoadTo, Updating
<1> QED BY <1>2, <1>4, <1>6, PhaseStep DEF LoadTo

(* What is stored is what is in use, or the copy of it that the game is given. *)
LEMMA PhasePickStep ==
  ASSUME Base, Settings, NEW t \in Tasks, Pick(t) PROVE Phases' /\ AtRest'
<1>1. PICK named \in BOOLEAN : named = (task[t].dst = "gameid" /\ gid # "none")
  BY Zenon
<1>2. PICK k \in Keys : k = IF named THEN gid ELSE "default"
  BY <1>1, KeyFacts DEF Base, Types, GidType
<1>3. PICK copied \in BOOLEAN : copied = (task[t].end = "copied" /\ named)
  BY Zenon
<1>4. PICK new : new = IF copied THEN config.head.edits \cup config.tail.edits ELSE task[t].new
  OBVIOUS
<1>5. /\ config_src' = IF named THEN "gameid" ELSE config_src
      /\ config' = IF copied THEN [config EXCEPT !.head.own = k, !.tail.own = k] ELSE config
      /\ PickTo(t, k, new)
  BY <1>1, <1>2, <1>3, <1>4, PickEffect DEF Base
<1>6. /\ gid' = gid /\ file' = file /\ promise' = promise /\ prepared' = prepared
      /\ harmed' = Clash(t, k) \cup (IF copied /\ task[t].home \in harmed THEN {k} ELSE {})
      /\ task[t].at = "pick"
  BY <1>1, <1>2, <1>3 DEF Pick, At
<1>7. ASSUME Solo(t) PROVE Phase(t)'
  <2>1. PhaseUpdate(t) /\ config_src = "default"
    BY <1>6, <1>7 DEF Settings, Phases, Phase, Updating
  <2>2. PICK h \in Keys \cup {"none"} : h = task[t].home
    BY TaskFacts DEF Base, Types
  <2>3. h # "none" /\ InUse(h, {})
    BY <2>1, <2>2 DEF PhaseUpdate
  <2>4. task[t].end \in Storers /\ task[t].chain = 3
        /\ (task[t].end = "copied" => task[t].dst = "gameid")
    BY <1>6 DEF Base, Calls, Flow, Updating
  <2>5. Clash(t, k) = harmed
    BY <1>7, SoloAlone DEF Clash, Solo, At, Base
  <2>6. Removes(t)' = {} /\ Removes(t) = {}
    BY <1>5, <2>4 DEF Removes, PickTo, Same, Storers
  <2>7. Current' = k
    BY <1>1, <1>2, <1>5, <1>6, <2>1 DEF Current
  <2>8. task'[t].end = "saved" => task'[t].home = k
    BY <1>1, <1>2, <1>5, <2>1, TaskFacts DEF PhaseUpdate, PickTo, Same, Base, Types
  <2>9. ASSUME k \notin harmed'
        PROVE  /\ config'.magic = 3 /\ Owned(config', k, 1) /\ new \subseteq Holds(config')
               /\ promise[k] \subseteq Holds(config') /\ prepared \subseteq Holds(config')
               /\ k = "default" => (gid \in Games => file[gid].len = "absent")
    <3>1. k \notin harmed /\ (copied => h \notin harmed)
      BY <1>6, <2>2, <2>5, <2>9
    <3>2. CASE ~copied
      <4>1. h = k
        <5>1. CASE task[t].end = "saved"
          BY <1>5, <2>2, <2>8, <5>1 DEF PickTo, Same
        <5>2. CASE task[t].end = "copied"
          BY <1>1, <1>2, <1>3, <2>1, <2>2, <2>3, <2>4, <3>2, <5>2 DEF PhaseUpdate
        <5> QED BY <2>4, <5>1, <5>2 DEF Storers
      <4>2. task[t].new \subseteq Holds(config)
        <5>1. CASE task[t].end = "saved"
          BY <2>1, <2>2, <3>1, <4>1, <5>1 DEF PhaseUpdate
        <5>2. CASE task[t].end = "copied"
          BY <2>1, <5>2 DEF PhaseUpdate
        <5> QED BY <2>4, <5>1, <5>2 DEF Storers
      <4> QED BY <1>4, <1>5, <2>3, <3>1, <3>2, <4>1, <4>2 DEF InUse, Backed
    <3>3. CASE copied
      <4>1. k = gid /\ h \in {"default", gid} /\ h \in Keys /\ gid \in Games
        BY <1>1, <1>2, <1>3, <2>1, <2>2, <2>3, <3>3 DEF PhaseUpdate, Base, Types, GidType
      <4>2. /\ config.magic = 3 /\ Owned(config, h, 1) /\ Backed(h, {})
            /\ promise[h] \subseteq Holds(config) /\ prepared \subseteq Holds(config)
        BY <2>3, <3>1, <3>3, <4>1 DEF InUse
      <4>3. config \in ContentType
        BY DEF Base, Types, CfgType
      <4>4. config' = [config EXCEPT !.head.own = k, !.tail.own = k]
        BY <1>5, <3>3
      <4>5. /\ config'.magic = 3 /\ config'.head.own = k /\ config'.tail.own = k
            /\ config'.tail.combos = config.tail.combos
            /\ config'.head.edits = config.head.edits /\ config'.tail.edits = config.tail.edits
        BY <4>2, <4>3, <4>4 DEF ContentType
      <4>6. Holds(config') = Holds(config) /\ new = Holds(config) /\ Owned(config', k, 1)
        BY <1>4, <3>3, <4>2, <4>5 DEF Holds, Owned
      <4>7. promise[k] \subseteq Holds(config)
        <5>1. CASE h = k
          BY <4>2, <5>1
        <5>2. CASE h = "default"
          <6>1. file[k].len = "absent"
            BY <4>1, <4>2, <5>2 DEF Backed
          <6>2. promise[k] = {}
            BY <1>6, <1>7, <3>1, <6>1, AloneFiles DEF Settings
          <6> QED BY <6>2
        <5> QED BY <4>1, <5>1, <5>2
      <4> QED BY <4>1, <4>2, <4>5, <4>6, <4>7, KeyFacts
    <3> QED BY <3>2, <3>3
  <2>10. PhaseStore(t)'
    <3>1. task'[t].key = k /\ task'[t].chain = 3 /\ task'[t].new = new
      BY <1>5, <2>4 DEF PickTo
    <3>2. k # "default" => k = gid
      BY <1>2
    <3>3. CASE k \in harmed'
      BY <2>7, <2>8, <3>1, <3>3 DEF PhaseStore
    <3>4. CASE k \notin harmed'
      <4>1. k = "default" => Backed(k, Removes(t))'
        BY <1>6, <2>9, <3>4 DEF Backed
      <4> QED BY <1>6, <2>6, <2>7, <2>8, <2>9, <3>1, <3>2, <3>4, <4>1 DEF PhaseStore
    <3> QED BY <3>3, <3>4
  <2> QED BY <1>5, <2>10 DEF Phase, PickTo, Updating
<1> QED BY <1>5, <1>6, <1>7, PhaseStep DEF PickTo

(* While a file is empty, memory holds what is promised of it. *)
LEMMA PhaseOpenStep ==
  ASSUME Base, Settings, NEW t \in Tasks, Open(t) PROVE Phases' /\ AtRest'
<1>1. PICK k \in Keys : k = task[t].key
  BY TaskFacts DEF Base, Types
<1>2. /\ task[t].at = "open" /\ gid' = gid /\ config_src' = config_src /\ config' = config
      /\ promise' = promise /\ prepared' = prepared
  BY DEF Open, At
<1>3. CASE file' = [file EXCEPT ![k] = File("empty", Zero)] /\ Goto(t, "write")
           /\ harmed' = harmed
  <2>1. MoveTo(t, "write")
    BY <1>3, GotoEffect DEF Base, Types, Ats
  <2>2. ASSUME Solo(t) PROVE Phase(t)'
    <3>1. PhaseStore(t)
      BY <1>2, <2>2 DEF Settings, Phases, Phase
    <3>2. Removes(t)' = Removes(t) /\ Current' = Current
      BY <1>2, <2>1, RemovesKept DEF Current, MoveTo, Held
    <3>3. k = "default" /\ Backed(k, Removes(t)) => Backed(k, Removes(t))'
      BY <1>2, <1>3, <3>2, KeyFacts DEF Backed, Base, Types, CfgType
    <3>4. PhaseStore(t)'
      <4>1. task'[t].key = k /\ task'[t].end = task[t].end /\ task'[t].home = task[t].home
            /\ task'[t].chain = task[t].chain /\ task'[t].new = task[t].new
        BY <1>1, <2>1 DEF MoveTo, Held, Same
      <4> QED BY <1>1, <1>2, <1>3, <3>1, <3>2, <3>3, <4>1 DEF PhaseStore, Owned, Holds
    <3> QED BY <2>1, <3>4 DEF Phase, MoveTo, Updating
  <2> QED BY <1>2, <2>1, <2>2, PhaseStep DEF MoveTo, Held
<1>4. CASE harmed' = harmed \cup {k} /\ Goto(t, Stored(t))
  <2>1. MoveTo(t, Stored(t))
    BY <1>4, GotoEffect, StoredType DEF Base, Types
  <2>2. ASSUME Solo(t) PROVE Phase(t)'
    <3>1. PhaseStore(t)
      BY <1>2, <2>2 DEF Settings, Phases, Phase
    <3>2. Current' = Current
      BY <1>2 DEF Current
    <3>3. task'[t].key = k /\ task'[t].end = task[t].end /\ task'[t].home = task[t].home
      BY <1>1, <2>1 DEF MoveTo, Held, Same
    <3>4. PhaseUpgrade(t)' /\ PhaseDone(t)'
      BY <1>1, <1>4, <3>1, <3>2, <3>3 DEF PhaseStore, PhaseUpgrade, PhaseDone, InUse
    <3> QED BY <2>1, <3>4, StoredFacts DEF Phase, MoveTo, Updating, Base
  <2>3. task'[t].at # "idle"
    BY <2>1, StoredFacts DEF MoveTo, Base
  <2> QED BY <1>2, <2>1, <2>2, <2>3, PhaseStep DEF MoveTo, Held
<1> QED BY <1>1, <1>3, <1>4 DEF Open

(* What the store leaves: the file is what is in memory.                   *)
LEMMA WriteEffect ==
  ASSUME Base, NEW t \in Tasks, Write(t), NEW k, k = task[t].key
  PROVE  /\ file'[k].len = "full" /\ file'[k].data = config
         /\ \A j \in Keys : j # k => file'[j] = file[j]
         /\ task[t].at = "write" /\ MoveTo(t, Stored(t))
<1>1. k \in Keys
  BY TaskFacts DEF Base, Types
<1>2. file' = [file EXCEPT ![k] = File("full", config)]
  BY DEF Write
<1>3. task[t].at = "write" /\ MoveTo(t, Stored(t))
  BY GotoEffect, StoredType DEF Write, At, Base, Types
<1> QED BY <1>1, <1>2, <1>3 DEF Base, Types, CfgType, File

(* A file just stored is whole, its own and holds what is promised. *)
LEMMA FilesWrite ==
  ASSUME Base, Settings, NEW t \in Tasks, Write(t) PROVE Files'
<1>1. PICK k \in Keys : k = task[t].key
  BY TaskFacts DEF Base, Types
<1>2. /\ file'[k].len = "full" /\ file'[k].data = config
      /\ \A j \in Keys : j # k => file'[j] = file[j]
      /\ task[t].at = "write" /\ MoveTo(t, Stored(t))
  BY <1>1, WriteEffect
<1>3. promise' = promise /\ harmed' = harmed
  BY DEF Write, histVars
<1>4. ASSUME k \notin harmed PROVE Sound(k)'
  <2>1. Solo(t)
    BY <1>1, <1>2, <1>4 DEF Base, MetHarms, HarmedBy, Working, Solo
  <2>2. PhaseStore(t)
    BY <1>2, <2>1 DEF Settings, Phases, Phase
  <2>3. /\ config.magic = 3 /\ Owned(config, k, IF task[t].chain = 3 THEN 1 ELSE 0)
        /\ promise[k] \subseteq Holds(config)
    BY <1>1, <1>4, <2>2 DEF PhaseStore
  <2>4. task[t].chain # 3 => Upgrader(k)'
    BY <1>1, <1>2, StoredFacts DEF Upgrader, MoveTo, Held, Base
  <2> QED BY <1>2, <1>3, <2>3, <2>4 DEF Sound, Whole
<1>5. ASSUME NEW j \in Keys, j \notin harmed, j # k PROVE Sound(j)'
  <2>1. Writer(j) => Writer(j)'
    BY <1>1, <1>2, <1>5 DEF Writer, Only, MoveTo
  <2>2. Upgrader(j) => Upgrader(j)'
    BY <1>2 DEF Upgrader, Only, MoveTo
  <2> QED BY <1>2, <1>3, <1>5, <2>1, <2>2, SoundKept DEF Settings, Files
<1> QED BY <1>3, <1>4, <1>5 DEF Files

(* After the store memory and file agree. *)
LEMMA PhaseWriteStep ==
  ASSUME Base, Settings, NEW t \in Tasks, Write(t) PROVE Phases' /\ AtRest'
<1>1. PICK k \in Keys : k = task[t].key
  BY TaskFacts DEF Base, Types
<1>2. /\ file'[k].len = "full" /\ file'[k].data = config
      /\ \A j \in Keys : j # k => file'[j] = file[j]
      /\ task[t].at = "write" /\ MoveTo(t, Stored(t))
  BY <1>1, WriteEffect
<1>3. /\ gid' = gid /\ config_src' = config_src /\ config' = config
      /\ promise' = promise /\ prepared' = prepared /\ harmed' = harmed
  BY DEF Write, histVars
<1>4. ASSUME Solo(t) PROVE Phase(t)'
  <2>1. PhaseStore(t)
    BY <1>2, <1>4 DEF Settings, Phases, Phase
  <2>2. Removes(t)' = Removes(t) /\ Current' = Current /\ k = Current
    BY <1>1, <1>2, <1>3, <2>1, RemovesKept DEF Current, MoveTo, Held, PhaseStore
  <2>3. task'[t].key = k /\ task'[t].end = task[t].end /\ task'[t].home = task[t].home
        /\ task'[t].chain = task[t].chain /\ task'[t].new = task[t].new
    BY <1>1, <1>2 DEF MoveTo, Held, Same
  <2>4. ASSUME k \notin harmed PROVE Backed(k, Removes(t))'
    <3>1. /\ k = "default" => Backed(k, Removes(t))
          /\ k # "default" => k = gid /\ k \notin Removes(t)
      BY <1>1, <2>1, <2>4 DEF PhaseStore
    <3> QED BY <1>2, <1>3, <2>2, <3>1, KeyFacts DEF Backed
  <2>5. CASE Stored(t) = "upgrade" /\ task[t].chain < 3
    <3>1. PhaseUpgrade(t)'
      BY <1>1, <1>3, <2>1, <2>2, <2>3, <2>4, <2>5 DEF PhaseStore, PhaseUpgrade, Owned, Holds
    <3> QED BY <1>2, <2>5, <3>1 DEF Phase, MoveTo, Updating
  <2>6. CASE Stored(t) = "check" /\ task[t].chain = 3
    <3>1. InUse(Current, Removes(t))'
      BY <1>1, <1>3, <2>1, <2>2, <2>4, <2>6 DEF PhaseStore, InUse, Owned, Holds
    <3>2. PhaseDone(t)'
      BY <1>1, <1>2, <1>3, <2>1, <2>2, <2>3, <3>1 DEF PhaseStore, PhaseDone, Holds
    <3> QED BY <1>2, <2>6, <3>2 DEF Phase, MoveTo, Updating
  <2> QED BY <2>5, <2>6, StoredFacts DEF Base
<1>5. task'[t].at # "idle"
  BY <1>2, StoredFacts DEF MoveTo, Base
<1> QED BY <1>2, <1>4, <1>5, PhaseStep DEF MoveTo, Held

(* The end of a call.                                                      *)
LEMMA DoneAlone ==
  ASSUME Base, Settings, NEW t \in Tasks, task[t].at = "end", Solo(t)
  PROVE  PhaseDone(t)
  BY DEF Settings, Phases, Phase

(* The end of a call, file by file. *)
LEMMA EndFile ==
  ASSUME Base, NEW t \in Tasks, End(t), NEW k \in Keys
  PROVE  /\ k \in Removes(t) => file'[k].len = "absent" /\ file'[k].data = Zero
                                /\ promise'[k] = {}
         /\ k \notin Removes(t) => file'[k] = file[k] /\ promise'[k] = Promised(t)[k]
  BY EndEffect, ZeroFacts DEF Base

(* What is promised at the end of a call is in the file by then. *)
LEMMA EndFiles ==
  ASSUME Base, Settings, NEW t \in Tasks, End(t) PROVE Files'
<1>1. /\ task[t].at = "end" /\ harmed' = harmed /\ Only(t)
  BY EndEffect DEF End, At, Base
<1> SUFFICES ASSUME NEW k \in Keys, k \notin harmed PROVE Sound(k)'
  BY <1>1 DEF Files
<1>2. CASE k \in Removes(t)
  <2>1. file'[k].len = "absent" /\ file'[k].data = Zero /\ promise'[k] = {}
    BY <1>2, EndFile
  <2> QED BY <2>1 DEF Sound
<1>3. CASE k \notin Removes(t)
  <2>1. file'[k] = file[k] /\ promise'[k] = Promised(t)[k]
    BY <1>3, EndFile
  <2>2. Writer(k) => Writer(k)'
    BY <1>1 DEF Writer, Only
  <2>3. Upgrader(k) => Upgrader(k)'
    BY <1>1 DEF Upgrader, Only
  <2>4. Sound(k)
    BY DEF Settings, Files
  <2>5. Promised(t)[k] \subseteq promise[k] \cup Holds(file[k].data)
    <3>1. CASE task[t].end = "saved" /\ k = task[t].home
      <4>1. Solo(t)
        BY <1>1, <3>1, KeyFacts DEF Base, MetHarms, HarmedBy, Solo
      <4>2. task[t].new \subseteq Holds(file[k].data)
        BY <1>1, <3>1, <4>1, DoneAlone DEF PhaseDone, Storers
      <4> QED BY <3>1, <4>2, PromisedFacts DEF Base
    <3>2. CASE task[t].end = "copied" /\ k = task[t].key /\ k \in Games
      <4>1. Solo(t)
        BY <1>1, <3>2 DEF Base, MetHarms, HarmedBy, Solo, Storers
      <4>2. task[t].new \subseteq Holds(file[k].data)
        BY <1>1, <3>2, <4>1, DoneAlone DEF PhaseDone, Storers
      <4> QED BY <3>2, <4>2, PromisedFacts DEF Base
    <3>3. CASE ~(task[t].end = "saved" /\ k = task[t].home)
               /\ ~(task[t].end = "copied" /\ k = task[t].key /\ k \in Games)
      BY <3>3, PromisedFacts DEF Base, Storers
    <3> QED BY <3>1, <3>2, <3>3
  <2>6. file[k].len = "full" => Whole(k)'
    BY <2>1, <2>3, <2>4 DEF Sound, Whole
  <2> QED BY <2>1, <2>2, <2>4, <2>5, <2>6 DEF Sound
<1> QED BY <1>2, <1>3

(* At rest the configuration in memory is that of the file in use. *)
LEMMA EndRest ==
  ASSUME Base, Settings, NEW t \in Tasks, End(t) PROVE Phases' /\ AtRest'
<1>1. /\ task[t].at = "end" /\ harmed' = harmed /\ Only(t) /\ task'[t] = Idle
      /\ config' = config /\ config_src' = config_src /\ gid' = gid /\ prepared' = prepared
  BY EndEffect DEF End, At, Base
<1>2. Phases'
  <2>1. ~Solo(t)'
    BY <1>1, IdleType DEF Solo
  <2>2. ASSUME NEW o \in Tasks, o # t PROVE ~Solo(o)'
    BY <1>1, <2>2, BtIsTask DEF Solo, Only, Base, Calls, Meeting
  <2> QED BY <2>1, <2>2 DEF Phases
<1>3. AtRest'
  <2>1. ASSUME Quiet' PROVE InUse(Current, {})'
    <3>1. \A o \in Tasks : o # t => task[o].at = "idle"
      BY <1>1, <2>1 DEF Quiet, At, Only
    <3>2. Current' = Current
      BY <1>1 DEF Current
    <3>3. CASE task[t].met
      <4>1. \A o \in Tasks : ~Deciding(o)
        BY <1>1, <3>1 DEF Deciding
      <4>2. Current \in harmed
        BY <3>3, <4>1 DEF Base, MetHarms
      <4> QED BY <1>1, <3>2, <4>2 DEF InUse
    <3>4. CASE ~task[t].met
      <4>1. PhaseDone(t)
        BY <1>1, <3>4, DoneAlone DEF Solo
      <4>2. PICK k : k = Current
        OBVIOUS
      <4>3. CASE k \in Keys \ harmed
        <5>1. /\ config.magic = 3 /\ Owned(config, k, 1) /\ Backed(k, Removes(t))
              /\ promise[k] \subseteq Holds(config) /\ prepared \subseteq Holds(config)
          BY <4>1, <4>2, <4>3 DEF PhaseDone, InUse
        <5>2. Promised(t)[k] \subseteq Holds(config)
          <6>1. CASE task[t].end \in Storers /\ k = task[t].key
            <7>1. task[t].new \subseteq Holds(config)
              BY <4>1, <4>3, <6>1 DEF PhaseDone
            <7> QED BY <4>3, <5>1, <6>1, <7>1, PromisedFacts DEF Base, Storers
          <6>2. CASE ~(task[t].end \in Storers /\ k = task[t].key)
            BY <4>1, <4>2, <4>3, <5>1, <6>2, PromisedFacts DEF Base, Storers, PhaseDone
          <6> QED BY <6>1, <6>2
        <5>3. promise'[k] \subseteq Holds(config)
          BY <4>3, <5>2, EndFile
        <5>4. Backed(k, {})'
          <6>1. CASE k = "default" /\ gid \in Games
            <7>1. gid \in Keys
              BY <6>1, KeyFacts
            <7> QED BY <1>1, <5>1, <6>1, <7>1, EndFile DEF Backed
          <6>2. CASE k # "default"
            <7>1. k = gid /\ gid \notin Removes(t) /\ file[k].len # "absent"
              BY <5>1, <6>2 DEF Backed
            <7>2. file'[k] = file[k]
              BY <4>3, <7>1, EndFile
            <7> QED BY <1>1, <6>2, <7>1, <7>2 DEF Backed
          <6> QED BY <1>1, <6>1, <6>2 DEF Backed
        <5>5. InUse(k, {})'
          BY <1>1, <5>1, <5>3, <5>4 DEF InUse, Owned, Holds
        <5> QED BY <3>2, <4>2, <5>5
      <4>4. CASE k \notin Keys \ harmed
        BY <1>1, <3>2, <4>2, <4>4 DEF InUse
      <4> QED BY <4>3, <4>4
    <3> QED BY <3>3, <3>4
  <2> QED BY <2>1 DEF AtRest
<1> QED BY <1>2, <1>3

(***************************************************************************)
(* The actions that start a call.                                          *)
(***************************************************************************)
LEMMA QuietHarm ==
  ASSUME Base, Quiet, NEW t \in Tasks, harmed' = Clash(t, Current) PROVE harmed' = harmed
<1>1. task[t] = Idle
  BY DEF Quiet, At, Base, Calls, Flow
<1> QED BY <1>1, IdleType DEF Clash, Quiet, At

(* A call that begins keeps Settings when its first step finds what it needs. *)
LEMMA SettingsBegin ==
  ASSUME Base, Settings, NEW t \in Tasks, NEW call \in TaskRec, task[t].at = "idle",
         Began(t, call), \A o \in Tasks : o # t => Meets(o), call.at # "idle",
         file' = file, promise' = promise, harmed \subseteq harmed', Quiet => Phase(t)'
  PROVE  Settings'
<1>1. Files'
  <2> SUFFICES ASSUME NEW k \in Keys, k \notin harmed' PROVE Sound(k)'
    BY DEF Files
  <2>1. Writer(k) => Writer(k)'
    <3>1. ASSUME NEW o \in Tasks, task[o].at = "write", task[o].key = k PROVE Writer(k)'
      BY <3>1 DEF Writer, Meets
    <3> QED BY <3>1 DEF Writer
  <2>2. Upgrader(k) => Upgrader(k)'
    <3>1. ASSUME NEW o \in Tasks, task[o].at \in {"upgrade", "open"}, task[o].key = k
          PROVE  Upgrader(k)'
      BY <3>1 DEF Upgrader, Meets
    <3> QED BY <3>1 DEF Upgrader
  <2> QED BY <2>1, <2>2, SoundKept DEF Settings, Files
<1>2. AtRest'
  BY DEF AtRest, Quiet, At, Began
<1>3. ASSUME NEW o \in Tasks, Solo(o)' PROVE Phase(o)'
  <2>1. CASE Quiet
    <3>1. o = t
      BY <1>3, <2>1 DEF Solo, Meets, Quiet, At
    <3> QED BY <2>1, <3>1
  <2>2. CASE ~Quiet
    <3>1. task'[t].met
      BY <2>2 DEF Began
    <3>2. o # t
      BY <1>3, <3>1 DEF Solo
    <3>3. task'[o].met
      BY <1>3, <3>2 DEF Solo, Meets, At
    <3> QED BY <1>3, <3>3 DEF Solo
  <2> QED BY <2>1, <2>2
<1> QED BY <1>1, <1>2, <1>3 DEF Phases, Settings

(* A change of the configuration in use, and what is to be stored of it.   *)
LEMMA SettingsSave ==
  ASSUME Base, Settings, NEW S \in SUBSET Edits,
         up, task["bt"].at = "idle", Began("bt", Save(S)),
         \A o \in Tasks : o # "bt" => Meets(o),
         UNCHANGED <<file, promise, gid, config_src>>, harmed' = Clash("bt", Current),
         prepared' \subseteq prepared, config'.magic = config.magic,
         config'.head.own = config.head.own, config'.tail.own = config.tail.own,
         config'.tail.combos = config.tail.combos,
         Holds(config) \subseteq Holds(config'),
         S \subseteq Holds(config') \/ S = prepared
  PROVE  Settings'
<1>1. PICK call \in TaskRec : call = Save(S)
  BY SaveType DEF Base
<1>2. call.at = "update" /\ call.dst = config_src /\ call.end = "saved" /\ call.new = S
      /\ call.home = Current
  BY <1>1, SaveType DEF Base
<1>3. harmed \subseteq harmed'
  BY DEF Clash
<1>4. ASSUME Quiet PROVE Phase("bt")'
  <2>1. InUse(Current, {}) /\ harmed' = harmed
    BY <1>4, QuietHarm, BtIsTask DEF Settings, AtRest
  <2>2. PICK h : h = Current
    OBVIOUS
  <2>3. h \in Keys /\ h # "none"
    BY <1>4, <2>2, CurrentNamed, KeyFacts, BtIsTask DEF Base, Quiet, At
  <2>4. /\ task'["bt"].at = "update" /\ task'["bt"].dst = config_src
        /\ task'["bt"].end = "saved" /\ task'["bt"].new = S /\ task'["bt"].home = h
    BY <1>1, <1>2, <2>2 DEF Began
  <2>5. InUse(h, {})' /\ (h \notin harmed => S \subseteq Holds(config'))
    BY <2>1, <2>2, <2>3 DEF InUse, Owned, Backed
  <2>6. /\ config_src = "gameid" => h = gid
        /\ config_src = "default" => h = "default"
    BY <2>2 DEF Current
  <2>7. PhaseUpdate("bt")'
    BY <2>1, <2>3, <2>4, <2>5, <2>6 DEF PhaseUpdate
  <2> QED BY <2>4, <2>7 DEF Phase
<1> QED BY <1>1, <1>2, <1>3, <1>4, SettingsBegin, BtIsTask

(* Edits and the end of a long write keep Settings. *)
LEMMA SettingsWrites ==
  ASSUME Base, Settings, (\E mode \in Modes : WriteHead(mode)) \/ WriteTail \/ Exec
  PROVE  Settings'
<1>1. config \in ContentType /\ prepared \in SUBSET Edits
  BY DEF Base, Types, CfgType, HistType
<1>2. ASSUME NEW mode \in Modes, WriteHead(mode) PROVE Settings'
  <2>1. PICK S \in SUBSET Edits : S = {events + 1}
    BY <1>2, EventFacts DEF WriteHead, Base, Types
  <2>2. Began("bt", Save(S)) /\ \A o \in Tasks : o # "bt" => Meets(o)
    BY <1>2, <2>1, WriteHeadEffect DEF Base
  <2>3. config' = [config EXCEPT !.head.edits = config.head.edits \cup S, !.head.mode = mode]
    BY <1>2, <2>1 DEF WriteHead
  <2>4. /\ config'.magic = config.magic /\ config'.tail = config.tail
        /\ config'.head.own = config.head.own
        /\ config'.head.edits = config.head.edits \cup S
    BY <1>1, <2>3 DEF ContentType
  <2>5. Holds(config) \subseteq Holds(config') /\ S \subseteq Holds(config')
    BY <2>4 DEF Holds
  <2>6. /\ up /\ task["bt"].at = "idle" /\ UNCHANGED <<file, promise, gid, config_src, prepared>>
        /\ harmed' = Clash("bt", Current)
    BY <1>2 DEF WriteHead, Begin, At
  <2> QED BY <2>2, <2>4, <2>5, <2>6, SettingsSave
<1>3. CASE WriteTail
  <2>1. PICK S \in SUBSET Edits : S = {events + 1}
    BY <1>3, EventFacts DEF WriteTail, Base, Types
  <2>2. Began("bt", Save(S)) /\ \A o \in Tasks : o # "bt" => Meets(o)
    BY <1>3, <2>1, WriteTailEffect DEF Base
  <2>3. config' = [config EXCEPT !.tail.edits = config.tail.edits \cup S]
    BY <1>3, <2>1 DEF WriteTail
  <2>4. /\ config'.magic = config.magic /\ config'.head = config.head
        /\ config'.tail.own = config.tail.own /\ config'.tail.combos = config.tail.combos
        /\ config'.tail.edits = config.tail.edits \cup S
    BY <1>1, <2>3 DEF ContentType
  <2>5. Holds(config) \subseteq Holds(config') /\ S \subseteq Holds(config')
    BY <2>4 DEF Holds
  <2>6. /\ up /\ task["bt"].at = "idle" /\ UNCHANGED <<file, promise, gid, config_src, prepared>>
        /\ harmed' = Clash("bt", Current)
    BY <1>3 DEF WriteTail, Begin, At
  <2> QED BY <2>2, <2>4, <2>5, <2>6, SettingsSave
<1>4. CASE Exec
  <2>1. PICK S \in SUBSET Edits : S = prepared
    BY <1>1
  <2>2. Began("bt", Save(S)) /\ \A o \in Tasks : o # "bt" => Meets(o)
    BY <1>4, <2>1, ExecEffect DEF Base
  <2>3. /\ up /\ task["bt"].at = "idle" /\ UNCHANGED <<config, file, promise, gid, config_src>>
        /\ harmed' = Clash("bt", Current) /\ prepared' = {}
    BY <1>4 DEF Exec, Begin, At, cfgVars
  <2> QED BY <2>1, <2>2, <2>3, SettingsSave
<1> QED BY <1>2, <1>3, <1>4

(* A call that stores or loads another configuration than the one in use.  *)
LEMMA SettingsStart ==
  ASSUME Base, Settings, NEW t \in Tasks, NEW call \in TaskRec, up, task[t].at = "idle",
         Began(t, call), \A o \in Tasks : o # t => Meets(o), call.at # "idle",
         UNCHANGED <<config, config_src, file, promise, prepared>>,
         harmed' = Clash(t, Current),
         Quiet /\ harmed' = harmed /\ InUse(Current, {}) => Phase(t)'
  PROVE  Settings'
<1>1. harmed \subseteq harmed'
  BY DEF Clash
<1>2. ASSUME Quiet PROVE Phase(t)'
  BY <1>2, QuietHarm DEF Settings, AtRest
<1> QED BY <1>1, <1>2, SettingsBegin

(* The commands and a new game keep Settings. *)
LEMMA SettingsCommands ==
  ASSUME Base, Settings,
         \/ SetDefault \/ SetGameId \/ (\E k \in Keys : DelFile(k))
         \/ \E g \in Games \cup {"none"} : GidUpdate(g)
  PROVE  Settings'
<1>1. CASE SetDefault
  <2>1. PICK a \in Ats, d \in {"default", "gameid"}, e \in Ends :
          a = "init" /\ d = "default" /\ e = "rm_gid"
    BY DEF Ats, Ends
  <2>2. PICK call \in TaskRec : call = Call(a, d, e)
    BY CallType
  <2>3. call.at = "init" /\ call.end = "rm_gid" /\ call.dst = "default"
    BY <2>1, <2>2, CallType
  <2>4. /\ Began("bt", call) /\ (\A o \in Tasks : o # "bt" => Meets(o)) /\ up
        /\ task["bt"].at = "idle" /\ harmed' = Clash("bt", Current) /\ gid' = gid
        /\ UNCHANGED <<config, config_src, file, promise, prepared>>
    BY <1>1, <2>1, <2>2, SetDefaultEffect DEF SetDefault, Begin, At, cfgVars, Base
  <2>5. Phase("bt")'
    BY <2>3, <2>4 DEF Phase, PhaseInit, Removes, Began, Updating
  <2> QED BY <2>3, <2>4, <2>5, SettingsStart, BtIsTask
<1>2. CASE SetGameId
  <2>1. PICK call \in TaskRec :
          call = [Call("update", "gameid", "copied") EXCEPT !.home = Current]
    BY SetType DEF Base
  <2>2. call.at = "update" /\ call.end = "copied" /\ call.home = Current /\ call.new = {}
    BY <2>1, SetType DEF Base
  <2>3. /\ Began("bt", call) /\ (\A o \in Tasks : o # "bt" => Meets(o)) /\ up
        /\ task["bt"].at = "idle" /\ harmed' = Clash("bt", Current) /\ gid' = gid
        /\ UNCHANGED <<config, config_src, file, promise, prepared>>
    BY <1>2, <2>1, SetGameIdEffect DEF SetGameId, Begin, At, cfgVars, Base
  <2>4. ASSUME Quiet, harmed' = harmed, InUse(Current, {}) PROVE Phase("bt")'
    <3>1. PICK h : h = Current
      OBVIOUS
    <3>2. h \in {"default", gid} /\ h # "none"
      <4>1. h \in Keys
        BY <2>4, <3>1, CurrentNamed, BtIsTask DEF Base, Quiet, At
      <4> QED BY <3>1, <4>1, KeyFacts DEF Current
    <3>3. InUse(h, {})'
      BY <2>3, <2>4, <3>1 DEF InUse, Owned, Backed, Holds
    <3> QED BY <2>2, <2>3, <3>1, <3>2, <3>3 DEF Phase, PhaseUpdate, Began
  <2> QED BY <2>2, <2>3, <2>4, SettingsStart, BtIsTask
<1>3. ASSUME NEW k \in Keys, DelFile(k) PROVE Settings'
  <2>1. PICK call \in TaskRec :
          call = [Call(IF k = gid THEN "init" ELSE "end", "default", "remove") EXCEPT !.arg = k]
    BY DelType DEF Base
  <2>2. call.at = (IF k = gid THEN "init" ELSE "end") /\ call.end = "remove" /\ call.arg = k
        /\ call.dst = "default"
    BY <2>1, DelType DEF Base
  <2>3. /\ Began("bt", call) /\ (\A o \in Tasks : o # "bt" => Meets(o)) /\ up
        /\ task["bt"].at = "idle" /\ harmed' = Clash("bt", Current) /\ gid' = gid
        /\ UNCHANGED <<config, config_src, file, promise, prepared>>
    BY <1>3, <2>1, DelFileEffect DEF DelFile, Begin, At, cfgVars, Base
  <2>4. Removes("bt")' = {k}
    BY <2>2, <2>3 DEF Removes, Began
  <2>5. ASSUME Quiet, harmed' = harmed, InUse(Current, {}) PROVE Phase("bt")'
    <3>1. CASE k = gid
      BY <2>2, <2>3, <2>4, <3>1 DEF Phase, PhaseInit, Began, Updating
    <3>2. CASE k # gid
      <4>1. PICK h : h = Current
        OBVIOUS
      <4>2. h \in Keys \ harmed => Backed(h, {}) /\ Backed(h, {k})'
        BY <2>3, <2>5, <3>2, <4>1 DEF InUse, Backed
      <4>3. Current' = h
        BY <2>3, <4>1 DEF Current
      <4>4. InUse(h, {k})'
        BY <2>3, <2>5, <4>1, <4>2 DEF InUse, Owned, Holds
      <4>5. task'["bt"].at = "end" /\ task'["bt"].end = "remove"
        BY <2>2, <2>3, <3>2 DEF Began
      <4>6. PhaseDone("bt")'
        BY <2>4, <4>3, <4>4, <4>5 DEF PhaseDone, Storers
      <4> QED BY <4>5, <4>6 DEF Phase, Updating
    <3> QED BY <3>1, <3>2
  <2>6. call.at # "idle"
    BY <2>2
  <2> QED BY <2>3, <2>5, <2>6, SettingsStart, BtIsTask
<1>4. ASSUME NEW g \in Games \cup {"none"}, GidUpdate(g) PROVE Settings'
  <2>1. PICK a \in Ats, d \in {"default", "gameid"}, e \in Ends :
          a = "init" /\ d = "gameid" /\ e = "none"
    BY DEF Ats, Ends
  <2>2. PICK call \in TaskRec : call = Call(a, d, e)
    BY CallType
  <2>3. call.at = "init" /\ call.end = "none" /\ call.dst = "gameid"
    BY <2>1, <2>2, CallType
  <2>4. /\ Began("fb", call) /\ (\A o \in Tasks : o # "fb" => Meets(o)) /\ up
        /\ task["fb"].at = "idle" /\ harmed' = Clash("fb", Current)
        /\ UNCHANGED <<config, config_src, file, promise, prepared>>
    BY <1>4, <2>1, <2>2, GidUpdateEffect DEF GidUpdate, Begin, At, cfgVars, Base
  <2>5. Phase("fb")'
    BY <2>3, <2>4 DEF Phase, PhaseInit, Removes, Began, Updating
  <2> QED BY <2>3, <2>4, <2>5, SettingsStart, BtIsTask
<1> QED BY <1>1, <1>2, <1>3, <1>4

(* The actions that start no call keep Settings. *)
LEMMA SettingsQuiet ==
  ASSUME Settings, UNCHANGED <<config, config_src, file, gid, task, up, promise, harmed>>,
         prepared' \subseteq prepared
  PROVE  Settings'
<1>1. Files'
  BY DEF Settings, Files, Sound, Whole, Writer, Upgrader, Owned, Holds
<1>2. Current' = Current /\ \A t \in Tasks : Removes(t)' = Removes(t)
  BY DEF Current, Removes
<1>3. \A k, gone : InUse(k, gone) => InUse(k, gone)'
  BY DEF InUse, Owned, Backed, Holds
<1>4. \A k, gone : Backed(k, gone)' = Backed(k, gone)
  BY DEF Backed
<1>5. AtRest'
  BY <1>2, <1>3 DEF Settings, AtRest, Quiet, At
<1>6. ASSUME NEW t \in Tasks, Solo(t)' PROVE Phase(t)'
  <2>1. Phase(t)
    BY <1>6 DEF Settings, Phases, Solo
  <2>2. PhaseInit(t) => PhaseInit(t)'
    BY <1>2 DEF PhaseInit
  <2>3. PhaseLoad(t) => PhaseLoad(t)'
    BY <1>2, <1>4 DEF PhaseLoad
  <2>4. PhaseUpgrade(t) => PhaseUpgrade(t)'
    BY <1>2, <1>4 DEF PhaseUpgrade, Owned, Holds
  <2>5. PhaseStore(t) => PhaseStore(t)'
    BY <1>2, <1>4 DEF PhaseStore, Owned, Holds
  <2>6. PhaseDone(t) => PhaseDone(t)'
    BY <1>2, <1>3 DEF PhaseDone, Holds
  <2>7. PhaseUpdate(t) => PhaseUpdate(t)'
    BY <1>3 DEF PhaseUpdate, Holds
  <2> QED BY <2>1, <2>2, <2>3, <2>4, <2>5, <2>6, <2>7 DEF Phase
<1> QED BY <1>1, <1>5, <1>6 DEF Settings, Phases

(* A part of a long write is in memory at once, and in no promise yet. *)
LEMMA SettingsPrepare ==
  ASSUME Base, Settings, Prepare PROVE Settings'
<1>1. PICK S \in SUBSET Edits : S = {events + 1}
  BY EventFacts DEF Prepare, Base, Types
<1>2. /\ config' = [config EXCEPT !.tail.edits = config.tail.edits \cup S]
      /\ prepared' = prepared \cup S
      /\ task["bt"].at = "idle" /\ harmed' = Clash("bt", Current)
      /\ UNCHANGED <<config_src, file, gid, task, up, promise>>
  BY <1>1 DEF Prepare, At
<1>3. /\ config'.magic = config.magic /\ config'.head = config.head
      /\ config'.tail.own = config.tail.own /\ config'.tail.combos = config.tail.combos
      /\ config'.tail.edits = config.tail.edits \cup S
  BY <1>2 DEF Base, Types, CfgType, ContentType
<1>4. harmed \subseteq harmed'
  BY <1>2 DEF Clash
<1>5. Files'
  BY <1>2, <1>4 DEF Settings, Files, Sound, Whole, Writer, Upgrader, Owned, Holds
<1>6. Current' = Current /\ \A t \in Tasks : Removes(t)' = Removes(t)
  BY <1>2 DEF Current, Removes
<1>7. AtRest'
  <2>1. ASSUME Quiet', up' PROVE InUse(Current, {})'
    <3>1. InUse(Current, {}) /\ harmed' = harmed
      BY <1>2, <2>1, QuietHarm, BtIsTask DEF Settings, AtRest, Quiet, At
    <3> QED BY <1>2, <1>3, <1>6, <3>1 DEF InUse, Owned, Backed, Holds
  <2> QED BY <2>1 DEF AtRest
<1>8. ASSUME NEW t \in Tasks, Solo(t)' PROVE Phase(t)'
  <2>1. Solo(t) /\ Phase(t) /\ t = "fb"
    BY <1>2, <1>8, BtIsTask DEF Settings, Phases, Solo
  <2>2. PICK k \in Keys : k = task[t].key
    BY TaskFacts DEF Base, Types
  <2>3. k \in harmed' /\ Current \notin Keys \ harmed'
    BY <1>2, <2>1, <2>2, BtIsTask DEF Clash, Solo, At
  <2>4. task[t].end \notin Storers /\ task[t].at \notin Updating
    BY <2>1 DEF Base, Calls, Flow, Storers
  <2>5. PhaseInit(t) => PhaseInit(t)'
    BY <1>2, <1>6 DEF PhaseInit
  <2>6. PhaseLoad(t) => PhaseLoad(t)'
    BY <1>2, <1>6 DEF PhaseLoad, Backed
  <2>7. PhaseUpgrade(t) => PhaseUpgrade(t)'
    BY <1>2, <1>6, <2>2, <2>3 DEF PhaseUpgrade
  <2>8. PhaseStore(t) => PhaseStore(t)'
    BY <1>2, <1>6, <2>2, <2>3 DEF PhaseStore
  <2>9. PhaseDone(t)'
    BY <1>2, <1>6, <2>3, <2>4 DEF PhaseDone, InUse
  <2> QED BY <1>2, <2>1, <2>4, <2>5, <2>6, <2>7, <2>8, <2>9 DEF Phase
<1> QED BY <1>5, <1>7, <1>8 DEF Settings, Phases

(* After a start nothing is known of memory, and nothing needs to be. *)
LEMMA BootPhase ==
  ASSUME task["bt"] = Boot, task["fb"] = Idle, gid = "none", up = FALSE
  PROVE  Phases /\ AtRest
<1>1. Phase("bt")
  BY BootType, KeyFacts DEF Phase, PhaseInit, Removes, Updating
<1>2. ~Solo("fb")
  BY IdleType DEF Solo
<1> QED BY <1>1, <1>2, BtIsTask DEF Phases, AtRest

(* A cut harms the files it leaves in part; the others keep what is promised. *)
LEMMA SettingsCut ==
  ASSUME Base, Settings, Cut PROVE Settings'
<1>1. /\ task'["bt"] = Boot /\ task'["fb"] = Idle
      /\ harmed' = harmed \cup Storing \cup Between
      /\ \A k \in Keys : k \notin Storing => file'[k] = file[k]
  BY CutEffect DEF Base
<1>2. gid' = "none" /\ up' = FALSE /\ promise' = promise
  BY DEF Cut
<1>3. Files'
  <2> SUFFICES ASSUME NEW k \in Keys, k \notin harmed' PROVE Sound(k)'
    BY DEF Files
  <2>1. Sound(k) /\ file'[k] = file[k] /\ k \notin Storing /\ k \notin Between
    BY <1>1 DEF Settings, Files
  <2>2. ~Writer(k)
    BY <2>1 DEF Storing, Writer, At
  <2>3. file[k].len = "full" => Whole(k)'
    <3>1. ASSUME file[k].data.magic = 3, Owned(file[k].data, k, 0) PROVE ~Upgrader(k)
      BY <2>1, <3>1 DEF Between, Upgrader, Owned, CONFIG_VERSION
    <3> QED BY <2>1, <3>1 DEF Sound, Whole
  <2> QED BY <1>2, <2>1, <2>2, <2>3 DEF Sound
<1>4. Phases' /\ AtRest'
  <2>1. Phase("bt")'
    BY <1>1, <1>2, BootType, KeyFacts DEF Phase, PhaseInit, Removes, Updating
  <2>2. ~Solo("fb")'
    BY <1>1, IdleType DEF Solo
  <2> QED BY <1>2, <2>1, <2>2, BtIsTask DEF Phases, AtRest
<1> QED BY <1>3, <1>4 DEF Settings

(* At the first start the promise is what the files hold. *)
LEMMA SettingsInit ==
  ASSUME Init PROVE Settings
<1>1. task["bt"] = Boot /\ task["fb"] = Idle
  BY BootTask DEF Init
<1>2. Phases /\ AtRest
  BY <1>1, BootPhase DEF Init
<1>3. Files
  <2> SUFFICES ASSUME NEW k \in Keys, k \notin harmed PROVE Sound(k)
    BY DEF Files
  <2>1. promise[k] = file[k].data.head.edits
    BY FirstFiles
  <2>2. CASE file[k] = Absent
    BY <2>1, <2>2, ZeroFacts DEF Sound, Holds
  <2>3. ASSUME NEW v \in OldFiles, NEW m \in OldModes, file[k] = Old(k, v, m) PROVE Sound(k)
    <3>1. /\ file[k].len = "full" /\ file[k].data.magic = v
          /\ Owned(file[k].data, k, IF v = 3 THEN 1 ELSE 0)
      BY <2>3, OldType DEF Owned
    <3>2. v \in 0..3
      BY WebAssumption
    <3>3. v # 0
      BY <3>1 DEF Init
    <3>4. Whole(k)
      BY <3>1, <3>2, <3>3 DEF Whole
    <3> QED BY <2>1, <3>1, <3>4 DEF Sound, Holds
  <2> QED BY <2>2, <2>3, FirstFiles
<1> QED BY <1>2, <1>3 DEF Settings

(***************************************************************************)
(* Base and Settings through every step.                                   *)
(***************************************************************************)
LEMMA SettingsSteps ==
  ASSUME Base, Settings, NEW t \in Tasks,
         \/ InitSrc(t) \/ Choose(t) \/ Load(t) \/ Upgrade(t) \/ UpdateSrc(t) \/ Pick(t)
         \/ Open(t) \/ Write(t) \/ Check(t) \/ End(t)
  PROVE  Settings'
<1>1. Files'
  BY FilesChoose, FilesOpen, FilesWrite, EndFiles DEF Settings
<1>2. Phases' /\ AtRest'
  BY PhaseInitSrc, PhaseChoose, PhaseLoadStep, PhaseUpgradeStep, PhaseUpdateSrc, PhasePickStep,
     PhaseOpenStep, PhaseWriteStep, PhaseCheck, EndRest
<1> QED BY <1>1, <1>2 DEF Settings

(* Both through every step. *)
LEMMA SettingsNext ==
  ASSUME Base, Settings, [Next]_vars PROVE Base' /\ Settings'
<1>1. ASSUME NEW t \in Tasks,
             \/ InitSrc(t) \/ Choose(t) \/ Load(t) \/ Upgrade(t) \/ UpdateSrc(t) \/ Pick(t)
             \/ Open(t) \/ Write(t) \/ Check(t) \/ End(t)
      PROVE  Base' /\ Settings'
  BY <1>1, BaseSteps, SettingsSteps
<1>2. CASE (\E mode \in Modes : WriteHead(mode)) \/ WriteTail \/ Exec
  BY <1>2, BaseBegin, SettingsWrites
<1>3. CASE \/ SetDefault \/ SetGameId \/ (\E k \in Keys : DelFile(k))
           \/ \E g \in Games \cup {"none"} : GidUpdate(g)
  BY <1>3, BaseBegin, SettingsCommands
<1>4. CASE Prepare
  BY <1>4, BaseQuiet, SettingsPrepare
<1>5. CASE Cancel \/ OtaStart \/ OtaEnd \/ CoreStart \/ WiredReset
  <2>1. UNCHANGED <<config, config_src, file, gid, task, up, promise, harmed>>
        /\ prepared' \subseteq prepared
    BY <1>5 DEF Cancel, OtaStart, OtaEnd, CoreStart, WiredReset, cfgVars, histVars
  <2> QED BY <1>5, <2>1, BaseQuiet, SettingsQuiet
<1>6. CASE Cut
  BY <1>6, BaseCut, SettingsCut
<1>7. CASE UNCHANGED vars
  <2>1. UNCHANGED <<config, config_src, file, gid, task, up, promise, harmed>>
        /\ prepared' \subseteq prepared
    BY <1>7 DEF vars, cfgVars, histVars
  <2> QED BY <1>7, <2>1, BaseStutter, SettingsQuiet
<1> QED BY <1>1, <1>2, <1>3, <1>4, <1>5, <1>6, <1>7 DEF Next

(***************************************************************************)
(* What config_is_rst_required remembers, against what the core was        *)
(* started with: a call is pending until it has compared.                  *)
(***************************************************************************)
Pending(t) == task[t].at \notin {"idle", "end"}
TwoPending == \A t \in Tasks : Pending(t)
Moded(t)   == Pending(t) /\ task[t].at \notin Loading /\ task[t].chain = 3

Compared ==
  /\ core = -1 <=> ~rst_bare
  /\ wired_rst => rst_bare
  /\ ~rst_bare => rst_magic = -1
  /\ rst_magic # -1 /\ (\A t \in Tasks : ~Pending(t)) => rst_mode = config.head.mode
  /\ \A t \in Tasks :
       rst_magic # -1 /\ task[t].at \in Loading /\ ~TwoPending => rst_mode = config.head.mode
  /\ rst_bare /\ rst_magic = 3 /\ ~missed /\ ~TwoPending =>
       \/ wired_rst \/ core = rst_mode
       \/ core = config.head.mode /\ \E t \in Tasks : Moded(t)

(* Besides two tasks there is none. *)
LEMMA OneLeft ==
  ASSUME NEW t \in Tasks, NEW o \in Tasks, o # t PROVE \A p \in Tasks : p = t \/ p = o
  BY BtIsTask

(* A call goes on and the modes stay.                                      *)
LEMMA ComparedSame ==
  ASSUME Compared, NEW t \in Tasks, Only(t), UNCHANGED <<coreVars, missed>>,
         config'.head.mode = config.head.mode, Pending(t), Pending(t)',
         task'[t].at \in Loading => task[t].at \in Loading, Moded(t) => Moded(t)'
  PROVE  Compared'
<1>1. \A p \in Tasks : Pending(p)' = Pending(p) /\ (Moded(p) => Moded(p)')
                       /\ (task'[p].at \in Loading => task[p].at \in Loading)
  BY DEF Only, Pending, Moded
<1>2. TwoPending' = TwoPending
  BY <1>1 DEF TwoPending
<1>3. (\E p \in Tasks : Moded(p)) => (\E p \in Tasks : Moded(p)')
  BY <1>1
<1>4. UNCHANGED <<core, rst_bare, rst_magic, rst_mode, wired_rst, missed>>
  BY DEF coreVars
<1> QED BY <1>1, <1>2, <1>3, <1>4 DEF Compared

(* A call changes the configuration before it is moded: alone it was not.  *)
LEMMA ComparedLoads ==
  ASSUME Compared, NEW t \in Tasks, Only(t), UNCHANGED <<coreVars, missed>>,
         Pending(t), Pending(t)', task'[t].at \notin Loading, ~Moded(t)
  PROVE  Compared'
<1>1. \A p \in Tasks : Pending(p)' = Pending(p)
  BY DEF Only, Pending
<1>2. TwoPending' = TwoPending
  BY <1>1 DEF TwoPending
<1>3. ~TwoPending => (\A p \in Tasks : ~Moded(p)) /\ (\A p \in Tasks : task'[p].at \notin Loading)
  <2>1. ASSUME ~TwoPending, NEW p \in Tasks PROVE ~Moded(p) /\ task'[p].at \notin Loading
    <3>1. CASE p = t
      BY <3>1
    <3>2. CASE p # t
      <4>1. ~Pending(p) /\ task'[p] = task[p]
        BY <2>1, <3>2, OneLeft DEF TwoPending, Only
      <4> QED BY <4>1 DEF Pending, Moded, Loading
    <3> QED BY <3>1, <3>2
  <2> QED BY <2>1
<1>4. UNCHANGED <<core, rst_bare, rst_magic, rst_mode, wired_rst, missed>>
  BY DEF coreVars
<1> QED BY <1>1, <1>2, <1>3, <1>4 DEF Compared

(* After its comparison a call has recorded the mode, and queued a restart if it differs. *)
LEMMA ComparedCheck ==
  ASSUME Base, Compared, NEW t \in Tasks, Check(t) PROVE Compared'
<1>1. MoveTo(t, "end") /\ task[t].at = "check"
  BY GotoEffect DEF Check, At, Base, Types, Ats
<1>2. config' = config /\ core' = core /\ rst_bare' = rst_bare
  BY DEF Check, cfgVars
<1>3. ~TwoPending' /\ ~Pending(t)'
  BY <1>1 DEF TwoPending, Pending, MoveTo
<1>4. CASE ~rst_bare
  <2>1. wired_rst' = wired_rst /\ rst_magic' = rst_magic /\ rst_mode' = rst_mode
    BY <1>4 DEF Check
  <2> QED BY <1>2, <1>4, <2>1 DEF Compared
<1>5. CASE rst_bare
  <2> DEFINE mode == config.head.mode
             void == rst_magic # config.magic
  <2>1. /\ wired_rst' = (wired_rst \/ (rst_mode # mode /\ ~void))
        /\ rst_mode' = mode /\ rst_magic' = config.magic
        /\ missed' = (missed \/ (void /\ core # mode /\ ~wired_rst)
                             \/ \E o \in Tasks \ {t} : ~At(o, "idle"))
    BY <1>5 DEF Check
  <2>2. ASSUME rst_magic' = 3, ~missed' PROVE wired_rst' \/ core' = rst_mode'
    <3>1. ~missed /\ ~(void /\ core # mode /\ ~wired_rst)
          /\ \A o \in Tasks : o # t => task[o].at = "idle"
      BY <2>1, <2>2 DEF At
    <3>2. CASE void
      BY <1>2, <2>1, <3>1, <3>2
    <3>3. CASE ~void /\ rst_mode # mode
      BY <2>1, <3>3
    <3>4. CASE ~void /\ rst_mode = mode
      <4>1. ~TwoPending
        BY <3>1, BtIsTask DEF TwoPending, Pending
      <4>2. rst_magic = 3
        BY <2>1, <2>2, <3>4
      <4>3. wired_rst \/ core = rst_mode \/ core = mode
        BY <1>5, <3>1, <4>1, <4>2 DEF Compared
      <4> QED BY <1>2, <2>1, <3>4, <4>3
    <3> QED BY <3>2, <3>3, <3>4
  <2>3. rst_mode' = config'.head.mode
    BY <1>2, <2>1
  <2> QED BY <1>2, <1>5, <2>2, <2>3 DEF Compared
<1> QED BY <1>4, <1>5

(* The steps of a call keep Compared. *)
LEMMA ComparedSteps ==
  ASSUME Base, Compared, NEW t \in Tasks,
         \/ InitSrc(t) \/ Choose(t) \/ Load(t) \/ Upgrade(t) \/ UpdateSrc(t) \/ Pick(t)
         \/ Open(t) \/ Write(t) \/ Check(t) \/ End(t)
  PROVE  Compared'
<1>1. CASE InitSrc(t) \/ UpdateSrc(t) \/ Open(t) \/ Write(t)
  <2>1. PICK a \in {"choose", "pick", "write", "upgrade", "check"} : MoveTo(t, a)
    <3>1. {"choose", "pick", "write", "upgrade", "check"} \subseteq Ats
      BY DEF Ats
    <3>2. Stored(t) \in {"upgrade", "check"}
      BY StoredFacts DEF Base
    <3>3. \E a \in {"choose", "pick", "write", "upgrade", "check"} : Goto(t, a)
      BY <1>1, <3>2 DEF InitSrc, UpdateSrc, Open, Write
    <3> QED BY <3>1, <3>3, GotoEffect DEF Base, Types
  <2>2. /\ Pending(t) /\ (a \in Loading => task[t].at \in Loading)
        /\ task[t].at \notin Loading => a \notin Loading
    <3>1. CASE InitSrc(t)
      BY <3>1 DEF InitSrc, At, Pending, Loading
    <3>2. CASE UpdateSrc(t)
      <4>1. task'[t].at = "pick" /\ task[t].at = "update"
        BY <3>2, GotoEffect DEF UpdateSrc, At, MoveTo, Base, Types, Ats
      <4> QED BY <2>1, <4>1 DEF MoveTo, Pending, Loading
    <3>3. CASE Open(t) \/ Write(t)
      <4>1. task'[t].at \in {"write", "upgrade", "check"} /\ task[t].at \in {"open", "write"}
        BY <3>3, GotoEffect, StoredFacts, StoredType DEF Open, Write, At, MoveTo, Base, Types, Ats
      <4> QED BY <2>1, <4>1 DEF MoveTo, Pending, Loading
    <3> QED BY <1>1, <3>1, <3>2, <3>3
  <2>3. Pending(t)' /\ (Moded(t) => Moded(t)')
    BY <2>1, <2>2 DEF Pending, Moded, MoveTo, Held
  <2>4. config' = config /\ UNCHANGED <<coreVars, missed>>
    BY <1>1 DEF InitSrc, UpdateSrc, Open, Write, histVars
  <2> QED BY <2>1, <2>2, <2>3, <2>4, ComparedSame DEF MoveTo
<1>2. CASE Choose(t)
  <2>1. PICK k : ChooseTo(t, k)
    BY <1>2, ChooseEffect DEF Base
  <2>2. task[t].at = "choose" /\ config' = config /\ UNCHANGED <<coreVars, missed>>
    BY <1>2 DEF Choose, At
  <2> QED BY <2>1, <2>2, ComparedSame DEF ChooseTo, Pending, Moded, Loading
<1>3. CASE Load(t)
  <2>1. task[t].at = "load" /\ UNCHANGED <<coreVars, missed>>
    BY <1>3 DEF Load, At
  <2>2. Only(t) /\ task'[t].at \in {"open", "check", "upgrade"}
    BY <1>3, LoadEffect DEF LoadTo, Base
  <2> QED BY <2>1, <2>2, ComparedLoads DEF Pending, Moded, Loading
<1>4. CASE Upgrade(t)
  <2>1. task[t].at = "upgrade" /\ task[t].chain < 3 /\ UNCHANGED <<coreVars, missed>>
    BY <1>4 DEF Upgrade, At, Base, Calls, Flow, histVars
  <2>2. LoadTo(t, "open", task[t].chain + 1)
    BY <1>4, <2>1, UpgradeEffect DEF Base
  <2>3. task[t].chain # 3
    BY <2>1
  <2> QED BY <2>1, <2>2, <2>3, ComparedLoads DEF LoadTo, Pending, Moded, Loading
<1>5. CASE Pick(t)
  <2>1. PICK k, n : PickTo(t, k, n) /\ config' \in
                      {config, [config EXCEPT !.head.own = k, !.tail.own = k]}
    <3> DEFINE k == IF task[t].dst = "gameid" /\ gid # "none" THEN gid ELSE "default"
    <3>1. \E n : PickTo(t, k, n)
      BY <1>5, PickEffect DEF Base
    <3>2. config' \in {config, [config EXCEPT !.head.own = k, !.tail.own = k]}
      BY <1>5 DEF Pick
    <3> QED BY <3>1, <3>2
  <2>2. config'.head.mode = config.head.mode
    <3>1. config \in ContentType
      BY DEF Base, Types, CfgType
    <3>2. CASE config' = [config EXCEPT !.head.own = k, !.tail.own = k]
      BY <3>1, <3>2 DEF ContentType
    <3> QED BY <2>1, <3>2
  <2>3. task[t].at = "pick" /\ UNCHANGED <<coreVars, missed>>
    BY <1>5 DEF Pick, At
  <2> QED BY <2>1, <2>2, <2>3, ComparedSame DEF PickTo, Pending, Moded, Loading
<1>6. CASE Check(t)
  BY <1>6, ComparedCheck
<1>7. CASE End(t)
  <2>1. Only(t) /\ task'[t] = Idle /\ task[t].at = "end" /\ config' = config
        /\ UNCHANGED <<core, rst_bare, rst_magic, rst_mode, wired_rst, missed>>
    BY <1>7, EndEffect DEF End, At, Base, coreVars
  <2>2. \A p \in Tasks : Pending(p)' = Pending(p) /\ (Moded(p) => Moded(p)')
                         /\ (task'[p].at \in Loading => task[p].at \in Loading)
    BY <2>1, IdleType DEF Only, Pending, Moded, Loading
  <2>3. TwoPending' = TwoPending /\ ((\E p \in Tasks : Moded(p)) => (\E p \in Tasks : Moded(p)'))
    BY <2>2 DEF TwoPending
  <2> QED BY <2>1, <2>2, <2>3 DEF Compared
<1> QED BY <1>1, <1>2, <1>3, <1>4, <1>5, <1>6, <1>7

(* A call that begins, with a change of the modes or without: another one  *)
(* that is pending makes two.                                              *)
LEMMA ComparedBegin ==
  ASSUME Compared, NEW t \in Tasks, NEW call, task[t].at = "idle", Began(t, call),
         \A o \in Tasks : o # t => Meets(o), UNCHANGED <<coreVars, missed>>,
         \/ call.at \in Updating
         \/ config' = config /\ call.at \in {"init", "end"}
  PROVE  Compared'
<1>1. PICK o \in Tasks : o # t /\ \A p \in Tasks : p = t \/ p = o
  BY BtIsTask
<1>2. ~Pending(t) /\ ~Moded(t) /\ ~TwoPending
  BY DEF Pending, Moded, TwoPending
<1>3. Pending(o)' = Pending(o) /\ Moded(o)' = Moded(o) /\ task'[o].at = task[o].at
      /\ task'[t].at = call.at
  BY <1>1 DEF Pending, Moded, Meets, Began
<1>4. UNCHANGED <<core, rst_bare, rst_magic, rst_mode, wired_rst, missed>>
  BY DEF coreVars
<1>5. CASE Pending(o) /\ call.at # "end"
  <2>1. TwoPending'
    BY <1>1, <1>3, <1>5 DEF TwoPending, Pending, Updating
  <2>2. ~(\A p \in Tasks : ~Pending(p)')
    BY <2>1, <1>1 DEF TwoPending
  <2> QED BY <1>4, <2>1, <2>2 DEF Compared
<1>6. CASE ~Pending(o) /\ call.at # "end"
  <2>1. \A p \in Tasks : ~Pending(p) /\ ~Moded(p)
    BY <1>1, <1>2, <1>6 DEF Moded
  <2>2. Pending(t)'
    BY <1>3, <1>6 DEF Pending, Updating
  <2>3. task'[o].at \notin Loading
    BY <1>3, <1>6 DEF Pending, Loading
  <2>4. task'[t].at \in Loading => config' = config
    BY <1>3, <1>6 DEF Loading, Updating
  <2>5. rst_magic # -1 => rst_mode = config.head.mode
    BY <2>1 DEF Compared
  <2>6. rst_bare /\ rst_magic = 3 /\ ~missed => wired_rst \/ core = rst_mode
    BY <1>2, <2>1 DEF Compared
  <2> QED BY <1>1, <1>4, <2>2, <2>3, <2>4, <2>5, <2>6 DEF Compared
<1>7. CASE call.at = "end"
  <2>1. config' = config
    BY <1>7 DEF Updating
  <2>2. \A p \in Tasks : Pending(p)' = Pending(p) /\ (Moded(p) => Moded(p)')
                         /\ (task'[p].at \in Loading => task[p].at \in Loading)
    BY <1>1, <1>2, <1>3, <1>7 DEF Pending, Loading
  <2>3. TwoPending' = TwoPending /\ ((\E p \in Tasks : Moded(p)) => (\E p \in Tasks : Moded(p)'))
    BY <2>2 DEF TwoPending
  <2> QED BY <1>4, <2>1, <2>2, <2>3 DEF Compared
<1> QED BY <1>5, <1>6, <1>7

(* The actions that start a call keep Compared. *)
LEMMA ComparedCalls ==
  ASSUME Base, Compared,
         \/ (\E mode \in Modes : WriteHead(mode)) \/ WriteTail \/ Exec \/ SetDefault \/ SetGameId
         \/ (\E k \in Keys : DelFile(k))
         \/ \E g \in Games \cup {"none"} : GidUpdate(g)
  PROVE  Compared'
<1>1. PICK t \in Tasks, call \in TaskRec :
        /\ Began(t, call) /\ (\A o \in Tasks : o # t => Meets(o)) /\ task[t].at = "idle"
        /\ UNCHANGED <<coreVars, missed>>
        /\ call.at \in Updating \/ (config' = config /\ call.at \in {"init", "end"})
  <2> DEFINE P(t, call) ==
        /\ Began(t, call) /\ (\A o \in Tasks : o # t => Meets(o)) /\ task[t].at = "idle"
        /\ UNCHANGED <<coreVars, missed>>
        /\ call.at \in Updating \/ (config' = config /\ call.at \in {"init", "end"})
  <2>1. ASSUME NEW S \in SUBSET Edits, Began("bt", Save(S)),
               \A o \in Tasks : o # "bt" => Meets(o), task["bt"].at = "idle",
               UNCHANGED <<coreVars, missed>>
        PROVE  \E call \in TaskRec : P("bt", call)
    <3>1. Save(S) \in TaskRec /\ Save(S).at = "update"
      BY SaveType DEF Base
    <3> QED BY <2>1, <3>1 DEF Updating
  <2>2. ASSUME NEW mode \in Modes, WriteHead(mode) PROVE \E call \in TaskRec : P("bt", call)
    BY <2>1, <2>2, WriteHeadEffect, EventFacts DEF WriteHead, Begin, At, Base, Types
  <2>3. ASSUME WriteTail PROVE \E call \in TaskRec : P("bt", call)
    BY <2>1, <2>3, BtIsTask, WriteTailEffect, EventFacts DEF WriteTail, Begin, At, Base, Types
  <2>4. ASSUME Exec PROVE \E call \in TaskRec : P("bt", call)
    <3>1. prepared \in SUBSET Edits
      BY DEF Base, Types, HistType
    <3> QED BY <2>1, <2>4, <3>1, BtIsTask, ExecEffect DEF Exec, Begin, At, Base
  <2>5. ASSUME NEW d \in {"default", "gameid"}, NEW e \in Ends, NEW t \in Tasks,
               Began(t, Call("init", d, e)), \A o \in Tasks : o # t => Meets(o),
               task[t].at = "idle", UNCHANGED <<coreVars, missed>>, config' = config
        PROVE  \E call \in TaskRec : P(t, call)
    <3>1. PICK a \in Ats : a = "init"
      BY DEF Ats
    <3>2. PICK call : call = Call(a, d, e)
      OBVIOUS
    <3>3. call \in TaskRec /\ call.at = "init"
      BY <3>1, <3>2, CallType
    <3>4. Began(t, call)
      BY <2>5, <3>1, <3>2
    <3> QED BY <2>5, <3>3, <3>4
  <2>6. ASSUME SetDefault PROVE \E call \in TaskRec : P("bt", call)
    <3>1. PICK d \in {"default", "gameid"}, e \in Ends : d = "default" /\ e = "rm_gid"
      BY DEF Ends
    <3>2. /\ Began("bt", Call("init", d, e)) /\ (\A o \in Tasks : o # "bt" => Meets(o))
          /\ task["bt"].at = "idle" /\ UNCHANGED <<coreVars, missed>> /\ config' = config
      BY <2>6, <3>1, SetDefaultEffect DEF SetDefault, Begin, At, Base, cfgVars
    <3> QED BY <2>5, <3>2, BtIsTask
  <2>7. ASSUME NEW g \in Games \cup {"none"}, GidUpdate(g)
        PROVE  \E call \in TaskRec : P("fb", call)
    <3>1. PICK d \in {"default", "gameid"}, e \in Ends : d = "gameid" /\ e = "none"
      BY DEF Ends
    <3>2. /\ Began("fb", Call("init", d, e)) /\ (\A o \in Tasks : o # "fb" => Meets(o))
          /\ task["fb"].at = "idle" /\ UNCHANGED <<coreVars, missed>> /\ config' = config
      BY <2>7, <3>1, GidUpdateEffect DEF GidUpdate, Begin, At, Base, cfgVars
    <3> QED BY <2>5, <3>2, BtIsTask
  <2>8. ASSUME SetGameId PROVE \E call \in TaskRec : P("bt", call)
    <3>1. PICK call \in TaskRec :
            call = [Call("update", "gameid", "copied") EXCEPT !.home = Current]
      BY SetType DEF Base
    <3>2. call.at = "update"
      BY <3>1, SetType DEF Base
    <3>3. P("bt", call)
      BY <2>8, <3>1, <3>2, SetGameIdEffect DEF SetGameId, Begin, At, Base, Updating
    <3> QED BY <3>3, BtIsTask
  <2>9. ASSUME NEW k \in Keys, DelFile(k) PROVE \E call \in TaskRec : P("bt", call)
    <3>1. PICK call \in TaskRec :
            call = [Call(IF k = gid THEN "init" ELSE "end", "default", "remove") EXCEPT !.arg = k]
      BY DelType DEF Base
    <3>2. call.at \in {"init", "end"}
      BY <3>1, DelType DEF Base
    <3>3. P("bt", call)
      BY <2>9, <3>1, <3>2, DelFileEffect DEF DelFile, Begin, At, Base, cfgVars
    <3> QED BY <3>3
  <2>10. \E t \in Tasks : \E call \in TaskRec : P(t, call)
    <3> DEFINE Started == \E t \in Tasks : \E call \in TaskRec : P(t, call)
    <3>1. ASSUME NEW t \in Tasks, \E call \in TaskRec : P(t, call) PROVE Started
      BY <3>1
    <3>2. ASSUME NEW mode \in Modes, WriteHead(mode) PROVE Started
      BY <2>2, <3>1, <3>2, BtIsTask
    <3>3. ASSUME NEW g \in Games \cup {"none"}, GidUpdate(g) PROVE Started
      BY <2>7, <3>1, <3>3, BtIsTask
    <3>4. ASSUME NEW k \in Keys, DelFile(k) PROVE Started
      BY <2>9, <3>1, <3>4, BtIsTask
    <3>5. ASSUME WriteTail \/ Exec \/ SetDefault \/ SetGameId PROVE Started
      <4>1. \E call \in TaskRec : P("bt", call)
        BY <2>3, <2>4, <2>6, <2>8, <3>5
      <4> QED BY <3>1, <4>1, BtIsTask
    <3> HIDE DEF P, Started
    <3>6. Started
      BY <3>2, <3>3, <3>4, <3>5
    <3> QED BY <3>6 DEF Started
  <2> QED BY <2>10
<1> QED BY <1>1, ComparedBegin

(* A core that starts reads the mode that is, or is to be, recorded. *)
LEMMA ComparedCore ==
  ASSUME Base, Compared, CoreStart \/ WiredReset PROVE Compared'
<1>1. config.head.mode \in Modes /\ config' = config /\ task' = task
  BY ContentFacts DEF CoreStart, WiredReset, cfgVars, Base, Types, CfgType
<1>2. config.head.mode # -1
  BY <1>1 DEF Modes
<1>3. \A t \in Tasks : Pending(t)' = Pending(t) /\ Moded(t)' = Moded(t)
  BY <1>1 DEF Pending, Moded
<1>4. TwoPending' = TwoPending
  BY <1>3 DEF TwoPending
<1>5. CASE CoreStart
  <2>1. core = -1 /\ core' = config.head.mode /\ rst_bare' = TRUE /\ rst_magic' = rst_magic
        /\ rst_mode' = rst_mode /\ wired_rst' = wired_rst /\ missed' = missed
    BY <1>5 DEF CoreStart, histVars
  <2>2. rst_magic = -1
    BY <2>1 DEF Compared
  <2> QED BY <1>2, <2>1, <2>2 DEF Compared
<1>6. CASE WiredReset
  <2>1. /\ wired_rst /\ wired_rst' = FALSE /\ core' = config.head.mode
        /\ missed' = (~Quiet /\ (missed \/ \E t \in Tasks : task[t].chain < CONFIG_VERSION))
        /\ rst_bare' = rst_bare /\ rst_magic' = rst_magic /\ rst_mode' = rst_mode
    BY <1>6 DEF WiredReset
  <2>2. rst_bare
    BY <2>1 DEF Compared
  <2>3. ASSUME rst_magic = 3, ~missed', ~TwoPending
        PROVE  core' = rst_mode \/ (core' = config.head.mode /\ \E t \in Tasks : Moded(t))
    <3>1. CASE \A t \in Tasks : ~Pending(t)
      BY <2>1, <2>3, <3>1 DEF Compared
    <3>2. CASE \E t \in Tasks : Pending(t)
      <4>1. PICK t \in Tasks : Pending(t)
        BY <3>2
      <4>2. CASE task[t].at \in Loading
        BY <2>1, <2>3, <4>2 DEF Compared
      <4>3. CASE task[t].at \notin Loading
        <5>1. ~Quiet
          BY <4>1 DEF Quiet, At, Pending
        <5>2. ~(task[t].chain < 3) /\ task[t].chain \in 0..3
          BY <2>1, <2>3, <5>1, TaskFacts DEF CONFIG_VERSION, Base, Types
        <5>3. task[t].chain = 3
          BY <5>2
        <5> QED BY <2>1, <4>1, <4>3, <5>3 DEF Moded
      <4> QED BY <4>2, <4>3
    <3> QED BY <3>1, <3>2
  <2> QED BY <1>1, <1>2, <1>3, <1>4, <2>1, <2>2, <2>3 DEF Compared
<1> QED BY <1>5, <1>6

(* The actions that change neither the modes nor a task keep Compared. *)
LEMMA ComparedQuiet ==
  ASSUME Compared, UNCHANGED <<core, rst_bare, rst_magic, rst_mode, wired_rst, missed, task>>,
         config'.head.mode = config.head.mode
  PROVE  Compared'
  BY DEF Compared, Pending, TwoPending, Moded

(* After a restart no core runs. *)
LEMMA ComparedBoot ==
  ASSUME core' = -1, rst_bare' = FALSE, rst_magic' = -1, wired_rst' = FALSE
  PROVE  Compared'
  BY DEF Compared

(* Compared through every step. *)
LEMMA ComparedNext ==
  ASSUME Base, Compared, [Next]_vars PROVE Compared'
<1>1. ASSUME NEW t \in Tasks,
             \/ InitSrc(t) \/ Choose(t) \/ Load(t) \/ Upgrade(t) \/ UpdateSrc(t) \/ Pick(t)
             \/ Open(t) \/ Write(t) \/ Check(t) \/ End(t)
      PROVE  Compared'
  BY <1>1, ComparedSteps
<1>2. CASE \/ (\E mode \in Modes : WriteHead(mode)) \/ WriteTail \/ Exec \/ SetDefault
           \/ SetGameId \/ (\E k \in Keys : DelFile(k))
           \/ \E g \in Games \cup {"none"} : GidUpdate(g)
  BY <1>2, ComparedCalls
<1>3. CASE Prepare
  <2>1. config' = [config EXCEPT !.tail.edits = config.tail.edits \cup {events + 1}]
        /\ UNCHANGED <<core, rst_bare, rst_magic, rst_mode, wired_rst, missed, task>>
    BY <1>3 DEF Prepare, coreVars
  <2>2. config'.head.mode = config.head.mode
    BY <2>1 DEF Base, Types, CfgType, ContentType
  <2> QED BY <2>1, <2>2, ComparedQuiet
<1>4. CASE Cancel \/ OtaStart \/ OtaEnd \/ UNCHANGED vars
  <2>1. UNCHANGED <<core, rst_bare, rst_magic, rst_mode, wired_rst, missed, task, config>>
    BY <1>4 DEF Cancel, OtaStart, OtaEnd, vars, cfgVars, coreVars, histVars
  <2> QED BY <2>1, ComparedQuiet
<1>5. CASE CoreStart \/ WiredReset
  BY <1>5, ComparedCore
<1>6. CASE Cut
  BY <1>6, ComparedBoot DEF Cut
<1> QED BY <1>1, <1>2, <1>3, <1>4, <1>5, <1>6 DEF Next

(***************************************************************************)
(* The inductive invariant, and what follows from it.                      *)
(***************************************************************************)
IInv == Base /\ Settings /\ Compared

(* The inductive invariant holds at the first start. *)
LEMMA StartIInv == Init => IInv
<1> SUFFICES ASSUME Init PROVE IInv
  OBVIOUS
<1>1. core = -1 /\ rst_bare = FALSE /\ rst_magic = -1 /\ wired_rst = FALSE
  BY DEF Init
<1>2. Compared
  BY <1>1 DEF Compared
<1> QED BY <1>2, BaseInit, SettingsInit DEF IInv

(* Every step keeps it. *)
LEMMA StepIInv == IInv /\ [Next]_vars => IInv'
  BY SettingsNext, ComparedNext DEF IInv

(* It holds in every state. *)
LEMMA SpecIInv == Spec => []IInv
  BY StartIInv, StepIInv, PTL DEF Spec

(* The settings files: each is the one in use or its own, whatever         *)
(* commands, games and restarts follow one another.                        *)
THEOREM FilesOwn == Spec => []Inv
<1>1. IInv => TypeOK
  BY DEF IInv, Base, Types, CfgType, GidType, CoreType, HistType, TaskType, TaskRec, FileRec,
         TypeOK, CONFIG_VERSION
<1>2. IInv => SourceBacked
  <2> SUFFICES ASSUME IInv, Quiet, up, Current \notin harmed
               PROVE  /\ config.head.own = Current /\ config.tail.own = Current
                      /\ config_src = "gameid" => gid \in Games /\ file[gid].len # "absent"
    BY DEF SourceBacked
  <2>1. Current \in Keys
    BY CurrentNamed, BtIsTask DEF IInv, Base, Quiet, At
  <2>2. Owned(config, Current, 1) /\ Backed(Current, {})
    BY <2>1 DEF IInv, Settings, AtRest, InUse
  <2>3. config_src = "gameid" => gid \in Games /\ gid # "default" /\ Current = gid
    BY <2>1, KeyFacts DEF Current, IInv, Base, Types, GidType
  <2> QED BY <2>2, <2>3 DEF Owned, Backed
<1>3. IInv => FilesApart
  <2> SUFFICES ASSUME IInv, NEW k \in Keys \ harmed, file[k].len = "full",
                      file[k].data.magic = CONFIG_VERSION, ~Busy(k)
               PROVE  /\ file[k].data.head.own = k /\ file[k].data.tail.own = k
                      /\ file[k].data.tail.combos = 1
    BY DEF FilesApart
  <2>1. Whole(k)
    BY DEF IInv, Settings, Files, Sound
  <2>2. ~Upgrader(k)
    BY DEF Busy, Upgrader, At
  <2> QED BY <2>1, <2>2 DEF Whole, Owned, CONFIG_VERSION
<1> QED BY <1>1, <1>2, <1>3, SpecIInv, PTL DEF Inv

(* A setting the web page was told is stored stays in the file it was      *)
(* meant for: through other edits, changes of game, upgrades and restarts. *)
THEOREM SettingsStay == Spec => []SettingsKept
<1>1. IInv => SettingsKept
  <2> SUFFICES ASSUME IInv, NEW k \in Keys \ harmed, ~Busy(k)
               PROVE  promise[k] \subseteq file[k].data.head.edits \cup file[k].data.tail.edits
    BY DEF SettingsKept
  <2>1. Sound(k)
    BY DEF IInv, Settings, Files
  <2>2. ~Writer(k)
    BY DEF Busy, Writer, At
  <2> QED BY <2>1, <2>2 DEF Sound, Holds
<1> QED BY <1>1, SpecIInv, PTL

(* The wired core runs with the modes of the configuration in use or is    *)
(* about to be started again (config_is_rst_required).                     *)
THEOREM CoreInStep == Spec => []CoreFollows
<1>1. IInv => CoreFollows
  <2> SUFFICES ASSUME IInv, Quiet, rst_bare, rst_magic = 3, ~missed
               PROVE  core = config.head.mode \/ wired_rst
    BY DEF CoreFollows, CONFIG_VERSION
  <2>1. \A t \in Tasks : ~Pending(t) /\ ~Moded(t)
    BY DEF Quiet, At, Pending, Moded
  <2>2. ~TwoPending
    BY <2>1, BtIsTask DEF TwoPending
  <2>3. rst_mode = config.head.mode
    BY <2>1 DEF IInv, Compared
  <2> QED BY <2>1, <2>2, <2>3 DEF IInv, Compared
<1> QED BY <1>1, SpecIInv, PTL
=============================================================================
