------------------------------ MODULE Keyboard ------------------------------
(***************************************************************************)
(* The keyboard of a port (adapter/kb_monitor.c with the codes of the      *)
(* Saturn and PlayStation drivers): the changes between two reports become *)
(* make and break codes in a queue core 1 takes them from, and a timer     *)
(* repeats the make code of the key pressed last (set_typematic is left    *)
(* on, as the PlayStation and CD-i drivers do).                            *)
(*                                                                         *)
(* Reports are handled in the callback of the Bluetooth controller, which  *)
(* preempts the esp_timer task.  The codes of a report enter the queue in  *)
(* one step: FbQueue has what happens when producers overlap inside it.    *)
(***************************************************************************)
EXTENDS Naturals, SequencesExt

CONSTANTS
  Ctrls, Keys,   \* controllers mapped to the port; keys, in the order of their numbers
  Drives,        \* map_mask: the keys the mapping of each controller drives
  CodeMax        \* codes of the queue, 31 in the code

VARIABLES
  last,               \* the keys each controller pressed in its last report
  keys_state,
  armed, tm_key_id,   \* the typematic timer
  cb,                 \* kbmon_typematic_cb: before its code, or before the timer is restarted
  scq,                \* codes <<type, key>>
  typed,              \* history: the keys the console believes are pressed
  excused,            \* history: keys about which it may be wrong
  runaway             \* history: keys that may repeat while nobody holds them

vars == <<last, keys_state, armed, tm_key_id, cb, scq, typed, excused, runaway>>

Init ==
  /\ last = [c \in Ctrls |-> {}] /\ keys_state = {}
  /\ armed = FALSE /\ tm_key_id \in Keys /\ cb = "idle" /\ scq = <<>>
  /\ typed = {} /\ excused = {} /\ runaway = {}

\* kbmon_set_code: what finds no room is dropped
Kept(codes) == SubSeq(scq \o codes, 1, Min({CodeMax, Len(scq \o codes)}))
Dropped(codes) == {codes[i][2] : i \in {j \in DOMAIN codes : Len(scq) + j > CodeMax}}

\* A set of keys in the order of their numbers
Sorted(keys) ==
  CHOOSE s \in [1..Cardinality(keys) -> keys] : \A i, j \in DOMAIN s : i < j => s[i] < s[j]

\* kbmon_update: every change is remembered, those of keys the mapping does not drive too
Changes(keys) == (keys \ keys_state) \cup (keys_state \ keys)
Codes(keys, changed) ==
  [i \in DOMAIN changed |-> <<IF changed[i] \in keys THEN "make" ELSE "break", changed[i]>>]

Restarted(keys, changed) ==
  IF changed = <<>> THEN armed ELSE Last(changed) \in keys

Report(c) ==
  \E keys \in SUBSET Drives[c] :
    LET changed == Sorted(Changes(keys) \cap Drives[c])
        codes == Codes(keys, changed)
        mine == {changed[i] : i \in DOMAIN changed}
        key == IF mine \cap keys = {} THEN tm_key_id ELSE Max(mine \cap keys)
        \* the callback was preempted and goes on with a key that was just released
        crossed == IF cb # "idle" /\ mine # {} /\ ~Restarted(keys, changed) /\ key \notin keys
                   THEN {key} ELSE {}
    IN /\ last' = [last EXCEPT ![c] = keys]
       /\ keys_state' = keys
       /\ scq' = Kept(codes)
       /\ tm_key_id' = key /\ armed' = Restarted(keys, changed)
       /\ excused' = (excused \ mine) \cup Dropped(codes) \cup crossed
                       \cup (Changes(keys) \ Drives[c])
       /\ runaway' = (IF mine = {} THEN runaway ELSE {}) \cup crossed
                       \cup (last[c] \ (keys \cup keys_state))
       /\ UNCHANGED <<cb, typed>>

\* A controller leaves: nothing tells the monitor
Leave(c) ==
  /\ last' = [last EXCEPT ![c] = {}] /\ runaway' = runaway \cup last[c]
  /\ UNCHANGED <<keys_state, armed, tm_key_id, cb, scq, typed, excused>>

\* kbmon_typematic_cb in the esp_timer task
Expire ==
  /\ armed /\ cb = "idle" /\ armed' = FALSE /\ cb' = "code"
  /\ UNCHANGED <<last, keys_state, tm_key_id, scq, typed, excused, runaway>>
Repeat ==
  /\ cb = "code" /\ cb' = "start"
  /\ scq' = Kept(<<<<"make", tm_key_id>>>>)
  /\ UNCHANGED <<last, keys_state, armed, tm_key_id, typed, excused, runaway>>
Restart ==
  /\ cb = "start" /\ cb' = "idle" /\ armed' = TRUE  \* refused if it is started already
  /\ UNCHANGED <<last, keys_state, tm_key_id, scq, typed, excused, runaway>>

\* The console asks for a code (set_saturn_keyboard, ps_cmd_rsp_hdlr) and gets it, or
\* stops asking before it has it all
Take ==
  /\ scq # <<>> /\ scq' = Tail(scq)
  /\ LET code == Head(scq)
     IN \/ /\ typed' = IF code[1] = "make" THEN typed \cup {code[2]} ELSE typed \ {code[2]}
           /\ UNCHANGED excused
        \/ excused' = excused \cup {code[2]} /\ UNCHANGED typed
  /\ UNCHANGED <<last, keys_state, armed, tm_key_id, cb, runaway>>

Next ==
  \/ \E c \in Ctrls : Report(c) \/ Leave(c)
  \/ Expire \/ Repeat \/ Restart \/ Take
-----------------------------------------------------------------------------
TypeOK ==
  /\ last \in [Ctrls -> SUBSET Keys] /\ keys_state \subseteq Keys
  /\ armed \in BOOLEAN /\ tm_key_id \in Keys /\ cb \in {"idle", "code", "start"}
  /\ Len(scq) <= CodeMax
  /\ typed \subseteq Keys /\ excused \subseteq Keys /\ runaway \subseteq Keys

\* What the console will believe once it has taken every code
Believed(k) ==
  \/ k \in typed /\ \A i \in DOMAIN scq : scq[i][2] # k
  \/ \E i \in DOMAIN scq : scq[i] = <<"make", k>> /\ \A j \in DOMAIN scq : j > i => scq[j][2] # k

\* The codes tell the console what the last report said, but for keys whose code was
\* dropped or broke off, whose change another controller's report hid, and the key whose
\* repeat was preempted by its release
CodesAgree == \A k \in Keys : (Believed(k) <=> k \in keys_state) \/ k \in excused

\* A key repeats only while a controller holds it, but for those a departed controller
\* held, whose release was hidden, or whose repeat was preempted by their release: these
\* repeat until another key changes
RepeatHeld ==
  armed \/ cb # "idle" =>
    tm_key_id \in runaway \/ \E c \in Ctrls : tm_key_id \in last[c]

KeyboardInv == TypeOK /\ CodesAgree /\ RepeatHeld
=============================================================================
