------------------------------ MODULE WiiInit ------------------------------
(***************************************************************************)
(* A Wii Remote and what is plugged into it (bluetooth/hidp/wii.c), on one *)
(* slot of bt_dev[]: after a status report that something was plugged, a   *)
(* chain of writes and reads wakes the extension and asks for its type;    *)
(* hid_state tells which request an acknowledgement is about.              *)
(*                                                                         *)
(* Requests and answers keep their order.  The remote stops reporting when *)
(* the extension changes, until it is told the report mode again; what is  *)
(* not woken by both writes, in this order, does not tell its type.        *)
(***************************************************************************)
EXTENDS Naturals, Sequences

CONSTANTS
  MaxPlug,  \* bound: extensions plugged in during a connection
  MaxFail   \* bound: writes that fail with an extension plugged

VARIABLES
  type, hid_state,  \* of the slot; type is "none" or "wii"
  subtype, init,    \* ids.subtype; BT_INIT, a report of this subtype was decoded
  plugged,          \* "none", "nunchuk" or "classic"
  woken, eight,     \* writes the extension had; it reports in 8 bits
  reporting,
  reqs, rsps,       \* requests and answers under way
  plugs, fails,
  crossed           \* history: an answer to an older request met the present chain

vars == <<type, hid_state, subtype, init, plugged, woken, eight, reporting, reqs, rsps, plugs,
          fails, crossed>>
remote == <<plugged, woken, eight, reporting, plugs, fails>>

SET_INIT0 == 0
SET_8BIT  == 3
Beyond    == 5   \* every value above GET_8BIT behaves alike

ExecSwapped(s) ==   \* mutant: the two writes that wake an extension in the other order
  IF s = Beyond THEN reqs ELSE Append(reqs, <<"init1", "init0", "type", "8bit", "type">>[s + 1])
\* bt_wii_exec_next_state
Exec(s) ==
  IF s = Beyond THEN reqs ELSE Append(reqs, <<"init0", "init1", "type", "8bit", "type">>[s + 1])
RepMode == Append(reqs, "rep")

Init ==
  /\ type = "none" /\ hid_state = SET_INIT0 /\ subtype = "default" /\ init = FALSE
  /\ plugged = "none" /\ woken = 0 /\ eight = FALSE /\ reporting = FALSE
  /\ reqs = <<>> /\ rsps = <<>> /\ plugs = 0 /\ fails = 0 /\ crossed = FALSE

\* bt_hid_wii_init
HidWiiInit ==
  /\ type = "none" /\ type' = "wii" /\ reqs' = RepMode
  /\ UNCHANGED <<hid_state, subtype, init, remote, rsps, crossed>>

\* bt_host_reset_dev
Leave ==
  /\ type = "wii"
  /\ type' = "none" /\ hid_state' = SET_INIT0 /\ subtype' = "default" /\ init' = FALSE
  /\ plugged' = "none" /\ woken' = 0 /\ eight' = FALSE /\ reporting' = FALSE
  /\ reqs' = <<>> /\ rsps' = <<>> /\ plugs' = 0 /\ fails' = 0 /\ crossed' = FALSE
-----------------------------------------------------------------------------
(* The remote *)

Plug(ext) ==
  /\ type = "wii" /\ plugged = "none" /\ plugs < MaxPlug
  /\ plugged' = ext /\ plugs' = plugs + 1 /\ reporting' = FALSE
  /\ rsps' = Append(rsps, <<"status", "plugged">>)
  /\ UNCHANGED <<type, hid_state, subtype, init, woken, eight, reqs, fails, crossed>>

Unplug ==
  /\ plugged # "none"
  /\ plugged' = "none" /\ woken' = 0 /\ eight' = FALSE /\ reporting' = FALSE
  /\ rsps' = Append(rsps, <<"status", "empty">>)
  /\ UNCHANGED <<type, hid_state, subtype, init, reqs, plugs, fails, crossed>>

ExtType ==
  IF plugged = "none" \/ woken < 2 THEN "unknown"
  ELSE IF plugged = "classic" /\ eight THEN "classic 8bit" ELSE plugged

Serve ==
  LET req == Head(reqs) IN
  /\ reqs # <<>> /\ reqs' = Tail(reqs)
  /\ \/ /\ req = "rep" /\ reporting' = TRUE
        /\ UNCHANGED <<woken, eight, fails, rsps>>
     \/ /\ req = "type" /\ rsps' = Append(rsps, <<"data", ExtType>>)
        /\ UNCHANGED <<reporting, woken, eight, fails>>
     \/ /\ req \in {"init0", "init1", "8bit"}
        /\ plugged = "none" \/ fails < MaxFail
        /\ fails' = IF plugged = "none" THEN fails ELSE fails + 1
        /\ rsps' = Append(rsps, <<"ack", "error">>)
        /\ UNCHANGED <<reporting, woken, eight>>
     \/ /\ req \in {"init0", "init1", "8bit"} /\ plugged # "none"
        /\ woken' = CASE req = "init0" -> 1
                      [] req = "init1" /\ woken = 1 -> 2
                      [] OTHER -> woken
        /\ eight' = (eight \/ req = "8bit")
        /\ rsps' = Append(rsps, <<"ack", "done">>)
        /\ UNCHANGED <<reporting, fails>>
  /\ UNCHANGED <<type, hid_state, subtype, init, plugged, plugs, crossed>>

\* A report of an extension that tells its type; one at a time is under way
Sends ==
  /\ reporting /\ ExtType # "unknown" /\ \A i \in DOMAIN rsps : rsps[i][1] # "report"
  /\ rsps' = Append(rsps, <<"report", ExtType>>)
  /\ UNCHANGED <<type, hid_state, subtype, init, remote, reqs, crossed>>
-----------------------------------------------------------------------------
(* bt_hid_wii_hdlr *)

Received(kind) == rsps # <<>> /\ Head(rsps)[1] = kind /\ rsps' = Tail(rsps)
What == Head(rsps)[2]

Status ==
  /\ Received("status")
  /\ subtype' = "default" /\ init' = FALSE
  /\ IF What = "plugged"
     THEN /\ hid_state' = SET_INIT0 /\ reqs' = Exec(SET_INIT0)
          /\ crossed' = ((\E i \in DOMAIN reqs : reqs[i] # "rep")
                         \/ \E i \in DOMAIN rsps' : rsps'[i][1] = "ack")
     ELSE reqs' = RepMode /\ UNCHANGED <<hid_state, crossed>>
  /\ UNCHANGED <<type, remote>>

RdData ==
  /\ Received("data")
  /\ IF What = "unknown" THEN UNCHANGED <<subtype, init>> ELSE subtype' = What /\ init' = FALSE
  /\ IF What = "classic" /\ hid_state < SET_8BIT
     THEN hid_state' = SET_8BIT /\ reqs' = Exec(SET_8BIT)
     ELSE reqs' = RepMode /\ UNCHANGED hid_state
  /\ UNCHANGED <<type, remote, crossed>>

Ack ==
  /\ Received("ack")
  /\ hid_state' = IF What = "error" \/ hid_state = Beyond THEN hid_state ELSE hid_state + 1
  /\ reqs' = Exec(hid_state')
  /\ UNCHANGED <<type, subtype, init, remote, crossed>>

\* wiic_to_generic, wiic_8bit_to_generic: the first report tells the one from the other
Report ==
  /\ Received("report")
  /\ IF {subtype, What} = {"classic", "classic 8bit"} /\ ~init
     THEN subtype' = What /\ UNCHANGED init
     ELSE init' = TRUE /\ UNCHANGED subtype
  /\ UNCHANGED <<type, hid_state, remote, reqs, crossed>>

Handle == Status \/ RdData \/ Ack \/ Report

Next ==
  \/ HidWiiInit \/ Leave
  \/ \E ext \in {"nunchuk", "classic"} : Plug(ext)
  \/ Unplug \/ Serve \/ Sends \/ Handle

Spec == Init /\ [][Next]_vars /\ WF_vars(Serve) /\ WF_vars(Handle)
-----------------------------------------------------------------------------
TypeOK ==
  /\ type \in {"none", "wii"} /\ hid_state \in 0..Beyond /\ init \in BOOLEAN
  /\ subtype \in {"default", "nunchuk", "classic", "classic 8bit"}
  /\ plugged \in {"none", "nunchuk", "classic"} /\ woken \in 0..2 /\ eight \in BOOLEAN
  /\ reporting \in BOOLEAN /\ plugs \in 0..MaxPlug /\ fails \in 0..MaxFail /\ crossed \in BOOLEAN

Quiet == type = "wii" /\ reqs = <<>> /\ rsps = <<>>

\* When nothing is under way, the remote reports; and what is plugged was woken, told to
\* use 8 bits if it can, and is decoded as what it says it is, in the format it uses,
\* unless acknowledgements of an older chain moved this one
ExtKnown ==
  Quiet =>
    /\ reporting
    /\ plugged # "none" => woken = 2 \/ crossed
    /\ plugged = "classic" => eight \/ crossed
    /\ subtype = (IF ExtType = "unknown" THEN "default" ELSE ExtType) \/ crossed

\* A remote that stopped reporting is told to report again, whatever was plugged or
\* unplugged meanwhile
Silent == type = "wii" /\ ~reporting
Resumed == type = "none" \/ reporting
=============================================================================
