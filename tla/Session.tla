------------------------------ MODULE Session ------------------------------
(***************************************************************************)
(* A BR/EDR controller from its connection to its HID initialisation:      *)
(* authentication (hci.c), the L2CAP channels (l2cap.c), the SDP queries   *)
(* (sdp.c), their evaluation by bt_host_task (host.c) and bt_hid_init with *)
(* its one second timer (hidp/).  One slot, and the peers that get it in   *)
(* turn.                                                                   *)
(*                                                                         *)
(* The controller's callback handles a packet or an event to its end, so   *)
(* each is one action.  bt_host_task runs below it and is cut between its  *)
(* looks at the slot; the init timer runs in the esp_timer task.  What a   *)
(* peer owes the host is a bag it draws from in any order.  Commands whose *)
(* answer the host does not look at are left out, and so is the channel a  *)
(* peer opens for queries of its own, on which nothing else depends.       *)
(***************************************************************************)
EXTENDS Naturals, Bags

CONSTANTS
  MaxMore,  \* bound: answers of a peer that announce a continuation
  SdpSize,  \* BT_SDP_DATA_SIZE in answers: what exceeds it is dropped
  MaxExtra, \* bound: times a peer opens or configures more than is needed
  MaxConn   \* bound: connections

ASSUME SessionAssumption ==
  MaxMore \in Nat /\ SdpSize \in Nat \ {0} /\ MaxExtra \in Nat /\ MaxConn \in Nat

Types == {"generic", "timed"}  \* timed: PS3 and PS4 have an init timer
Chans == {"sdp_tx", "ctrl", "intr"}
Flags == {"page", "sdp_tx_pending", "ctrl_pending", "intr_pending", "intr_ready",
          "init_done", "sdp_data"}
Packets == {"name", "auth", "conn_req", "conn_rsp", "conf_req", "conf_rsp", "svc", "pnp"}

VARIABLES
  up,        \* the slot is found and has a handle
  flags,     \* bt_dev.flags
  type,      \* bt_dev.ids.type
  known,     \* the channels whose dcid is set
  sdp_state, \* bt_dev.sdp_state
  sdp, pnp,  \* base.sdp_data and base.pnp_data with their lengths
  timers,    \* bag: init timers running, for "here", the present owner, or one "gone"
  ht,        \* where bt_host_task is: "idle", "pnp", "sdp", "init", "clear"
  old_type,  \* its local variable
  due,       \* bag: what the controller and the peer still have to send
  more,      \* bound: continuations left
  extra,     \* bound: see MaxExtra
  conns,     \* bound
  odd,       \* history: this peer did more than is needed
  failed,    \* history: authentication or a channel was refused
  lateName,  \* history: the name came when the interrupt channel was ready
  stale,     \* history: bt_host_task or a timer was at work when the slot changed hands
  initFor    \* history: the type bt_hid_init was run for

taskVars == <<timers, ht, old_type>>
bufVars == <<sdp_state, sdp, pnp>>
boundVars == <<more, extra, conns>>
sessionHist == <<odd, failed, lateName, stale>>
sessionVars == <<up, flags, type, known, bufVars, taskVars, due, boundVars, sessionHist, initFor>>
-----------------------------------------------------------------------------
(* Buffers: allocated or not, answers counted, and what is in it.  Freeing *)
(* keeps the length.                                                       *)
Buffers == [mem : BOOLEAN, len : 0..SdpSize, has : SUBSET {"svc", "desc", "pnp", "junk"}]
NoBuf == [mem |-> FALSE, len |-> 0, has |-> {}]

Add(b, what, size) ==
  LET room == b.len < size
  IN [mem |-> TRUE, len |-> IF room THEN b.len + 1 ELSE b.len,
      has |-> b.has \cup (IF ~b.mem /\ b.len > 0 THEN {"junk"} ELSE {})
                    \cup (IF room THEN {what} ELSE {})]

Freed(b) == [b EXCEPT !.mem = FALSE, !.has = {}]

Set(S) == SetToBag(S)
AtWork == ht # "idle" \/ timers # EmptyBag

SessionInit ==
  /\ up = FALSE /\ flags = {} /\ type = "none" /\ known = {}
  /\ sdp_state = 0 /\ sdp = NoBuf /\ pnp = NoBuf
  /\ timers = EmptyBag /\ ht = "idle" /\ old_type = "none" /\ due = EmptyBag
  /\ more = MaxMore /\ extra = MaxExtra /\ conns = 0
  /\ odd = FALSE /\ failed = FALSE /\ lateName = FALSE /\ stale = FALSE /\ initFor = "none"

(* Inquiry result or connection request, then CONN_COMPLETE; the slot is   *)
(* reset when it is taken.  A peer that connects by itself (page) opens    *)
(* the channels too, the control channel first.                            *)
Connect(page) ==
  /\ ~up /\ conns < MaxConn
  /\ up' = TRUE /\ conns' = conns + 1
  /\ flags' = IF page THEN {"page"} ELSE {}
  /\ type' = "generic" /\ known' = {} /\ sdp_state' = 0 /\ sdp' = NoBuf /\ pnp' = NoBuf
  /\ due' = Set({<<"name", "-">>} \cup (IF page THEN {<<"conn_req", "ctrl">>} ELSE {}))
  /\ more' = MaxMore
  /\ odd' = FALSE /\ failed' = FALSE /\ lateName' = FALSE /\ initFor' = "none"
  /\ stale' = AtWork
  /\ UNCHANGED <<taskVars, extra>>

DisconnectKeeps ==  \* mutant: only the link is forgotten
  /\ up
  /\ up' = FALSE
  /\ due' = EmptyBag
  /\ stale' = AtWork
  /\ UNCHANGED <<flags, type, known, bufVars, taskVars, boundVars, odd, failed, lateName, initFor>>

(* bt_host_reset_dev: the memory of an SDP query is leaked, and a timer    *)
(* that runs keeps the address of the slot.                                *)
Disconnect ==
  /\ up
  /\ up' = FALSE
  /\ flags' = {} /\ type' = "none" /\ known' = {}
  /\ sdp_state' = 0 /\ sdp' = NoBuf /\ pnp' = NoBuf
  /\ due' = EmptyBag
  /\ timers' = [t \in {"gone" : u \in BagToSet(timers)} |-> BagCardinality(timers)]
  /\ stale' = AtWork
  /\ initFor' = "none"
  /\ UNCHANGED <<ht, old_type, boundVars, odd, failed, lateName>>
-----------------------------------------------------------------------------
(* What arrives.  Comes(p, ch, ask) takes a packet out of the bag and puts *)
(* in what the peer owes for the answer.                                   *)
Comes(p, ch, ask) ==
  /\ BagIn(<<p, ch>>, due)
  /\ due' = (due (-) Set({<<p, ch>>})) (+) Set(ask)

NameDone(t) ==
  /\ Comes("name", "-", IF "page" \in flags THEN {} ELSE {<<"auth", "-">>})
  /\ type' = t
  /\ lateName' = ("intr_ready" \in flags)
  /\ UNCHANGED <<up, flags, known, bufVars, taskVars, boundVars, odd, failed, stale, initFor>>

(* Only a success goes on, with the control channel. *)
AuthComplete(err) ==
  /\ Comes("auth", "-", IF err THEN {} ELSE {<<"conn_rsp", "ctrl">>})
  /\ failed' = (failed \/ err)
  /\ UNCHANGED <<up, flags, type, known, bufVars, taskVars, boundVars, odd, lateName, stale, initFor>>

PassiveAlways(ch) == ch = "ctrl"  \* mutant: never waits for the control channel

(* The control channel of a peer that opens it itself: nobody waits for it. *)
Passive(ch) == ch = "ctrl" /\ "page" \in flags

(* The channel is accepted, and both sides configure it. *)
ConnReq(ch) ==
  /\ Comes("conn_req", ch, ({"conf_req", "conf_rsp"} \X {ch}) \cup
                           IF ch = "ctrl" /\ Passive(ch) THEN {<<"conn_req", "intr">>} ELSE {})
  /\ known' = known \cup {ch}
  /\ UNCHANGED <<up, flags, type, bufVars, taskVars, boundVars, sessionHist, initFor>>

(* A refusal is not looked at. *)
ConnRsp(ch, err) ==
  /\ Comes("conn_rsp", ch, IF err THEN {} ELSE {"conf_req", "conf_rsp"} \X {ch})
  /\ known' = IF err THEN known ELSE known \cup {ch}
  /\ failed' = (failed \/ err)
  /\ UNCHANGED <<up, flags, type, bufVars, taskVars, boundVars, odd, lateName, stale, initFor>>

(* bt_hid_init: a type without a timer is ready at once. *)
HidInit(f) ==
  /\ initFor' = type
  /\ flags' = IF type = "timed" THEN f ELSE f \cup {"init_done"}
  /\ timers' = IF type = "timed" THEN timers (+) Set({"here"}) ELSE timers

Pending(ch) == CASE ch = "sdp_tx" -> "sdp_tx_pending"
                 [] ch = "ctrl" -> "ctrl_pending"
                 [] OTHER -> "intr_pending"

SecondAlways(ch) == TRUE  \* mutant: does not wait for the other direction
Second(ch) == Pending(ch) \in flags

(* What the peer owes for the request that follows a channel's second      *)
(* configuration message: the service, the next channel.                   *)
Follows(ch) == CASE ch = "sdp_tx" -> <<"svc", "-">>
                 [] ch = "ctrl" -> <<"conn_rsp", "intr">>
                 [] OTHER -> <<"conn_rsp", "sdp_tx">>

(* CONF_REQ and CONF_RSP: the first message of a channel is noted, each    *)
(* further one opens what comes next; nothing tells the two apart.         *)
Configured(p, ch) ==
  /\ Comes(p, ch, IF Second(ch) /\ ~Passive(ch) THEN {Follows(ch)} ELSE {})
  /\ IF Passive(ch) \/ (Second(ch) /\ ch # "intr")
       THEN UNCHANGED <<flags, timers, initFor>>
       ELSE IF Second(ch) THEN HidInit(flags \cup {"intr_ready"})
       ELSE flags' = flags \cup {Pending(ch)} /\ UNCHANGED <<timers, initFor>>
  /\ UNCHANGED <<up, type, known, bufVars, ht, old_type, boundVars, sessionHist>>

(* The answers of the HID service, then those of PnP information; the      *)
(* state alone tells which is which.                                       *)
SdpRsp(what, last) ==
  /\ last \/ more > 0
  /\ more' = IF last THEN more ELSE more - 1
  /\ IF sdp_state = 0
       THEN /\ Comes(what, "-", {IF last THEN <<"pnp", "-">> ELSE <<"svc", "-">>})
            /\ sdp' = Add(sdp, IF what = "svc" /\ last THEN "desc" ELSE what, SdpSize)
            /\ sdp_state' = IF last THEN 1 ELSE 0
            /\ UNCHANGED <<pnp, flags>>
       ELSE /\ Comes(what, "-", IF last THEN {} ELSE {<<"pnp", "-">>})
            /\ pnp' = Add(pnp, what, SdpSize)
            /\ flags' = IF last THEN flags \cup {"sdp_data"} ELSE flags
            /\ UNCHANGED <<sdp, sdp_state>>
  /\ UNCHANGED <<up, type, known, taskVars, extra, conns, sessionHist, initFor>>

(* Beyond what is needed: the peer opens a channel the host opens too, or  *)
(* configures one again.                                                   *)
PeerExtra(p, ch) ==
  /\ up /\ extra > 0 /\ extra' = extra - 1
  /\ \/ p = "conn_req" /\ ch \in {"ctrl", "intr"}
     \/ p = "conf_req" /\ ch \in known
  /\ due' = due (+) Set({<<p, ch>>})
  /\ odd' = TRUE
  /\ UNCHANGED <<up, flags, type, known, bufVars, taskVars, more, conns, failed, lateName, stale,
                 initFor>>
-----------------------------------------------------------------------------
(* bt_host_task, every 20 ms *)

HtTest ==
  /\ ht = "idle" /\ up /\ "sdp_data" \in flags
  /\ ht' = "pnp" /\ old_type' = type
  /\ UNCHANGED <<up, flags, type, known, bufVars, timers, due, boundVars, sessionHist, initFor>>

(* Vendor and product are read from pnp_data, which is freed. *)
HtPnp ==
  /\ ht = "pnp" /\ ht' = "sdp"
  /\ pnp' = Freed(pnp)
  /\ UNCHANGED <<up, flags, type, known, sdp_state, sdp, timers, old_type, due, boundVars, sessionHist,
                 initFor>>

(* The reports are parsed, and sdp_data freed, if it has a descriptor. *)
HtSdp ==
  /\ ht = "sdp" /\ ht' = "init"
  /\ sdp' = IF "desc" \in sdp.has THEN Freed(sdp) ELSE sdp
  /\ UNCHANGED <<up, flags, type, known, sdp_state, pnp, timers, old_type, due, boundVars, sessionHist,
                 initFor>>

(* A name that came meanwhile changed the type. *)
HtInit ==
  /\ ht = "init" /\ ht' = "clear"
  /\ IF type # old_type /\ "intr_ready" \in flags
       THEN HidInit(flags)
       ELSE UNCHANGED <<flags, timers, initFor>>
  /\ UNCHANGED <<up, type, known, bufVars, old_type, due, boundVars, sessionHist>>

HtClear ==
  /\ ht = "clear" /\ ht' = "idle"
  /\ flags' = flags \ {"sdp_data"}
  /\ UNCHANGED <<up, type, known, bufVars, timers, old_type, due, boundVars, sessionHist, initFor>>

(* The init callback of PS3 and PS4, on whatever the slot is by then. *)
InitTimer(t) ==
  /\ BagIn(t, timers)
  /\ timers' = timers (-) Set({t})
  /\ flags' = flags \cup {"init_done"}
  /\ UNCHANGED <<up, type, known, bufVars, ht, old_type, due, boundVars, sessionHist, initFor>>
-----------------------------------------------------------------------------
Arrives ==
  \/ \E t \in Types : NameDone(t)
  \/ \E err \in BOOLEAN : AuthComplete(err) \/ \E ch \in Chans : ConnRsp(ch, err)
  \/ \E ch \in Chans : ConnReq(ch) \/ \E p \in {"conf_req", "conf_rsp"} : Configured(p, ch)
  \/ \E what \in {"svc", "pnp"}, last \in BOOLEAN : SdpRsp(what, last)

HostTask == HtTest \/ HtPnp \/ HtSdp \/ HtInit \/ HtClear
TimerTask == \E t \in {"here", "gone"} : InitTimer(t)

SessionNext ==
  \/ \E page \in BOOLEAN : Connect(page)
  \/ Disconnect \/ Arrives \/ HostTask \/ TimerTask
  \/ \E p \in {"conn_req", "conf_req"}, ch \in Chans : PeerExtra(p, ch)

SessionSpec == SessionInit /\ [][SessionNext]_sessionVars

(* Events and packets are handled, a peer that stays connected sends what  *)
(* it owes, the tasks run and timers expire.                               *)
SessionFair == SessionSpec /\ WF_sessionVars(Arrives) /\ WF_sessionVars(HostTask) /\ WF_sessionVars(TimerTask)
-----------------------------------------------------------------------------
(* Every variable stays in its domain. *)
SessionTypes ==
  /\ up \in BOOLEAN /\ flags \subseteq Flags /\ type \in Types \cup {"none"}
  /\ known \subseteq Chans /\ sdp_state \in {0, 1}
  /\ {sdp, pnp} \subseteq Buffers
  /\ BagToSet(timers) \subseteq {"here", "gone"} /\ ht \in {"idle", "pnp", "sdp", "init", "clear"}
  /\ BagToSet(due) \subseteq Packets \X (Chans \cup {"-"})

(* What bt_host_task parses is what was asked for: the PnP answer in       *)
(* pnp_data, whose fields it reads without looking whether they are there, *)
(* and the service's in sdp_data, in memory of their own, unless the peer  *)
(* repeated itself or the slot changed hands since the flag was tested.    *)
SdpSound ==
  "sdp_data" \in flags /\ ht \in {"idle", "pnp"} =>
    odd \/ stale \/ (pnp.mem /\ pnp.has = {"pnp"} /\ sdp.mem /\ sdp.has \subseteq {"svc", "desc"})

(* The type invariant and SdpSound, checked together. *)
SessionSound == SessionTypes /\ SdpSound

(* A slot that counts as initialised has both HID channels, configured,    *)
(* and was initialised as what it is, unless its name came after the       *)
(* interrupt channel was ready, as it may when the peer connects by        *)
(* itself, or a task or timer was at work on the slot when it changed      *)
(* hands.                                                                  *)
InitSound ==
  "init_done" \in flags =>
    \/ stale
    \/ /\ up /\ "intr_ready" \in flags
       /\ odd \/ {"ctrl", "intr"} \subseteq known
       /\ initFor = type \/ lateName

(* A peer that stays and is not refused gets initialised. *)
SessionReady == up ~> ("init_done" \in flags \/ failed \/ ~up)
=============================================================================
