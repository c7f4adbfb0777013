----------------------------- MODULE LeSession -----------------------------
(***************************************************************************)
(* An LE controller from its connection to its first report: the key or    *)
(* the pairing (smp.c, hci.c), the discovery of its HID service over ATT   *)
(* (att_hid.c) and, for a Switch 2 controller, the commands of sw2.c that  *)
(* share hid_state with the discovery.  One slot.                          *)
(*                                                                         *)
(* Everything runs in the controller's callback, a packet or an event at a *)
(* time.  The link keeps the order: owed holds what the peer still has to  *)
(* answer.  The controller answers random numbers and encryptions in       *)
(* order, and each answer finds its callback in a ring of its own: asked.  *)
(* Values, names and handles are left out; reports are numbered.           *)
(***************************************************************************)
EXTENDS Naturals, Sequences, SequencesExt, FiniteSetsExt

CONSTANTS
  MaxReport, \* HID_MAX_REPORT
  MaxMore,   \* bound: answers that are continued
  MaxErr,    \* bound: errors the peer returns
  MaxConn    \* bound: connections

Flags == {"intr_pending", "intr_ready", "init_done", "calib_set"}

DiscoverySwapped ==  \* mutant: reports are told before it is known which of them notify
  <<"name", "appearance", "pnp", "group", "find", "cfg", "map", "ref", "prop", "ppcp", "batt", "init">>

\* The states of the discovery, in their order, and what each asks for
Discovery == <<"name", "appearance", "pnp", "group", "find", "prop", "map", "ref", "cfg", "ppcp",
               "batt", "init">>
\* The states of the Switch 2 commands
Sw2 == <<"info", "ltk", "bdaddr", "new_ltk", "left", "right", "user", "led", "reports">>
Final == Len(Discovery) - 1

StateOf(name) == CHOOSE s \in 0..Final : Discovery[s + 1] = name
Sw2Of(s) == IF s + 1 \in DOMAIN Sw2 THEN Sw2[s + 1] ELSE "reports"

VARIABLES
  up, flags, hid_state,  \* bt_dev: found, flags, hid_state
  type,                  \* bt_dev.ids.type: "generic" or "sw2"
  ltk,                   \* what the key store has for the peer: "none", "ltk", "full"
  rdist,                 \* bt_dev.rdist: the keys that are still to come
  found, props, report_idx, written,
                         \* att_hid: the reports, those that notify, the index, and those told to
  asked,                 \* ring of callbacks: <<what, whether the slot is still the asker's>>
  enc,                   \* encryption: "off", "asked", "stk", "on", "failed"
  owed,                  \* what the peer has to answer, in order
  peer,                  \* the peer: "generic" or "sw2"
  bond,                  \* the key it has for the host, as ltk
  more, errs, conns,     \* bounds
  stale,                 \* history: an answer was given to a slot that changed hands
  derailed,              \* history: a Switch 2 controller refused a write
  dead                   \* history: pairing failed, or no report was found

attVars == <<hid_state, found, props, report_idx, written>>
keyVars == <<ltk, rdist, enc, bond>>
boundVars == <<more, errs, conns>>
histVars == <<stale, derailed, dead>>
vars == <<up, flags, type, attVars, keyVars, asked, owed, peer, boundVars, histVars>>

Init ==
  /\ up = FALSE /\ flags = {} /\ type = "none" /\ hid_state = 0
  /\ ltk = "none" /\ rdist = {} /\ enc = "off"
  /\ found = 0 /\ props = {} /\ report_idx = 0 /\ written = {}
  /\ asked = <<>> /\ owed = <<>>
  /\ peer \in {"generic", "sw2"} /\ bond = "none"
  /\ more = MaxMore /\ errs = MaxErr /\ conns = 0
  /\ stale = FALSE /\ derailed = FALSE /\ dead = FALSE

Owe(items) == owed' = owed \o items
Answers(item) == up /\ owed # <<>> /\ Head(owed) = item
Rest(items) == owed' = Tail(owed) \o items
-----------------------------------------------------------------------------
(* HCI: connection, encryption, and its end *)

(* Advertising report and LE_CONN_COMPLETE: with a key the link is         *)
(* encrypted, without one the peer is paired.                              *)
Connect ==
  /\ ~up /\ conns < MaxConn /\ conns' = conns + 1
  /\ up' = TRUE /\ flags' = {} /\ type' = "generic" /\ hid_state' = 0 /\ rdist' = {}
  /\ enc' = (IF ltk = "none" THEN "off" ELSE "asked")
  /\ Owe(IF ltk = "none" THEN <<"pairing">> ELSE <<>>)
  /\ stale' = FALSE /\ derailed' = FALSE /\ dead' = FALSE
  /\ UNCHANGED <<found, props, report_idx, written, ltk, bond, asked, peer, more, errs>>

(* The callbacks under way keep the slot's address. *)
Disconnect ==
  /\ up /\ up' = FALSE
  /\ flags' = {} /\ type' = "none" /\ hid_state' = 0 /\ rdist' = {} /\ enc' = "off" /\ owed' = <<>>
  /\ asked' = [i \in DOMAIN asked |-> <<asked[i][1], FALSE>>]
  /\ UNCHANGED <<ltk, found, props, report_idx, written, peer, bond, boundVars, histVars>>

PeerForgets ==
  /\ ~up /\ bond # "none" /\ bond' = "none"
  /\ UNCHANGED <<up, flags, type, attVars, ltk, rdist, enc, asked, owed, peer, boundVars, histVars>>

AttInitTwice(next) ==  \* mutant: every caller starts it
  /\ flags' = flags \cup {"intr_pending"}
  /\ found' = 0 /\ props' = {} /\ report_idx' = 0 /\ written' = {}
  /\ owed' = Append(next, "mtu")

(* bt_att_hid_init: the first caller starts the discovery. *)
AttInit(next) ==
  IF "intr_pending" \in flags
    THEN /\ owed' = next /\ UNCHANGED <<flags, found, props, report_idx, written>>
    ELSE /\ flags' = flags \cup {"intr_pending"}
         /\ found' = 0 /\ props' = {} /\ report_idx' = 0 /\ written' = {}
         /\ owed' = Append(next, "mtu")

(* ENCRYPT_CHANGE.  After a failure the key is forgotten and the link      *)
(* closed; after the pairing's own encryption the peer hands out its keys. *)
EncryptChange ==
  /\ up /\ enc \in {"asked", "stk"}
  /\ IF enc = "asked" /\ ltk # bond
       THEN /\ ltk' = "none" /\ enc' = "failed"
            /\ UNCHANGED <<flags, owed, found, props, report_idx, written, bond>>
       ELSE /\ enc' = "on"
            /\ bond' = IF enc = "stk" THEN (IF rdist = {} THEN "none" ELSE "full") ELSE bond
            /\ AttInit(owed \o IF enc = "stk" /\ rdist # {} THEN <<"enc_info", "ident">> ELSE <<>>)
            /\ UNCHANGED ltk
  /\ UNCHANGED <<up, type, hid_state, rdist, asked, peer, boundVars, histVars>>
-----------------------------------------------------------------------------
(* SMP *)

(* PAIRING_RSP asks for a random number in two halves.  A refusal is       *)
(* printed.                                                                *)
PairingRsp(keys) ==
  /\ Answers("pairing") /\ Rest(<<>>)
  /\ rdist' = keys
  /\ asked' = asked \o <<<<"rand_half", TRUE>>, <<"rand", TRUE>>>>
  /\ UNCHANGED <<up, flags, type, attVars, ltk, enc, bond, peer, boundVars, histVars>>

PairingFail ==
  /\ Answers("pairing") /\ Rest(<<>>) /\ dead' = TRUE
  /\ UNCHANGED <<up, flags, type, attVars, keyVars, asked, peer, boundVars, stale, derailed>>

PairingConfirm ==
  /\ Answers("confirm") /\ Rest(<<"random">>)
  /\ UNCHANGED <<up, flags, type, attVars, keyVars, asked, peer, boundVars, histVars>>

(* The keys' end, or a peer that has none, starts the discovery: here      *)
(* before the link is encrypted.                                           *)
PairingRandom ==
  /\ Answers("random")
  /\ asked' = Append(asked, <<"stk", TRUE>>)
  /\ IF rdist = {} THEN AttInit(Tail(owed))
                   ELSE Rest(<<>>) /\ UNCHANGED <<flags, found, props, report_idx, written>>
  /\ UNCHANGED <<up, type, hid_state, keyVars, peer, boundVars, histVars>>

(* Both parts are stored as they come. *)
EncryptInfo ==
  /\ Answers("enc_info") /\ Rest(<<>>)
  /\ ltk' = (IF ltk = "none" THEN "ltk" ELSE ltk)
  /\ UNCHANGED <<up, flags, type, attVars, rdist, enc, bond, asked, peer, boundVars, histVars>>

MasterIdent ==
  /\ Answers("ident")
  /\ rdist' = rdist \ {"enc"} /\ ltk' = "full"
  /\ AttInit(Tail(owed))
  /\ UNCHANGED <<up, type, hid_state, enc, bond, asked, peer, boundVars, histVars>>

(* LE_RAND and LE_ENCRYPT complete: the callback at the head of the ring   *)
(* runs on the slot as it is.                                              *)
Callback ==
  /\ asked # <<>>
  /\ LET what == Head(asked)[1]
         mine == Head(asked)[2]
         next == CASE what = "rand" -> <<<<"half", mine>>>>
                   [] what = "half" -> <<<<"confirm", mine>>>>
                   [] OTHER -> <<>>
     IN /\ asked' = Tail(asked) \o next
        /\ Owe(IF what = "confirm" /\ up /\ mine THEN <<"confirm">> ELSE <<>>)
        /\ enc' = IF what = "stk" /\ up /\ mine THEN "stk" ELSE enc
        /\ stale' = (stale \/ (up /\ ~mine))
  /\ UNCHANGED <<up, flags, type, attVars, ltk, rdist, bond, peer, boundVars, derailed, dead>>
-----------------------------------------------------------------------------
(* Switch 2 commands: bt_hid_sw2_exec_next_state, bt_hid_sw2_init *)

Exec(s) == IF Sw2Of(s) = "reports" THEN <<"write", "write">> ELSE <<Sw2Of(s)>>

Sw2Init(f, s, next) ==
  /\ owed' = next \o <<"write">> \o Exec(s)
  /\ flags' = f \cup {"init_done"}

(* Every acknowledge goes on, whatever it acknowledges: the state alone    *)
(* says what was read.  A key that is the stored one skips the pairing.    *)
Sw2Ack(same) ==
  /\ up /\ owed # <<>> /\ Head(owed) \in Range(Sw2)
  /\ LET at == Sw2Of(hid_state)
         spi == Head(owed) \notin {"led", "bdaddr"}
         s == hid_state + (IF same THEN 3 ELSE 1)
     IN /\ same => spi /\ at = "ltk" /\ ltk # "none"
        /\ hid_state' = s
        /\ Rest(Exec(s))
        /\ ltk' = IF spi /\ at = "new_ltk" /\ ltk = "none" THEN "ltk" ELSE ltk
        /\ bond' = IF spi /\ at = "new_ltk" THEN ltk' ELSE bond
        /\ flags' = IF spi /\ at = "user" THEN flags \cup {"calib_set"} ELSE flags
  /\ UNCHANGED <<up, type, found, props, report_idx, written, rdist, enc, asked, peer, boundVars,
                 histVars>>
-----------------------------------------------------------------------------
(* bt_att_hid_start_next_state, with the start of what it enters: the      *)
(* Switch 2 commands, the first report to be told to notify, or the end.   *)
NextState(next) ==
  IF type' = "sw2" /\ "init_done" \notin flags
    THEN Sw2Init(flags, hid_state, next) /\ UNCHANGED <<hid_state, report_idx, written>>
    ELSE LET none == hid_state + 1 = StateOf("cfg") /\ props' = {}
             s == hid_state + IF none THEN 2 ELSE 1
         IN /\ hid_state' = s
            /\ IF s = StateOf("init")
                 THEN IF type' = "sw2" THEN Sw2Init(flags \cup {"intr_ready"}, s, next)
                                       ELSE flags' = flags \cup {"intr_ready", "init_done"} /\ owed' = next
                 ELSE /\ owed' = IF s > Final THEN next ELSE Append(next, Discovery[s + 1])
                      /\ UNCHANGED flags
            /\ IF s = StateOf("cfg")
                 THEN /\ report_idx' = Min(props') + 1
                      /\ written' = written \cup {Min(props')}
                 ELSE /\ report_idx' = IF s = StateOf("ref") THEN 0 ELSE report_idx
                      /\ UNCHANGED written

Again(next, item) ==
  /\ owed' = Append(next, item)
  /\ UNCHANGED <<flags, hid_state, written>>

Stuck(next) == owed' = next /\ UNCHANGED <<flags, hid_state, report_idx, written>>

(* process_state_func: what an answer does in the present state.  data is  *)
(* FALSE for an error, cont TRUE when there is more to read.               *)
Process(data, cont, next) ==
  LET s == IF hid_state <= Final THEN Discovery[hid_state + 1] ELSE "init"
      c == data /\ cont
  IN CASE s = "name" ->
            IF c THEN Again(next, "name_blob") /\ UNCHANGED <<type, found, props, report_idx, dead>>
                 ELSE /\ type' = IF data THEN peer ELSE type
                      /\ NextState(next) /\ UNCHANGED <<found, props, dead>>
       [] s \in {"group", "find", "prop"} /\ c ->
            Again(next, s) /\ UNCHANGED <<type, found, props, report_idx, dead>>
       [] s = "find" /\ ~c ->
            /\ found' \in IF data THEN 0..MaxReport ELSE {found}
            /\ UNCHANGED <<type, props, dead>>
            /\ NextState(next)
       [] s = "prop" /\ ~c ->
            /\ props' \in IF data THEN SUBSET (0..(found - 1)) ELSE {props}
            /\ UNCHANGED <<type, found, dead>>
            /\ NextState(next)
       [] s = "map" /\ c -> Again(next, "map_blob") /\ UNCHANGED <<type, found, props, report_idx, dead>>
       [] s = "map" /\ ~c /\ found <= report_idx ->
            Stuck(next) /\ dead' = TRUE /\ UNCHANGED <<type, found, props>>
       [] s = "ref" /\ data /\ report_idx + 1 < found ->
            /\ report_idx' = report_idx + 1
            /\ Again(next, "ref") /\ UNCHANGED <<type, found, props, dead>>
       [] s = "cfg" /\ (\E i \in props : i >= report_idx) ->
            LET i == Min({j \in props : j >= report_idx})
            IN /\ report_idx' = i + 1 /\ written' = written \cup {i}
               /\ owed' = Append(next, "cfg")
               /\ UNCHANGED <<flags, hid_state, type, found, props, dead>>
       [] s = "init" -> Stuck(next) /\ UNCHANGED <<type, found, props, dead>>
       [] OTHER -> UNCHANGED <<type, found, props, dead>> /\ NextState(next)

\* The operation that answers, and the states that take it
Op == [name |-> "type", appearance |-> "type", pnp |-> "type", prop |-> "type", ppcp |-> "type",
       batt |-> "type", group |-> "group", find |-> "find", map |-> "read", ref |-> "read",
       name_blob |-> "blob", map_blob |-> "blob", cfg |-> "write", write |-> "write"]
Takers == [type |-> {"name", "appearance", "pnp", "prop", "ppcp", "batt"}, group |-> {"group"},
           find |-> {"find"}, read |-> {"name", "map", "ref"}, blob |-> {"name", "map"},
           write |-> {"cfg"}]
Taken(item) == hid_state <= Final /\ Discovery[hid_state + 1] \in Takers[Op[item]]

MtuRsp ==
  /\ Answers("mtu")
  /\ IF "intr_ready" \in flags THEN Rest(<<>>) /\ UNCHANGED hid_state
                               ELSE Rest(<<"name">>) /\ hid_state' = 0
  /\ UNCHANGED <<up, flags, type, found, props, report_idx, written, keyVars, asked, peer, boundVars,
                 histVars>>

(* A read answered with data, in a state that takes it or is printed for.  *)
AttRsp(cont) ==
  /\ up /\ owed # <<>> /\ Head(owed) \in DOMAIN Op
  /\ cont => more > 0
  /\ Head(owed) = "group" => cont  \* only an error ends the services
  /\ more' = IF cont THEN more - 1 ELSE more
  /\ IF "intr_ready" \notin flags /\ Taken(Head(owed))
       THEN Process(TRUE, cont, Tail(owed))
       ELSE Stuck(Tail(owed)) /\ UNCHANGED <<type, found, props, dead>>
  /\ UNCHANGED <<up, keyVars, asked, peer, errs, conns, stale, derailed>>

AttErrorIgnored ==  \* mutant: an error changes nothing
  /\ up /\ owed # <<>> /\ Head(owed) \in DOMAIN Op \cup {"mtu"}
  /\ Rest(<<>>)
  /\ UNCHANGED <<up, flags, type, attVars, keyVars, asked, peer, boundVars, histVars>>

(* An error counts for the present state, whatever it answers. *)
AttError ==
  /\ up /\ owed # <<>> /\ Head(owed) \in DOMAIN Op \cup {"mtu"}
  /\ Head(owed) = "group" \/ errs > 0
  /\ errs' = IF Head(owed) = "group" THEN errs ELSE errs - 1
  /\ derailed' = (derailed \/ Head(owed) = "write")
  /\ IF "intr_ready" \notin flags
       THEN Process(FALSE, FALSE, Tail(owed))
       ELSE Stuck(Tail(owed)) /\ UNCHANGED <<type, found, props, dead>>
  /\ UNCHANGED <<up, keyVars, asked, peer, more, conns, stale>>
-----------------------------------------------------------------------------
Arrives ==
  \/ EncryptChange \/ Callback
  \/ (\E keys \in {{}, {"enc"}} : PairingRsp(keys)) \/ PairingFail
  \/ PairingConfirm \/ PairingRandom \/ EncryptInfo \/ MasterIdent
  \/ (\E same \in BOOLEAN : Sw2Ack(same))
  \/ MtuRsp \/ (\E cont \in BOOLEAN : AttRsp(cont)) \/ AttError

Closed == enc = "failed" /\ Disconnect

Next == Connect \/ Disconnect \/ PeerForgets \/ Arrives

Spec == Init /\ [][Next]_vars

(* Events come, the peer answers, and a link the host closes ends. *)
FairSpec == Spec /\ WF_vars(Arrives) /\ WF_vars(Closed)
-----------------------------------------------------------------------------
(* Every variable stays in its domain. *)
TypeOK ==
  /\ up \in BOOLEAN /\ flags \subseteq Flags /\ type \in {"none", "generic", "sw2"}
  /\ hid_state \in 0..(Final + 4)
  /\ ltk \in {"none", "ltk", "full"} /\ bond \in {"none", "ltk", "full"} /\ rdist \subseteq {"enc"}
  /\ enc \in {"off", "asked", "stk", "on", "failed"}
  /\ found \in 0..MaxReport /\ report_idx \in 0..MaxReport
  /\ props \cup written \subseteq 0..(MaxReport - 1)

(* Answers carry no tag: they are told apart by hid_state alone.  A        *)
(* controller that is not a Switch 2 one owes at most one answer of the    *)
(* discovery, the one the present state waits for.                         *)
InStep ==
  peer = "generic" /\ ~stale =>
    LET att == {i \in DOMAIN owed : owed[i] \in DOMAIN Op \cup {"mtu"}}
    IN /\ \A i, j \in att : i = j
       /\ \A i \in att : owed[i] = "mtu" \/ Taken(owed[i])

Inv == TypeOK /\ InStep

(* A controller that counts as ready was told to notify of every report    *)
(* that can, or as a Switch 2 controller has its calibration read, unless  *)
(* it refused a write or an answer meant for a former owner reached it.    *)
ReadySound ==
  "intr_ready" \in flags =>
    \/ stale \/ derailed
    \/ /\ up /\ props \subseteq written
       /\ type = "sw2" => {"init_done", "calib_set"} \subseteq flags

(* A controller that stays is in the end ready, unless its pairing failed  *)
(* or it has no report; one whose key is gone is paired again.             *)
LeOver == "intr_ready" \in flags \/ dead \/ stale \/ derailed \/ ~up
=============================================================================
