----------------------------- MODULE HciConfig -----------------------------
(***************************************************************************)
(* The start-up configuration of the controller in bluetooth/hci.c: a      *)
(* table of commands of which each is sent when the one before completes.  *)
(* A completion is recognised by its opcode alone, and commands that links *)
(* and the button send at run time have opcodes of the table, so their     *)
(* completions move the chain as well, retry it or restart it.             *)
(*                                                                         *)
(* The controller takes commands in order and completes each.  What it     *)
(* does with a command and what the host does with the completion is one   *)
(* step: neither looks at anything the other changes in between.           *)
(***************************************************************************)
EXTENDS Naturals, Sequences

CONSTANTS
  NKey,      \* number of stored LE addresses
  MaxRetry,  \* BT_MAX_RETRY
  MaxRun,    \* bound: groups of commands sent at run time
  MaxFail    \* bound: completions with an error

ASSUME HciConfigAssumption ==
  /\ NKey \in Nat /\ MaxRetry \in Nat /\ MaxRun \in Nat /\ MaxFail \in Nat

(* The table, each run of rows that only set or read something as one.     *)
bt_hci_config == <<"reset", "read_bd_addr", "plain", "clear_wl", "load_accept",
                   "plain", "adv_enable", "start_inquiry">>

Size     == Len(bt_hci_config)
Row(s)   == bt_hci_config[s + 1]
LoadRow  == 4
LastRow  == Size - 1
Keys     == 1..NKey

VARIABLES
  bt_config_state,  \* next row; Size stands for every value past the table
  bt_hci_pkt_retry,
  accept_index,     \* cursor of bt_host_get_next_accept_le_bdaddr
  appended,         \* times the address was appended to local_name, up to 2
  cmdq,             \* commands under way, in order
  configured,       \* controller: rows done since it was reset
  wl,               \* controller: its accept list
  runs, fails,      \* bounds: run time commands sent, errors so far
  crossed,          \* history: a completion not of the chain may have moved it
  restarted,        \* history: the chain was restarted
  addFailed         \* history: a command that adds an address failed

hostVars == <<bt_config_state, bt_hci_pkt_retry, accept_index, appended>>
ctlVars  == <<configured, wl>>
vars == <<hostVars, ctlVars, cmdq, runs, fails, crossed, restarted, addFailed>>
-----------------------------------------------------------------------------
(* A command of the table carries its row, one of the run time Size.       *)
Cmd(op, r, k) == [op |-> op, row |-> r, key |-> k]

Add(r, k) == Cmd("add_wl", r, k)
Scan(r)   == <<Cmd("scan", r, 0), Cmd("scan", r, 0), Cmd("scan", r, 0)>>

(* What a row sends; load_accept is left to QConf.                         *)
Commands(s) == IF s = Size THEN <<>>
               ELSE IF s = LastRow THEN Scan(s)
               ELSE <<Cmd(Row(s), s, 0)>>

Init ==
  /\ bt_config_state = 0 /\ bt_hci_pkt_retry = 0
  /\ accept_index = 0 /\ appended = 0
  /\ cmdq = Commands(0)
  /\ configured = {} /\ wl = {}
  /\ runs = 0 /\ fails = 0
  /\ crossed = FALSE /\ restarted = FALSE /\ addFailed = FALSE
-----------------------------------------------------------------------------
MoreKeys == accept_index < NKey

(* bt_hci_q_conf(next), after which q is still under way.  The row that    *)
(* loads the accept list sends the next address, or goes on when the       *)
(* cursor is at the end.                                                   *)
QConf(s, q, retry) ==
  IF s = LoadRow
    THEN IF MoreKeys
           THEN /\ bt_config_state' = s
                /\ cmdq' = Append(q, Add(s, accept_index + 1))
                /\ accept_index' = accept_index + 1
                /\ bt_hci_pkt_retry' = retry
           ELSE /\ bt_config_state' = s + 1
                /\ cmdq' = q \o Commands(s + 1)
                /\ bt_hci_pkt_retry' = 0
                /\ UNCHANGED accept_index
    ELSE /\ bt_config_state' = s
         /\ cmdq' = q \o Commands(s)
         /\ bt_hci_pkt_retry' = retry
         /\ UNCHANGED accept_index

NextRow == IF bt_config_state = Size THEN Size ELSE bt_config_state + 1

(* bt_hci_init: from the first row again, whatever else is under way.      *)
Restart(q) ==
  /\ bt_config_state' = 0
  /\ bt_hci_pkt_retry' = 0
  /\ cmdq' = q \o Commands(0)
  /\ restarted' = TRUE
  /\ crossed' = (crossed \/ q # <<>>)
  /\ UNCHANGED accept_index

(* bt_hci_set_device_name, when the address was read. *)
NameOnSuccess(c, ok) ==
  IF c.op = "read_bd_addr" /\ ok /\ appended < 2 THEN appended + 1 ELSE appended

(* What the controller did with the command.                               *)
Execute(c) ==
  CASE c.op = "reset"    -> configured' = {c.row} /\ wl' = {}
    [] c.op = "clear_wl" -> configured' = configured \cup {c.row} /\ wl' = {}
    [] c.op = "add_wl"   -> wl' = wl \cup {c.key} /\ UNCHANGED configured
    [] OTHER             -> configured' = configured \cup {c.row} /\ UNCHANGED wl

(* Command Complete with success, or "unknown command", which counts as    *)
(* success.                                                                *)
CmdDone(c, q) ==
  /\ Execute(c)
  /\ appended' = NameOnSuccess(c, TRUE)
  /\ IF c.op = "add_wl" /\ MoreKeys
       THEN /\ cmdq' = Append(q, Add(LoadRow, accept_index + 1))
            /\ accept_index' = accept_index + 1
            /\ UNCHANGED <<bt_config_state, bt_hci_pkt_retry>>
       ELSE QConf(NextRow, q, 0)
  /\ UNCHANGED <<fails, crossed, restarted, addFailed>>

CmdFailedSkips(c, q) ==  \* mutant: a failed row is left for the next one
  /\ fails < MaxFail /\ fails' = fails + 1
  /\ addFailed' = (addFailed \/ c.op = "add_wl")
  /\ IF bt_hci_pkt_retry + 1 > MaxRetry
       THEN Restart(q)
       ELSE /\ QConf(NextRow, q, bt_hci_pkt_retry + 1)
            /\ UNCHANGED <<crossed, restarted>>
  /\ appended' = NameOnSuccess(c, FALSE)
  /\ UNCHANGED ctlVars

CmdFailedWaits(c, q) ==  \* mutant: the limit is reached and nothing is sent
  /\ fails < MaxFail /\ fails' = fails + 1
  /\ addFailed' = (addFailed \/ c.op = "add_wl")
  /\ IF bt_hci_pkt_retry + 1 > MaxRetry
       THEN /\ cmdq' = q
            /\ UNCHANGED <<bt_config_state, bt_hci_pkt_retry, accept_index, restarted, crossed>>
       ELSE /\ QConf(bt_config_state, q, bt_hci_pkt_retry + 1)
            /\ UNCHANGED <<crossed, restarted>>
  /\ appended' = NameOnSuccess(c, FALSE)
  /\ UNCHANGED ctlVars

CmdFailed(c, q) ==
  /\ fails < MaxFail /\ fails' = fails + 1
  /\ addFailed' = (addFailed \/ c.op = "add_wl")
  /\ IF bt_hci_pkt_retry + 1 > MaxRetry
       THEN Restart(q)
       ELSE /\ QConf(bt_config_state, q, bt_hci_pkt_retry + 1)
            /\ UNCHANGED <<crossed, restarted>>
  /\ appended' = NameOnSuccess(c, FALSE)
  /\ UNCHANGED ctlVars

Complete ==
  /\ cmdq # <<>>
  /\ CmdDone(Head(cmdq), Tail(cmdq)) \/ CmdFailed(Head(cmdq), Tail(cmdq))
  /\ UNCHANGED runs
-----------------------------------------------------------------------------
(* Commands sent at run time: starting or stopping inquiry sends three of  *)
(* LE scanning, a link that comes or goes sets advertising, and pairing    *)
(* adds the peer's address.  They may come while the chain is running.     *)
Send(cmds) ==
  /\ runs < MaxRun /\ runs' = runs + 1
  /\ cmdq' = cmdq \o cmds
  /\ crossed' = (crossed \/ bt_config_state < Size)
  /\ UNCHANGED <<hostVars, ctlVars, fails, restarted, addFailed>>

SetScan == Send(Scan(Size))
SetAdv  == Send(<<Cmd("adv_enable", Size, 0)>>)
AddToAcceptList == \E k \in Keys : Send(<<Add(Size, k)>>)

Done ==  \* everything was answered and the bounds are used up
  cmdq = <<>> /\ runs = MaxRun /\ UNCHANGED vars

Next == Complete \/ SetScan \/ SetAdv \/ AddToAcceptList \/ Done

Spec == Init /\ [][Next]_vars

(* The controller completes every command. *)
FairSpec == Spec /\ WF_vars(Complete)
-----------------------------------------------------------------------------
CmdRec == [op : {"reset", "read_bd_addr", "plain", "clear_wl", "add_wl", "adv_enable", "scan"},
           row : 0..Size, key : 0..NKey]

(* Every variable stays in its domain, the cursor within the key table. *)
TypeOK ==
  /\ bt_config_state \in 0..Size /\ bt_hci_pkt_retry \in 0..MaxRetry
  /\ accept_index \in 0..NKey /\ appended \in 0..2
  /\ cmdq \in Seq(CmdRec)
  /\ configured \subseteq 0..Size /\ wl \subseteq Keys
  /\ runs \in 0..MaxRun /\ fails \in 0..MaxFail
  /\ crossed \in BOOLEAN /\ restarted \in BOOLEAN /\ addFailed \in BOOLEAN

(* The host goes past a row only when the controller has carried it out    *)
(* since its last reset, whatever failed and was retried, as long as no    *)
(* other command was under way with the chain.                             *)
RowsCarriedOut ==
  ~crossed => \A r \in 0..(LastRow - 1) : r < bt_config_state /\ r # LoadRow => r \in configured

(* local_name has room for one address: it is appended once unless the     *)
(* chain was restarted or moved by a completion of another command.        *)
NameAppendedOnce == ~restarted /\ ~crossed => appended <= 1

(* Once the row is passed every stored address is in the accept list,      *)
(* which passive scanning filters by.  An address whose command failed is  *)
(* not sent again, and the cursor does not go back for a restarted chain.  *)
AcceptListLoaded ==
  bt_config_state > LoadRow /\ ~crossed /\ ~restarted /\ ~addFailed => wl = Keys

(* The host's place in the chain tells what the controller has done: the   *)
(* rows before it, the name once, and the whole accept list.               *)
Inv == TypeOK /\ RowsCarriedOut /\ NameAppendedOnce /\ AcceptListLoaded

(* Every error is got over: with as many as there may be, the last row is  *)
(* reached for good.                                                       *)
ChainEnds == <>[](bt_config_state = Size)
=============================================================================
