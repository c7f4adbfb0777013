----------------------------- MODULE HostProofs -----------------------------
(***************************************************************************)
(* Theorems about two parts of the host for any values of their constants. *)
(* They share no variable and no assumption: HciConfig and SysManager are  *)
(* proved side by side, each from its own specification.                   *)
(*                                                                         *)
(* ChainTrue: the host's place in the HCI start-up chain tells what the    *)
(* controller has done (Inv, the type invariant included).  A completion   *)
(* is taken for that of the chain whatever it answers, so what the host    *)
(* knows lies in the queue: while nothing but the chain has sent, UnderWay *)
(* says which command that can be in each row.                             *)
(*                                                                         *)
(* ManagerTrue, WakeJustified: what the system manager keeps although      *)
(* links come and go between any two steps of its pass over the slots.     *)
(***************************************************************************)
EXTENDS HciConfig, SysManager, SequenceTheorems, FiniteSetTheorems, WellFoundedInduction, TLAPS


(* The table has eight rows; the fifth loads the accept list. *)
LEMMA Table ==
  /\ Size = 8 /\ LastRow = 7 /\ LoadRow = 4
  /\ Row(0) = "reset" /\ Row(1) = "read_bd_addr" /\ Row(2) = "plain"
  /\ Row(3) = "clear_wl" /\ Row(5) = "plain" /\ Row(6) = "adv_enable"
  BY DEF Size, LastRow, LoadRow, Row, bt_hci_config

RunTime == {"scan", "adv_enable", "add_wl"}

(* What is under way while nothing but the chain is: the command of the    *)
(* row, the address the cursor passed last, or what the last row and links *)
(* send.                                                                   *)
UnderWay ==
  LET s == bt_config_state
  IN /\ s < 7 /\ s # 4 => cmdq = <<Cmd(Row(s), s, 0)>>
     /\ s = 4 => accept_index \in Keys /\ cmdq = <<Add(4, accept_index)>>
     /\ s = 7 => \A i \in 1..Len(cmdq) : cmdq[i].op = "scan"
     /\ s = 8 => \A i \in 1..Len(cmdq) : cmdq[i].op \in RunTime

(* How far the accept list is loaded, in a chain that was not restarted.   *)
Loaded ==
  /\ bt_config_state < 4 => accept_index = 0
  /\ bt_config_state = 4 => wl = 1..(accept_index - 1)
  /\ bt_config_state > 4 => accept_index = NKey /\ wl = Keys

Sent == {c \in CmdRec : c.op = "add_wl" => c.key \in Keys}

Rows == \A r \in 0..6 : r < bt_config_state /\ r # 4 => r \in configured
Named == ~restarted => appended <= (IF bt_config_state > 1 THEN 1 ELSE 0)
Straight == UnderWay /\ Rows /\ Named /\ (~restarted /\ ~addFailed => Loaded)

ConfigIInv == TypeOK /\ cmdq \in Seq(Sent) /\ (~crossed => Straight)

(* The rows that are sent, and what else is, are well typed. *)
LEMMA CommandTypes ==
  /\ \A s \in 0..8 : s # 4 => Commands(s) \in Seq(Sent)
  /\ \A s \in 0..8, k \in Keys : Add(s, k) \in Sent
  /\ \A s \in 0..8 : Scan(s) \in Seq(Sent)
  /\ Cmd("adv_enable", 8, 0) \in Sent
<1>1. 0 \in 0..NKey
  BY HciConfigAssumption
<1>2. \A s \in 0..8, k \in Keys : Add(s, k) \in Sent
  BY HciConfigAssumption, Table DEF Add, Cmd, CmdRec, Sent, Keys
<1>3. \A s \in 0..8 : Scan(s) \in Seq(Sent)
  <2>1. \A s \in 0..8 : Cmd("scan", s, 0) \in Sent
    BY <1>1, Table DEF Cmd, CmdRec, Sent
  <2> QED BY <2>1 DEF Scan
<1>4. Cmd("adv_enable", 8, 0) \in Sent
  BY <1>1, Table DEF Cmd, CmdRec, Sent
<1>5. ASSUME NEW s \in 0..8, s # 4 PROVE Commands(s) \in Seq(Sent)
  <2>1. CASE s = 8
    BY <2>1, Table DEF Commands
  <2>2. CASE s = 7
    BY <2>2, <1>3, Table DEF Commands
  <2>3. CASE s \in 0..6
    <3>1. Cmd(Row(s), s, 0) \in Sent
      BY <1>1, <1>5, <2>3, Table DEF Cmd, CmdRec, Sent
    <3> QED BY <2>3, <3>1, Table DEF Commands
  <2> QED BY <2>1, <2>2, <2>3
<1> QED BY <1>2, <1>3, <1>4, <1>5

(* bt_hci_q_conf, well typed: where it leaves the chain. *)
LEMMA QConfEffect ==
  ASSUME accept_index \in 0..NKey, NEW s \in 0..8, NEW q \in Seq(Sent),
         NEW r \in 0..MaxRetry, QConf(s, q, r)
  PROVE  /\ bt_config_state' \in 0..8 /\ accept_index' \in 0..NKey
         /\ bt_hci_pkt_retry' \in 0..MaxRetry /\ cmdq' \in Seq(Sent)
         /\ s # 4 => /\ bt_config_state' = s /\ accept_index' = accept_index
                     /\ cmdq' = q \o Commands(s)
         /\ s = 4 /\ accept_index < NKey =>
              /\ bt_config_state' = 4 /\ accept_index' = accept_index + 1
              /\ cmdq' = Append(q, Add(4, accept_index + 1))
         /\ s = 4 /\ ~(accept_index < NKey) =>
              /\ bt_config_state' = 5 /\ accept_index' = accept_index
              /\ cmdq' = q \o Commands(5)
<1>1. CASE s # 4
  <2>1. /\ bt_config_state' = s /\ cmdq' = q \o Commands(s) /\ bt_hci_pkt_retry' = r
        /\ accept_index' = accept_index
    BY <1>1, Table DEF QConf
  <2>2. cmdq' \in Seq(Sent)
    BY <1>1, <2>1, CommandTypes, ConcatProperties
  <2> QED BY <1>1, <2>1, <2>2
<1>2. CASE s = 4 /\ accept_index < NKey
  <2>1. /\ bt_config_state' = s /\ cmdq' = Append(q, Add(s, accept_index + 1))
        /\ accept_index' = accept_index + 1 /\ bt_hci_pkt_retry' = r
    BY <1>2, Table DEF QConf, MoreKeys
  <2>2. accept_index + 1 \in Keys /\ accept_index + 1 \in 0..NKey
    BY <1>2, HciConfigAssumption DEF Keys
  <2>3. cmdq' \in Seq(Sent)
    BY <2>1, <2>2, CommandTypes, AppendProperties
  <2> QED BY <1>2, <2>1, <2>2, <2>3
<1>3. CASE s = 4 /\ ~(accept_index < NKey)
  <2>1. /\ bt_config_state' = 5 /\ cmdq' = q \o Commands(5) /\ bt_hci_pkt_retry' = 0
        /\ accept_index' = accept_index
    BY <1>3, Table DEF QConf, MoreKeys
  <2>2. cmdq' \in Seq(Sent)
    BY <2>1, CommandTypes, ConcatProperties
  <2>3. 0 \in 0..MaxRetry
    BY HciConfigAssumption
  <2> QED BY <1>3, <2>1, <2>2, <2>3
<1> QED BY <1>1, <1>2, <1>3

(* The oldest command and the rest. *)
LEMMA FirstCommand ==
  ASSUME ConfigIInv, cmdq # <<>>
  PROVE  Head(cmdq) \in Sent /\ Tail(cmdq) \in Seq(Sent) /\ Len(cmdq) \in Nat \ {0}
         /\ Head(cmdq) = cmdq[1] /\ Len(Tail(cmdq)) = Len(cmdq) - 1
         /\ \A i \in 1..Len(Tail(cmdq)) : Tail(cmdq)[i] = cmdq[i + 1]
  BY HeadTailProperties, EmptySeq DEF ConfigIInv

(* A queue of sent commands is well typed. *)
LEMMA SentTyped == cmdq' \in Seq(Sent) => cmdq' \in Seq(CmdRec)
  BY DEF Sent

(* Completions keep the types. *)
LEMMA DoneType ==
  ASSUME ConfigIInv, NEW c \in Sent, NEW q \in Seq(Sent), CmdDone(c, q), UNCHANGED runs
  PROVE  TypeOK' /\ cmdq' \in Seq(Sent)
<1>1. configured' \subseteq 0..8 /\ wl' \subseteq Keys
  <2>1. c.row \in 0..8 /\ (c.op = "add_wl" => c.key \in Keys)
    BY Table DEF CmdRec, Sent
  <2>2. configured \subseteq 0..8 /\ wl \subseteq Keys
    BY Table DEF ConfigIInv, TypeOK
  <2>3. Execute(c)
    BY DEF CmdDone
  <2>4. CASE c.op = "reset"
    BY <2>1, <2>3, <2>4 DEF Execute
  <2>5. CASE c.op = "clear_wl"
    BY <2>1, <2>2, <2>3, <2>5 DEF Execute
  <2>6. CASE c.op = "add_wl"
    BY <2>1, <2>2, <2>3, <2>6 DEF Execute
  <2>7. CASE c.op \notin {"reset", "clear_wl", "add_wl"}
    BY <2>1, <2>2, <2>3, <2>7 DEF Execute
  <2> QED BY <2>4, <2>5, <2>6, <2>7
<1>2. /\ bt_config_state \in 0..8 /\ accept_index \in 0..NKey /\ appended \in 0..2
      /\ bt_hci_pkt_retry \in 0..MaxRetry
  BY Table DEF ConfigIInv, TypeOK
<1>3. /\ bt_config_state' \in 0..8 /\ accept_index' \in 0..NKey
      /\ bt_hci_pkt_retry' \in 0..MaxRetry /\ cmdq' \in Seq(Sent)
  <2>1. CASE c.op = "add_wl" /\ MoreKeys
    <3>1. /\ cmdq' = Append(q, Add(4, accept_index + 1)) /\ accept_index' = accept_index + 1
          /\ bt_config_state' = bt_config_state /\ bt_hci_pkt_retry' = bt_hci_pkt_retry
      BY <2>1, Table DEF CmdDone
    <3>2. accept_index + 1 \in Keys /\ accept_index + 1 \in 0..NKey
      BY <1>2, <2>1, HciConfigAssumption DEF MoreKeys, Keys
    <3> QED BY <1>2, <3>1, <3>2, CommandTypes, AppendProperties
  <2>2. CASE ~(c.op = "add_wl" /\ MoreKeys)
    <3>1. QConf(NextRow, q, 0)
      BY <2>2 DEF CmdDone
    <3>2. NextRow \in 0..8 /\ 0 \in 0..MaxRetry
      BY <1>2, Table, HciConfigAssumption DEF NextRow
    <3> QED BY <1>2, <3>1, <3>2, QConfEffect
  <2> QED BY <2>1, <2>2
<1>4. appended' \in 0..2
  BY <1>2 DEF CmdDone, NameOnSuccess
<1>5. UNCHANGED <<runs, fails, crossed, restarted, addFailed>>
  BY DEF CmdDone
<1>6. cmdq' \in Seq(CmdRec)
  BY <1>3, SentTyped
<1> QED BY <1>1, <1>3, <1>4, <1>5, <1>6, Table DEF ConfigIInv, TypeOK

LEMMA FailedType ==
  ASSUME ConfigIInv, NEW c \in Sent, NEW q \in Seq(Sent), CmdFailed(c, q), UNCHANGED runs
  PROVE  TypeOK' /\ cmdq' \in Seq(Sent)
<1>1. /\ bt_config_state \in 0..8 /\ accept_index \in 0..NKey /\ appended \in 0..2
      /\ bt_hci_pkt_retry \in 0..MaxRetry /\ fails \in 0..MaxFail
      /\ crossed \in BOOLEAN /\ restarted \in BOOLEAN /\ addFailed \in BOOLEAN
  BY Table DEF ConfigIInv, TypeOK
<1>2. /\ bt_config_state' \in 0..8 /\ accept_index' \in 0..NKey
      /\ bt_hci_pkt_retry' \in 0..MaxRetry /\ cmdq' \in Seq(Sent)
  <2>1. CASE bt_hci_pkt_retry + 1 > MaxRetry
    <3>1. /\ bt_config_state' = 0 /\ bt_hci_pkt_retry' = 0 /\ accept_index' = accept_index
          /\ cmdq' = q \o Commands(0)
      BY <2>1 DEF CmdFailed, Restart
    <3> QED BY <1>1, <3>1, HciConfigAssumption, CommandTypes, ConcatProperties
  <2>2. CASE ~(bt_hci_pkt_retry + 1 > MaxRetry)
    <3>1. QConf(bt_config_state, q, bt_hci_pkt_retry + 1)
      BY <2>2 DEF CmdFailed
    <3>2. bt_hci_pkt_retry + 1 \in 0..MaxRetry
      BY <1>1, <2>2, HciConfigAssumption
    <3> QED BY <1>1, <3>1, <3>2, QConfEffect
  <2> QED BY <2>1, <2>2
<1>3. appended' = appended
  BY DEF CmdFailed, NameOnSuccess
<1>4. fails' \in 0..MaxFail /\ UNCHANGED <<runs, configured, wl>>
  BY <1>1, HciConfigAssumption DEF CmdFailed, ctlVars
<1>5. crossed' \in BOOLEAN /\ restarted' \in BOOLEAN /\ addFailed' \in BOOLEAN
  BY <1>1, Zenon DEF CmdFailed, Restart
<1>6. cmdq' \in Seq(CmdRec)
  BY <1>2, SentTyped
<1> QED BY <1>1, <1>2, <1>3, <1>4, <1>5, <1>6, Table DEF ConfigIInv, TypeOK

(* What is under way after a row was sent to an empty queue. *)
LEMMA RowSent ==
  ASSUME ConfigIInv, NEW s \in 0..8, NEW r \in 0..MaxRetry, QConf(s, <<>>, r), s # 8
  PROVE  UnderWay'
<1>1. <<>> \in Seq(Sent) /\ accept_index \in 0..NKey
  BY EmptySeq DEF ConfigIInv, TypeOK
<1>2. CASE s < 7 /\ s # 4
  <2>1. bt_config_state' = s /\ cmdq' = <<>> \o Commands(s)
    BY <1>1, <1>2, QConfEffect
  <2>2. Commands(s) = <<Cmd(Row(s), s, 0)>>
    BY <1>2, Table DEF Commands
  <2>3. cmdq' = <<Cmd(Row(s), s, 0)>>
    BY <2>1, <2>2
  <2> QED BY <1>2, <2>1, <2>3 DEF UnderWay
<1>3. CASE s = 7
  <2>0. QConf(7, <<>>, r)
    BY <1>3
  <2>1. bt_config_state' = 7 /\ cmdq' = <<>> \o Commands(7)
    <3>1. 7 \in 0..8 /\ 7 # 4
      OBVIOUS
    <3> QED BY <1>1, <2>0, <3>1, QConfEffect
  <2>2. Commands(7) = Scan(7)
    BY Table DEF Commands
  <2>3. cmdq' = Scan(7)
    BY <2>1, <2>2 DEF Scan
  <2>4. \A i \in 1..Len(cmdq') : cmdq'[i].op = "scan"
    BY <2>3 DEF Scan, Cmd
  <2> QED BY <2>1, <2>4 DEF UnderWay
<1>4. CASE s = 4 /\ accept_index < NKey
  <2>1. /\ bt_config_state' = 4 /\ accept_index' = accept_index + 1
        /\ cmdq' = Append(<<>>, Add(4, accept_index + 1))
    BY <1>1, <1>4, QConfEffect
  <2>2. cmdq' = <<Add(4, accept_index')>> /\ accept_index' \in Keys
    BY <1>1, <1>4, <2>1, HciConfigAssumption DEF Keys
  <2> QED BY <2>1, <2>2 DEF UnderWay
<1>5. CASE s = 4 /\ ~(accept_index < NKey)
  <2>1. bt_config_state' = 5 /\ cmdq' = <<>> \o Commands(5)
    BY <1>1, <1>5, QConfEffect
  <2>2. Commands(5) = <<Cmd(Row(5), 5, 0)>>
    BY Table DEF Commands
  <2>3. cmdq' = <<Cmd(Row(5), 5, 0)>>
    BY <2>1, <2>2
  <2> QED BY <2>1, <2>3 DEF UnderWay
<1> QED BY <1>2, <1>3, <1>4, <1>5

(* A row other than that of the accept list is done. *)
LEMMA RowDone ==
  ASSUME ConfigIInv, ~crossed, cmdq # <<>>, bt_config_state < 7, bt_config_state # 4,
         CmdDone(Head(cmdq), Tail(cmdq))
  PROVE  Straight'
<1> DEFINE s == bt_config_state
<1>1. s \in 0..8 /\ accept_index \in 0..NKey /\ appended \in 0..2 /\ configured \subseteq 0..8
  BY Table DEF ConfigIInv, TypeOK
<1>2. UnderWay /\ Rows /\ Named /\ (~restarted /\ ~addFailed => Loaded)
  BY DEF ConfigIInv, Straight
<1>3. cmdq = <<Cmd(Row(s), s, 0)>>
  BY <1>2 DEF UnderWay
<1> DEFINE c == Cmd(Row(s), s, 0)
<1>4. Head(cmdq) = c /\ Tail(cmdq) = <<>>
  BY <1>3
<1>5. c.op = Row(s) /\ c.row = s /\ Row(s) # "add_wl"
  BY <1>1, Table DEF Cmd
<1>6. CmdDone(c, <<>>)
  BY <1>4
<1>7. NextRow = s + 1
  BY <1>1, Table DEF NextRow
<1>8. QConf(s + 1, <<>>, 0) /\ Execute(c)
  BY <1>5, <1>6, <1>7 DEF CmdDone
<1>9. /\ s + 1 \in 0..8 /\ s + 1 # 8 /\ 0 \in 0..MaxRetry /\ <<>> \in Seq(Sent)
  BY <1>1, HciConfigAssumption
<1>10. UnderWay'
  BY <1>8, <1>9, RowSent
<1>11. UNCHANGED <<crossed, restarted, addFailed>>
  BY <1>6 DEF CmdDone
<1>12. /\ s # 3 => bt_config_state' = s + 1 /\ accept_index' = accept_index
       /\ s = 3 /\ accept_index < NKey => bt_config_state' = 4 /\ accept_index' = accept_index + 1
       /\ s = 3 /\ ~(accept_index < NKey) => bt_config_state' = 5 /\ accept_index' = accept_index
  <2> DEFINE n == s + 1
  <2>1. n \in 0..8 /\ QConf(n, <<>>, 0) /\ (n = 4 <=> s = 3)
    BY <1>1, <1>8, <1>9
  <2> HIDE DEF n
  <2>2. /\ n # 4 => bt_config_state' = n /\ accept_index' = accept_index
        /\ n = 4 /\ accept_index < NKey =>
             bt_config_state' = 4 /\ accept_index' = accept_index + 1
        /\ n = 4 /\ ~(accept_index < NKey) =>
             bt_config_state' = 5 /\ accept_index' = accept_index
    BY <1>1, <1>9, <2>1, QConfEffect
  <2> QED BY <2>1, <2>2 DEF n
<1>13. /\ s = 0 => configured' = {0} /\ wl' = {}
       /\ s = 3 => configured' = configured \cup {3} /\ wl' = {}
       /\ s \notin {0, 3} => configured' = configured \cup {s} /\ wl' = wl
  <2>1. CASE s = 0
    BY <1>5, <1>8, <2>1, Table DEF Execute
  <2>2. CASE s = 3
    BY <1>5, <1>8, <2>2, Table DEF Execute
  <2>3. CASE s \notin {0, 3}
    <3>1. Row(s) \notin {"reset", "clear_wl", "add_wl"}
      BY <1>1, <2>3, Table
    <3> QED BY <1>5, <1>8, <2>3, <3>1 DEF Execute
  <2> QED BY <2>1, <2>2, <2>3
<1>14. Rows'
  BY <1>1, <1>2, <1>12, <1>13 DEF Rows
<1>15. appended' = IF s = 1 /\ appended < 2 THEN appended + 1 ELSE appended
  <2>1. c.op = "read_bd_addr" <=> s = 1
    BY <1>1, <1>5, Table
  <2> QED BY <1>6, <2>1 DEF CmdDone, NameOnSuccess
<1>16. Named'
  BY <1>1, <1>2, <1>11, <1>12, <1>15 DEF Named
<1>17. ~restarted /\ ~addFailed => Loaded'
  <2> SUFFICES ASSUME ~restarted, ~addFailed PROVE Loaded'
    OBVIOUS
  <2>1. /\ s < 4 => accept_index = 0
        /\ s > 4 => accept_index = NKey /\ wl = Keys
    BY <1>2 DEF Loaded
  <2>2. CASE s < 3
    <3>1. bt_config_state' = s + 1 /\ accept_index' = 0 /\ s + 1 < 4
      BY <1>1, <1>12, <2>1, <2>2
    <3>2. bt_config_state' < 4 /\ bt_config_state' # 4 /\ ~(bt_config_state' > 4)
      BY <1>1, <2>2, <3>1
    <3> QED BY <3>1, <3>2, Zenon DEF Loaded
  <2>3. CASE s = 3
    <3>1. accept_index = 0 /\ wl' = {} /\ 1..0 = {}
      BY <1>13, <2>1, <2>3
    <3>2. CASE NKey > 0
      <4>1. bt_config_state' = 4 /\ accept_index' = 1
        BY <1>12, <2>3, <3>1, <3>2
      <4> QED BY <3>1, <4>1 DEF Loaded
    <3>3. CASE NKey = 0
      <4>1. bt_config_state' = 5 /\ accept_index' = 0
        BY <1>12, <2>3, <3>1, <3>3
      <4> QED BY <3>1, <3>3, <4>1 DEF Loaded, Keys
    <3> QED BY <3>2, <3>3, HciConfigAssumption
  <2>4. CASE s > 4
    BY <1>1, <1>12, <1>13, <2>1, <2>4 DEF Loaded
  <2> QED BY <1>1, <2>2, <2>3, <2>4
<1> QED BY <1>10, <1>11, <1>14, <1>16, <1>17 DEF Straight

(* An address of the accept list is added. *)
LEMMA AddDone ==
  ASSUME ConfigIInv, ~crossed, cmdq # <<>>, bt_config_state = 4,
         CmdDone(Head(cmdq), Tail(cmdq))
  PROVE  Straight'
<1>1. accept_index \in 0..NKey /\ appended \in 0..2
  BY DEF ConfigIInv, TypeOK
<1>2. UnderWay /\ Rows /\ Named /\ (~restarted /\ ~addFailed => Loaded)
  BY DEF ConfigIInv, Straight
<1>3. accept_index \in Keys /\ cmdq = <<Add(4, accept_index)>>
  BY <1>2 DEF UnderWay
<1> DEFINE c == Add(4, accept_index)
<1>4. Head(cmdq) = c /\ Tail(cmdq) = <<>> /\ c.op = "add_wl" /\ c.key = accept_index
  BY <1>3 DEF Add, Cmd
<1>5. CmdDone(c, <<>>)
  BY <1>4
<1>6. wl' = wl \cup {accept_index} /\ configured' = configured
  BY <1>4, <1>5 DEF CmdDone, Execute
<1>7. appended' = appended /\ UNCHANGED <<crossed, restarted, addFailed>>
  BY <1>4, <1>5 DEF CmdDone, NameOnSuccess
<1>8. CASE accept_index < NKey
  <2>1. /\ cmdq' = <<Add(4, accept_index + 1)>> /\ accept_index' = accept_index + 1
        /\ bt_config_state' = 4
    BY <1>4, <1>5, <1>8, Table DEF CmdDone, MoreKeys
  <2>2. UnderWay'
    BY <1>1, <1>8, <2>1, HciConfigAssumption DEF UnderWay, Keys
  <2>3. ~restarted /\ ~addFailed => Loaded'
    BY <1>1, <1>2, <1>3, <1>6, <2>1 DEF Loaded, Keys
  <2> QED BY <1>2, <1>6, <1>7, <2>1, <2>2, <2>3 DEF Straight, Rows, Named
<1>9. CASE ~(accept_index < NKey)
  <2>1. NextRow = 5 /\ 0 \in 0..MaxRetry /\ <<>> \in Seq(Sent)
    BY Table, HciConfigAssumption DEF NextRow
  <2>2. QConf(5, <<>>, 0)
    BY <1>4, <1>5, <1>9, <2>1 DEF CmdDone, MoreKeys
  <2>3. bt_config_state' = 5 /\ accept_index' = accept_index
    <3>1. 5 \in 0..8 /\ 5 # 4
      OBVIOUS
    <3> QED BY <1>1, <2>1, <2>2, <3>1, QConfEffect
  <2>4. UnderWay'
    BY <2>1, <2>2, RowSent
  <2>5. ~restarted /\ ~addFailed => Loaded'
    BY <1>1, <1>2, <1>3, <1>6, <1>9, <2>3, HciConfigAssumption DEF Loaded, Keys
  <2>6. Rows'
    BY <1>2, <1>6, <2>3 DEF Rows
  <2>7. Named'
    BY <1>2, <1>7, <2>3 DEF Named
  <2> QED BY <1>7, <2>4, <2>5, <2>6, <2>7 DEF Straight
<1> QED BY <1>8, <1>9

(* The commands past the table, and none but scanning for its last row. *)
LEMMA TailOps ==
  ASSUME ConfigIInv, cmdq # <<>>, NEW S, \A i \in 1..Len(cmdq) : cmdq[i].op \in S
  PROVE  Head(cmdq).op \in S /\ \A i \in 1..Len(Tail(cmdq)) : Tail(cmdq)[i].op \in S
<1>1. /\ Len(cmdq) \in Nat \ {0} /\ Head(cmdq) = cmdq[1] /\ Len(Tail(cmdq)) = Len(cmdq) - 1
      /\ \A i \in 1..Len(Tail(cmdq)) : Tail(cmdq)[i] = cmdq[i + 1]
  BY FirstCommand
<1>2. Head(cmdq).op \in S
  BY <1>1
<1>3. ASSUME NEW i \in 1..Len(Tail(cmdq)) PROVE Tail(cmdq)[i].op \in S
  <2>1. i + 1 \in 1..Len(cmdq)
    BY <1>1
  <2> QED BY <1>1, <2>1
<1> QED BY <1>2, <1>3

(* Commands that are appended keep to what may be under way. *)
LEMMA ConcatOps ==
  ASSUME NEW q \in Seq(Sent), NEW p \in Seq(Sent), NEW S,
         \A i \in 1..Len(q) : q[i].op \in S, \A i \in 1..Len(p) : p[i].op \in S
  PROVE  \A i \in 1..Len(q \o p) : (q \o p)[i].op \in S
<1>1. TAKE i \in 1..Len(q \o p)
<1>2. Len(q) \in Nat /\ Len(p) \in Nat /\ Len(q \o p) = Len(q) + Len(p)
  BY ConcatProperties, LenProperties
<1>3. CASE i \in 1..Len(q)
  BY <1>2, <1>3, ConcatProperties
<1>4. CASE i \notin 1..Len(q)
  <2>1. i - Len(q) \in 1..Len(p) /\ (q \o p)[i] = p[i - Len(q)]
    BY <1>2, <1>4, ConcatProperties
  <2> QED BY <2>1
<1> QED BY <1>3, <1>4

LEMMA AppendOps ==
  ASSUME NEW q \in Seq(Sent), NEW x, NEW S, \A i \in 1..Len(q) : q[i].op \in S, x.op \in S
  PROVE  \A i \in 1..Len(Append(q, x)) : Append(q, x)[i].op \in S
<1>1. TAKE i \in 1..Len(Append(q, x))
<1>2. Len(q) \in Nat /\ Len(Append(q, x)) = Len(q) + 1
  BY LenProperties
<1>3. i \in 1..Len(q) => Append(q, x)[i] = q[i]
  BY <1>2
<1>4. i = Len(q) + 1 => Append(q, x)[i] = x
  BY <1>2
<1> QED BY <1>2, <1>3, <1>4

LEMMA ScanOps == \A s \in 0..8 : \A i \in 1..Len(Scan(s)) : Scan(s)[i].op \in {"scan"}
  BY DEF Scan, Cmd

(* The last row, and every row past the table, is done: nothing that the   *)
(* chain promises changes any more.                                        *)
LEMMA EndDone ==
  ASSUME ConfigIInv, ~crossed, cmdq # <<>>, bt_config_state \in {7, 8},
         CmdDone(Head(cmdq), Tail(cmdq))
  PROVE  Straight'
<1> DEFINE c == Head(cmdq)
           q == Tail(cmdq)
<1>1. /\ accept_index \in 0..NKey /\ appended \in 0..2 /\ wl \subseteq Keys
      /\ c \in Sent /\ q \in Seq(Sent)
  BY FirstCommand DEF ConfigIInv, TypeOK
<1>2. UnderWay /\ Rows /\ Named /\ (~restarted /\ ~addFailed => Loaded)
  BY DEF ConfigIInv, Straight
<1>3. c.op \in RunTime /\ \A i \in 1..Len(q) : q[i].op \in RunTime
  <2>1. \A i \in 1..Len(cmdq) : cmdq[i].op \in RunTime
    BY <1>2 DEF UnderWay, RunTime
  <2> QED BY <2>1, TailOps
<1>4. UNCHANGED <<crossed, restarted, addFailed>> /\ Execute(c)
  BY DEF CmdDone
<1>5. configured \subseteq configured'
      /\ (wl' = wl \/ (c.op = "add_wl" /\ wl' = wl \cup {c.key}))
  BY <1>3, <1>4 DEF Execute, RunTime
<1>6. appended' = appended
  BY <1>3 DEF CmdDone, NameOnSuccess, RunTime
<1>7. wl = Keys => wl' = Keys
  <2>1. c.op = "add_wl" => c.key \in Keys
    BY <1>1 DEF Sent
  <2> QED BY <1>5, <2>1
<1>8. CASE c.op = "add_wl" /\ accept_index < NKey
  <2>1. /\ cmdq' = Append(q, Add(4, accept_index + 1)) /\ accept_index' = accept_index + 1
        /\ bt_config_state' = bt_config_state
    BY <1>8, Table DEF CmdDone, MoreKeys
  <2>2. bt_config_state = 8
    <3>1. bt_config_state = 7 => c.op = "scan"
      <4>1. ASSUME bt_config_state = 7 PROVE \A i \in 1..Len(cmdq) : cmdq[i].op \in {"scan"}
        BY <1>2, <4>1 DEF UnderWay
      <4> QED BY <4>1, TailOps
    <3> QED BY <1>8, <3>1
  <2>3. UnderWay'
    <3>1. Add(4, accept_index + 1).op \in RunTime
      BY DEF Add, Cmd, RunTime
    <3>2. \A i \in 1..Len(cmdq') : cmdq'[i].op \in RunTime
      BY <1>1, <1>3, <2>1, <3>1, AppendOps
    <3> QED BY <2>1, <2>2, <3>2 DEF UnderWay
  <2>4. ~(~restarted /\ ~addFailed)
    BY <1>1, <1>2, <1>8, <2>2, HciConfigAssumption DEF Loaded
  <2> QED BY <1>2, <1>4, <1>5, <1>6, <2>1, <2>3, <2>4 DEF Straight, Rows, Named
<1>9. CASE ~(c.op = "add_wl" /\ accept_index < NKey)
  <2>1. NextRow = 8 /\ 0 \in 0..MaxRetry
    BY Table, HciConfigAssumption DEF NextRow
  <2>2. QConf(8, q, 0)
    BY <1>9, <2>1 DEF CmdDone, MoreKeys
  <2>3. bt_config_state' = 8 /\ accept_index' = accept_index /\ cmdq' = q \o Commands(8)
    <3>1. 8 \in 0..8 /\ 8 # 4
      OBVIOUS
    <3> QED BY <1>1, <2>1, <2>2, <3>1, QConfEffect
  <2>4. cmdq' = q
    BY <1>1, <2>3, Table DEF Commands
  <2>5. UnderWay'
    BY <1>3, <2>3, <2>4 DEF UnderWay
  <2>6. ~restarted /\ ~addFailed => Loaded'
    BY <1>2, <1>7, <2>3 DEF Loaded
  <2>7. Rows'
    BY <1>2, <1>5, <2>3 DEF Rows
  <2>8. Named'
    BY <1>2, <1>4, <1>6, <2>3 DEF Named
  <2> QED BY <1>4, <2>5, <2>6, <2>7, <2>8 DEF Straight
<1> QED BY <1>8, <1>9

(* A command completes. *)
LEMMA CmdDoneKeeps ==
  ASSUME ConfigIInv, cmdq # <<>>, CmdDone(Head(cmdq), Tail(cmdq)), UNCHANGED runs
  PROVE  ConfigIInv'
<1>1. TypeOK' /\ cmdq' \in Seq(Sent)
  BY FirstCommand, DoneType
<1>2. crossed' = crossed
  BY DEF CmdDone
<1>3. bt_config_state \in 0..8
  BY Table DEF ConfigIInv, TypeOK
<1>4. ASSUME ~crossed PROVE Straight'
  <2>1. CASE bt_config_state < 7 /\ bt_config_state # 4
    BY <1>4, <2>1, RowDone
  <2>2. CASE bt_config_state = 4
    BY <1>4, <2>2, AddDone
  <2>3. CASE bt_config_state \in {7, 8}
    BY <1>4, <2>3, EndDone
  <2> QED BY <1>3, <2>1, <2>2, <2>3
<1> QED BY <1>1, <1>2, <1>4 DEF ConfigIInv

(* A command fails, and is sent again or starts the chain again. *)
LEMMA CmdFailedKeeps ==
  ASSUME ConfigIInv, cmdq # <<>>, CmdFailed(Head(cmdq), Tail(cmdq)), UNCHANGED runs
  PROVE  ConfigIInv'
<1> DEFINE c == Head(cmdq)
           q == Tail(cmdq)
           s == bt_config_state
<1>1. TypeOK' /\ cmdq' \in Seq(Sent)
  BY FirstCommand, FailedType
<1>2. /\ s \in 0..8 /\ accept_index \in 0..NKey /\ appended \in 0..2
      /\ bt_hci_pkt_retry \in 0..MaxRetry /\ q \in Seq(Sent)
  BY Table, FirstCommand DEF ConfigIInv, TypeOK
<1>3. appended' = appended /\ UNCHANGED <<configured, wl>>
      /\ addFailed' = (addFailed \/ c.op = "add_wl")
  BY Zenon DEF CmdFailed, NameOnSuccess, ctlVars
<1>4. CASE bt_hci_pkt_retry + 1 > MaxRetry
  <2>1. /\ bt_config_state' = 0 /\ cmdq' = q \o Commands(0) /\ restarted' = TRUE
        /\ crossed' = (crossed \/ q # <<>>)
    BY <1>4 DEF CmdFailed, Restart
  <2>2. ASSUME ~crossed' PROVE Straight'
    <3>1. q = <<>>
      BY <2>1, <2>2
    <3>2. Commands(0) = <<Cmd(Row(0), 0, 0)>>
      BY Table DEF Commands
    <3>3. cmdq' = <<Cmd(Row(0), 0, 0)>>
      <4>1. cmdq' = <<>> \o <<Cmd(Row(0), 0, 0)>>
        BY <2>1, <3>1, <3>2
      <4> HIDE DEF c, q
      <4> QED BY <4>1
    <3>4. UnderWay'
      BY <2>1, <3>3, 0 # 4, 0 # 7, 0 # 8 DEF UnderWay
    <3>5. Rows' /\ Named'
      BY <2>1 DEF Rows, Named
    <3> QED BY <2>1, <3>4, <3>5 DEF Straight
  <2> QED BY <1>1, <2>2 DEF ConfigIInv
<1>5. CASE ~(bt_hci_pkt_retry + 1 > MaxRetry)
  <2> DEFINE r == bt_hci_pkt_retry + 1
  <2>1. QConf(s, q, r) /\ UNCHANGED <<crossed, restarted>>
    BY <1>5 DEF CmdFailed
  <2>2. r \in 0..MaxRetry
    BY <1>2, <1>5, HciConfigAssumption
  <2>3. /\ s # 4 => s' = s /\ accept_index' = accept_index /\ cmdq' = q \o Commands(s)
        /\ s = 4 => s' \in {4, 5}
    BY <1>2, <2>1, <2>2, QConfEffect
  <2>4. ASSUME ~crossed PROVE Straight'
    <3>1. UnderWay /\ Rows /\ Named /\ (~restarted /\ ~addFailed => Loaded)
      BY <2>4 DEF ConfigIInv, Straight
    <3>2. Rows'
      BY <1>2, <1>3, <2>3, <3>1 DEF Rows
    <3>3. Named'
      BY <1>2, <1>3, <2>1, <2>3, <3>1 DEF Named
    <3>4. ~restarted' /\ ~addFailed' => Loaded'
      <4>1. CASE s = 4
        <5>1. c.op = "add_wl"
          BY <3>1, <4>1 DEF UnderWay, Add, Cmd
        <5> QED BY <1>3, <5>1
      <4>2. CASE s # 4
        <5>1. ~restarted' /\ ~addFailed' => ~restarted /\ ~addFailed
          BY <1>3, <2>1
        <5> QED BY <1>2, <1>3, <2>3, <3>1, <4>2, <5>1 DEF Loaded
      <4> QED BY <4>1, <4>2
    <3>5. UnderWay'
      <4>1. CASE s < 7
        <5>1. q = <<>>
          <6>1. PICK x : cmdq = <<x>>
            BY <3>1, <4>1 DEF UnderWay
          <6> QED BY <6>1
        <5>2. s # 8
          BY <4>1
        <5> QED BY <1>2, <2>1, <2>2, <5>1, <5>2, RowSent
      <4>2. CASE s = 7
        <5>1. \A i \in 1..Len(cmdq) : cmdq[i].op \in {"scan"}
          BY <3>1, <4>2 DEF UnderWay
        <5>2. \A i \in 1..Len(q) : q[i].op \in {"scan"}
          BY <5>1, TailOps
        <5>3. Commands(s) = Scan(7) /\ Scan(7) \in Seq(Sent)
          BY <4>2, Table, CommandTypes DEF Commands
        <5>4. cmdq' = q \o Scan(7) /\ s' = 7
          BY <2>3, <4>2, <5>3
        <5>5. \A i \in 1..Len(Scan(7)) : Scan(7)[i].op \in {"scan"}
          BY ScanOps
        <5>6. \A i \in 1..Len(q \o Scan(7)) : (q \o Scan(7))[i].op \in {"scan"}
          BY <1>2, <5>2, <5>3, <5>5, ConcatOps
        <5> QED BY <5>4, <5>6 DEF UnderWay
      <4>3. CASE s = 8
        <5>1. \A i \in 1..Len(cmdq) : cmdq[i].op \in RunTime
          BY <3>1, <4>3 DEF UnderWay
        <5>2. \A i \in 1..Len(q) : q[i].op \in RunTime
          BY <5>1, TailOps
        <5>3. cmdq' = q /\ s' = 8
          BY <1>2, <2>3, <4>3, Table DEF Commands
        <5> QED BY <5>2, <5>3 DEF UnderWay
      <4> QED BY <1>2, <4>1, <4>2, <4>3
    <3> QED BY <3>2, <3>3, <3>4, <3>5 DEF Straight
  <2> QED BY <1>1, <2>1, <2>4 DEF ConfigIInv
<1> QED BY <1>4, <1>5

(* A link, the button or pairing sends commands. *)
LEMMA SendKeeps ==
  ASSUME ConfigIInv, NEW cmds \in Seq(Sent), \A i \in 1..Len(cmds) : cmds[i].op \in RunTime,
         Send(cmds)
  PROVE  ConfigIInv'
<1>1. /\ bt_config_state \in 0..8 /\ runs \in 0..MaxRun /\ crossed \in BOOLEAN
      /\ cmdq \in Seq(Sent)
  BY Table DEF ConfigIInv, TypeOK
<1>2. /\ runs < MaxRun /\ runs' = runs + 1 /\ cmdq' = cmdq \o cmds
      /\ crossed' = (crossed \/ bt_config_state < 8)
      /\ UNCHANGED <<bt_config_state, bt_hci_pkt_retry, accept_index, appended, configured, wl,
                     fails, restarted, addFailed>>
  BY Table DEF Send, hostVars, ctlVars
<1>3. cmdq' \in Seq(Sent) /\ cmdq' \in Seq(CmdRec)
  BY <1>1, <1>2, ConcatProperties, SentTyped
<1>4. runs' \in 0..MaxRun /\ crossed' \in BOOLEAN
  <2>1. runs' \in 0..MaxRun
    BY <1>1, <1>2, HciConfigAssumption
  <2>2. crossed' \in BOOLEAN
    BY <1>2, Zenon
  <2> QED BY <2>1, <2>2
<1>5. TypeOK'
  BY <1>2, <1>3, <1>4 DEF ConfigIInv, TypeOK
<1>6. ASSUME ~crossed' PROVE Straight'
  <2>1. ~crossed /\ bt_config_state = 8
    <3>1. ~crossed /\ ~(bt_config_state < 8)
      BY <1>2, <1>6, Zenon
    <3> QED BY <1>1, <3>1
  <2>2. Straight
    BY <2>1 DEF ConfigIInv
  <2>3. \A i \in 1..Len(cmdq) : cmdq[i].op \in RunTime
    BY <2>1, <2>2 DEF Straight, UnderWay
  <2>4. \A i \in 1..Len(cmdq \o cmds) : (cmdq \o cmds)[i].op \in RunTime
    BY <1>1, <2>3, ConcatOps
  <2>5. UnderWay'
    BY <1>2, <2>1, <2>4 DEF UnderWay
  <2> QED BY <1>2, <2>2, <2>5 DEF Straight, Rows, Named, Loaded
<1> QED BY <1>3, <1>5, <1>6 DEF ConfigIInv

LEMMA InitConfig == Init => ConfigIInv
<1> SUFFICES ASSUME Init PROVE ConfigIInv
  OBVIOUS
<1>1. cmdq = <<Cmd(Row(0), 0, 0)>> /\ cmdq \in Seq(Sent)
  <2>1. Commands(0) = <<Cmd(Row(0), 0, 0)>>
    BY Table DEF Commands
  <2>2. Commands(0) \in Seq(Sent)
    <3>1. 0 \in 0..8 /\ 0 # 4
      OBVIOUS
    <3> QED BY <3>1, CommandTypes
  <2> QED BY <2>1, <2>2 DEF Init
<1>2. cmdq \in Seq(CmdRec)
  BY <1>1 DEF Sent
<1>3. TypeOK
  <2>1. /\ bt_config_state = 0 /\ bt_hci_pkt_retry = 0 /\ accept_index = 0 /\ appended = 0
        /\ configured = {} /\ wl = {} /\ runs = 0 /\ fails = 0
        /\ crossed = FALSE /\ restarted = FALSE /\ addFailed = FALSE
    BY DEF Init
  <2>2. 0 \in 0..MaxRetry /\ 0 \in 0..NKey /\ 0 \in 0..MaxRun /\ 0 \in 0..MaxFail
    BY HciConfigAssumption
  <2>3. bt_config_state \in 0..Size
    BY <2>1, Table
  <2>4. crossed \in BOOLEAN /\ restarted \in BOOLEAN /\ addFailed \in BOOLEAN
    BY <2>1, Zenon
  <2>5. configured \subseteq 0..Size /\ wl \subseteq Keys /\ appended \in 0..2
    BY <2>1
  <2>6. /\ bt_hci_pkt_retry \in 0..MaxRetry /\ accept_index \in 0..NKey
        /\ runs \in 0..MaxRun /\ fails \in 0..MaxFail
    BY <2>1, <2>2
  <2> QED BY <1>2, <2>3, <2>4, <2>5, <2>6, Zenon DEF TypeOK
<1>4. UnderWay
  BY <1>1 DEF Init, UnderWay
<1>5. Rows /\ Named /\ Loaded
  BY DEF Init, Rows, Named, Loaded
<1> QED BY <1>1, <1>3, <1>4, <1>5 DEF ConfigIInv, Straight

LEMMA NextConfig == ConfigIInv /\ [Next]_vars => ConfigIInv'
<1> SUFFICES ASSUME ConfigIInv, [Next]_vars PROVE ConfigIInv'
  OBVIOUS
<1>1. CASE Complete
  <2>1. cmdq # <<>> /\ UNCHANGED runs
    BY <1>1 DEF Complete
  <2>2. CASE CmdDone(Head(cmdq), Tail(cmdq))
    BY <2>1, <2>2, CmdDoneKeeps
  <2>3. CASE CmdFailed(Head(cmdq), Tail(cmdq))
    BY <2>1, <2>3, CmdFailedKeeps
  <2> QED BY <1>1, <2>2, <2>3 DEF Complete
<1>2. CASE SetScan
  <2>1. Scan(8) \in Seq(Sent) /\ \A i \in 1..Len(Scan(8)) : Scan(8)[i].op \in RunTime
    <3>1. 8 \in 0..8
      OBVIOUS
    <3>2. Scan(8) \in Seq(Sent) /\ \A i \in 1..Len(Scan(8)) : Scan(8)[i].op \in {"scan"}
      BY <3>1, CommandTypes, ScanOps
    <3> QED BY <3>2 DEF RunTime
  <2>2. Send(Scan(8))
    BY <1>2, Table DEF SetScan
  <2> QED BY <2>1, <2>2, SendKeeps
<1>3. CASE SetAdv
  <2> DEFINE p == <<Cmd("adv_enable", 8, 0)>>
  <2>1. p \in Seq(Sent) /\ \A i \in 1..Len(p) : p[i].op \in RunTime
    BY CommandTypes DEF RunTime, Cmd
  <2>2. Send(p)
    BY <1>3, Table DEF SetAdv
  <2> QED BY <2>1, <2>2, SendKeeps
<1>4. CASE AddToAcceptList
  <2>1. PICK k \in Keys : Send(<<Add(8, k)>>)
    BY <1>4, Table DEF AddToAcceptList
  <2>2. Add(8, k) \in Sent /\ Add(8, k).op \in RunTime
    BY CommandTypes DEF RunTime, Add, Cmd
  <2> DEFINE p == <<Add(8, k)>>
  <2>3. p \in Seq(Sent) /\ \A i \in 1..Len(p) : p[i].op \in RunTime
    BY <2>2
  <2> QED BY <2>1, <2>3, SendKeeps
<1>5. CASE UNCHANGED vars
  BY <1>5 DEF vars, hostVars, ctlVars, ConfigIInv, TypeOK, Straight, UnderWay, Rows, Named, Loaded
<1>6. CASE Done
  BY <1>5, <1>6 DEF Done
<1> QED BY <1>1, <1>2, <1>3, <1>4, <1>5, <1>6 DEF Next

(* The strengthening says what the run checks. *)
LEMMA ConfigImplies == ConfigIInv => Inv
<1> SUFFICES ASSUME ConfigIInv PROVE Inv
  OBVIOUS
<1>1. TypeOK /\ bt_config_state \in 0..8
  BY Table DEF ConfigIInv, TypeOK
<1>2. RowsCarriedOut
  BY Table DEF ConfigIInv, Straight, Rows, RowsCarriedOut
<1>3. NameAppendedOnce
  <2>1. appended \in 0..2
    BY DEF TypeOK, ConfigIInv
  <2> QED BY <1>1, <2>1 DEF ConfigIInv, Straight, Named, NameAppendedOnce
<1>4. AcceptListLoaded
  BY Table DEF ConfigIInv, Straight, Loaded, AcceptListLoaded
<1> QED BY <1>1, <1>2, <1>3, <1>4 DEF Inv

(* Whatever fails and is sent again, the host's place in the chain says    *)
(* what the controller has done, as long as no other command was under way *)
(* with it.                                                                *)
THEOREM ChainTrue == Spec => []Inv
<1>1. Spec => []ConfigIInv
  BY InitConfig, NextConfig, PTL DEF Spec
<1> QED BY <1>1, ConfigImplies, PTL

-----------------------------------------------------------------------------
(***************************************************************************)
(* The system manager.  ManagerIInv follows a pass over the slots: those   *)
(* visited have numbers of their own below the next one, the ones that are *)
(* not wait as if they were new.                                           *)
(***************************************************************************)
Orders == {"off", "inquiry", "wired", "restart"}
PassRec == [i : 0..NDev, j : 0..NPort, idx : Nat, mask : SUBSET Idx, update : BOOLEAN]

Domains ==
  /\ link \in [Slots -> {"free", "page", "up", "init", "ready"}]
  /\ out_idx \in [Slots -> Idx] /\ led \in [Slots -> Idx]
  /\ sense \subseteq Ports /\ port_state \subseteq Idx /\ ports \subseteq Ports
  /\ at \in {"idle", "held", "ports", "power", "wake"} /\ pass \in PassRec
  /\ cmd_q \in Seq(Orders) /\ Len(cmd_q) <= CmdRoom

(* The slots of which the number stands: between passes all, in a pass     *)
(* those before the one it visits next.                                    *)
Visited == IF at = "ports" THEN 0..(pass.i - 1) ELSE Slots
Settled == Visited \ fresh

(* The next number is that of the next port, or the first beyond them.     *)
Walk ==
  at = "ports" =>
    /\ pass.idx <= NPort + pass.i
    /\ pass.j = pass.idx \/ (pass.j = NPort /\ pass.idx >= NPort)
    /\ \A i \in Settled : out_idx[i] < pass.idx

Apart ==
  /\ \A i \in Settled, j \in Settled : out_idx[i] = out_idx[j] => i = j
  /\ \A i \in Settled : out_idx[i] \in sense => out_idx[i] \in plugged

Kicked == closing \subseteq Linked /\ before \subseteq closing
Masked == MaskTrue /\ (booting => port_state = {} \/ raced)

(* Also a slot that is fresh shows its number once it is prepared.         *)
Shown ==
  \A i \in Slots \ unled :
    /\ link[i] = "init" => led[i] = out_idx[i]
    /\ link[i] = "ready" => led[i] = out_idx[i] \/ out_idx[i] \in notices

ManagerIInv == Domains /\ Walk /\ Apart /\ Kicked /\ Masked /\ Shown

(* What leaves each part alone. *)
LEMMA WalkFrame ==
  ASSUME Walk, UNCHANGED <<pass, out_idx>>, fresh \subseteq fresh',
         at' = at \/ (at # "ports" /\ at' # "ports")
  PROVE  Walk'
  BY DEF Walk, Settled, Visited

LEMMA ApartFrame ==
  ASSUME Apart, UNCHANGED <<pass, out_idx, sense, plugged>>, fresh \subseteq fresh',
         at' = at \/ (at # "ports" /\ at' # "ports")
  PROVE  Apart'
  BY DEF Apart, Settled, Visited

LEMMA KickedFrame ==
  ASSUME Kicked, UNCHANGED <<link, closing, before>>
  PROVE  Kicked'
  BY DEF Kicked, Linked

LEMMA MaskedFrame ==
  ASSUME Masked, UNCHANGED <<port_state, ports, booting, raced>>
  PROVE  Masked'
  BY DEF Masked, MaskTrue

LEMMA ShownFrame ==
  ASSUME Shown, UNCHANGED <<link, led, out_idx, notices>>, unled \subseteq unled'
  PROVE  Shown'
  BY DEF Shown

(* The whole list, and a step of the task that leaves the slots alone.     *)
LEMMA QuietStep ==
  ASSUME ManagerIInv,
         UNCHANGED <<link, out_idx, led, closing, before, fresh, sense, plugged, pass>>,
         UNCHANGED <<port_state, ports, booting, raced, notices, unled>>,
         at' \in {"idle", "held", "ports", "power", "wake"},
         at' = at \/ (at # "ports" /\ at' # "ports"),
         cmd_q' \in Seq(Orders), Len(cmd_q') <= CmdRoom
  PROVE  ManagerIInv'
<1>1. Domains'
  BY DEF ManagerIInv, Domains
<1>2. Walk' /\ Apart'
  BY WalkFrame, ApartFrame DEF ManagerIInv
<1>3. Kicked' /\ Masked' /\ Shown'
  BY KickedFrame, MaskedFrame, ShownFrame DEF ManagerIInv
<1> QED BY <1>1, <1>2, <1>3 DEF ManagerIInv

(* Links are told to end, by the task or by the button. *)
LEMMA KickStep ==
  ASSUME ManagerIInv,
         UNCHANGED <<link, out_idx, led, fresh, sense, plugged, pass>>,
         UNCHANGED <<port_state, ports, booting, raced, notices, unled>>,
         closing' = closing \/ closing' = closing \cup Linked,
         before' = before \/ (before' = Linked /\ closing' = closing \cup Linked),
         at' \in {"idle", "held", "ports", "power", "wake"},
         at' = at \/ (at # "ports" /\ at' # "ports"),
         cmd_q' \in Seq(Orders), Len(cmd_q') <= CmdRoom
  PROVE  ManagerIInv'
<1>1. Domains'
  BY DEF ManagerIInv, Domains
<1>2. Walk' /\ Apart'
  BY WalkFrame, ApartFrame DEF ManagerIInv
<1>3. Kicked'
  BY DEF ManagerIInv, Kicked, Linked
<1>4. Masked' /\ Shown'
  BY MaskedFrame, ShownFrame DEF ManagerIInv
<1> QED BY <1>1, <1>2, <1>3, <1>4 DEF ManagerIInv

(* The first command is taken out, one more is put in. *)
LEMMA Taken ==
  ASSUME Domains, cmd_q # <<>>
  PROVE  Tail(cmd_q) \in Seq(Orders) /\ Len(Tail(cmd_q)) <= CmdRoom
<1>1. cmd_q \in Seq(Orders) /\ Len(cmd_q) <= 2
  BY DEF Domains, CmdRoom
<1>2. Tail(cmd_q) \in Seq(Orders) /\ Len(Tail(cmd_q)) = Len(cmd_q) - 1 /\ Len(cmd_q) \in Nat
  BY <1>1, HeadTailProperties, LenProperties
<1> QED BY <1>1, <1>2 DEF CmdRoom

LEMMA QueueSame ==
  ASSUME ManagerIInv, UNCHANGED cmd_q
  PROVE  cmd_q' \in Seq(Orders) /\ Len(cmd_q') <= CmdRoom
  BY DEF ManagerIInv, Domains

(* A set of numbers has a least element. *)
LEMMA Smallest ==
  ASSUME NEW S \in SUBSET Nat, S # {}
  PROVE  Min(S) \in S /\ \A y \in S : Min(S) <= y
<1> DEFINE T == {0..x : x \in S}
<1>1. T \subseteq FiniteSubsetsOf(Nat) /\ T # {}
  <2>1. \A x \in S : 0 \in Int /\ x \in Int /\ 0..x \in SUBSET Nat
    OBVIOUS
  <2>2. \A x \in S : IsFiniteSet(0..x)
    BY <2>1, FS_Interval
  <2> QED BY <2>1, <2>2 DEF FiniteSubsetsOf
<1>2. PICK a \in T : \A b \in T : ~ (<<b, a>> \in StrictSubsetOrdering(Nat))
  <2> HIDE DEF T
  <2> QED BY <1>1, FS_StrictSubsetOrderingWellFounded, WFMin
<1>3. PICK x \in S : a = 0..x
  OBVIOUS
<1>4. ASSUME NEW y \in S PROVE x <= y
  <2>1. SUFFICES ASSUME y < x PROVE FALSE
    OBVIOUS
  <2>2. 0..y \subseteq 0..x /\ 0..y # 0..x /\ 0..y \in SUBSET Nat /\ 0..x \in SUBSET Nat
    BY <2>1
  <2>3. <<0..y, 0..x>> \in StrictSubsetOrdering(Nat)
    BY <2>2 DEF StrictSubsetOrdering
  <2>4. 0..y \in T
    OBVIOUS
  <2>5. ~ (<<0..y, a>> \in StrictSubsetOrdering(Nat))
    <3> HIDE DEF T
    <3> QED BY <1>2, <2>4
  <2> QED BY <1>3, <2>3, <2>5
<1> QED BY <1>4 DEF Min

(* The controllers: a link changes, and what it shows with it. *)
LEMMA LinkStep ==
  ASSUME ManagerIInv, NEW i \in Slots, NEW to \in {"page", "up", "init", "ready"},
         link' = [link EXCEPT ![i] = to],
         to = "page" => i \notin Linked,
         UNCHANGED <<out_idx, closing, before, fresh, sense, plugged, pass, at, cmd_q>>,
         UNCHANGED <<port_state, ports, booting, raced, notices>>,
         \/ UNCHANGED <<led, unled>> /\ to \in {"page", "up"}
         \/ UNCHANGED <<led, unled>> /\ to = "ready" /\ link[i] = "init"
         \/ led' = [led EXCEPT ![i] = out_idx[i]] /\ unled' = unled \ {i}
  PROVE  ManagerIInv'
<1> USE DEF ManagerIInv
<1>1. Domains'
  <2>1. link' \in [Slots -> {"free", "page", "up", "init", "ready"}] /\ led' \in [Slots -> Idx]
    BY DEF Domains
  <2> QED BY <2>1 DEF Domains
<1>2. Walk' /\ Apart'
  BY WalkFrame, ApartFrame
<1>3. Linked \subseteq Linked'
  BY DEF Domains, Linked
<1>4. Kicked'
  BY <1>3 DEF Kicked
<1>5. Masked'
  BY MaskedFrame
<1>6. Shown'
  <2>1. SUFFICES ASSUME NEW k \in Slots, k \notin unled'
                 PROVE  /\ link'[k] = "init" => led'[k] = out_idx[k]
                        /\ link'[k] = "ready" => led'[k] = out_idx[k] \/ out_idx[k] \in notices
    BY DEF Shown
  <2>2. CASE k = i
    BY <2>1, <2>2 DEF Shown, Domains
  <2>3. CASE k # i
    BY <2>1, <2>3 DEF Shown, Domains
  <2> QED BY <2>2, <2>3
<1> QED BY <1>1, <1>2, <1>4, <1>5, <1>6

LEMMA ConnectKeeps ==
  ASSUME ManagerIInv, Connect
  PROVE  ManagerIInv'
<1> DEFINE i == Min(Slots \ Active)
<1>1. i \in Slots \ Active
  <2>1. Slots \ Active \in SUBSET Nat /\ Slots \ Active # {}
    BY SysAssumption DEF Connect, Slots, Active
  <2> QED BY <2>1, Smallest
<1>2. i \in Slots /\ i \notin Linked
  BY <1>1 DEF Active, Linked
<1>3. PICK to \in {"page", "up"} : link' = [link EXCEPT ![i] = to]
  BY DEF Connect
<1> HIDE DEF i
<1>4. UNCHANGED <<out_idx, led, closing, before, fresh, sense, plugged, pass, at, cmd_q,
                  port_state, ports, booting, raced, notices, unled>>
  BY DEF Connect, envVars, taskVars, portVars, ledVars
<1> QED BY <1>2, <1>3, <1>4, LinkStep

LEMMA PagedKeeps ==
  ASSUME ManagerIInv, NEW i \in Slots, Paged(i)
  PROVE  ManagerIInv'
  BY LinkStep DEF Paged, envVars, taskVars, portVars, ledVars

LEMMA PrepareKeeps ==
  ASSUME ManagerIInv, NEW i \in Slots, Prepare(i)
  PROVE  ManagerIInv'
  BY LinkStep DEF Prepare, envVars, taskVars, portVars, ledVars

LEMMA InitDoneKeeps ==
  ASSUME ManagerIInv, NEW i \in Slots, InitDone(i)
  PROVE  ManagerIInv'
  BY LinkStep DEF InitDone, envVars, taskVars, portVars, ledVars

(* A slot that is reset takes its first number, and waits to be visited.   *)
LEMMA ResetKeeps ==
  ASSUME ManagerIInv, NEW i \in Slots, Reset(i)
  PROVE  ManagerIInv'
<1> USE DEF ManagerIInv
<1>1. /\ link' = [link EXCEPT ![i] = "free"] /\ out_idx' = [out_idx EXCEPT ![i] = i]
      /\ closing' = closing \ {i} /\ before' = before \ {i} /\ fresh' = fresh \cup {i}
      /\ UNCHANGED <<led, sense, plugged, pass, at, cmd_q, port_state, ports, booting, raced,
                     notices, unled>>
  BY DEF Reset, envVars, taskVars, ledVars
<1>2. Domains'
  <2>1. i \in Idx
    BY SysAssumption DEF Slots, Idx
  <2>2. link' \in [Slots -> {"free", "page", "up", "init", "ready"}] /\ out_idx' \in [Slots -> Idx]
    BY <1>1, <2>1 DEF Domains
  <2> QED BY <1>1, <2>2 DEF Domains
<1>3. Settled' \subseteq Settled /\ i \notin Settled'
  BY <1>1 DEF Settled, Visited
<1>4. \A k \in Settled' : out_idx'[k] = out_idx[k]
  <2>1. Settled \subseteq Slots
    BY SysAssumption DEF Settled, Visited, Slots, Domains, PassRec
  <2> QED BY <1>1, <1>3, <2>1 DEF Domains
<1>5. Walk' /\ Apart'
  BY <1>1, <1>3, <1>4 DEF Walk, Apart
<1>6. Kicked'
  <2>1. Linked \ {i} \subseteq Linked'
    BY <1>1 DEF Linked, Domains
  <2> QED BY <1>1, <2>1 DEF Kicked
<1>7. Masked'
  BY <1>1, MaskedFrame
<1>8. Shown'
  <2>1. SUFFICES ASSUME NEW k \in Slots, k \notin unled
                 PROVE  /\ link'[k] = "init" => led[k] = out_idx'[k]
                        /\ link'[k] = "ready" => led[k] = out_idx'[k] \/ out_idx'[k] \in notices
    BY <1>1 DEF Shown
  <2>2. CASE k = i
    BY <1>1, <2>2 DEF Domains
  <2>3. CASE k # i
    BY <1>1, <2>1, <2>3 DEF Shown, Domains
  <2> QED BY <2>2, <2>3
<1> QED BY <1>2, <1>5, <1>6, <1>7, <1>8

(* A pad is plugged in or taken out. *)
LEMMA PlugKeeps ==
  ASSUME ManagerIInv, NEW p \in Ports, Plug(p)
  PROVE  ManagerIInv'
<1> USE DEF ManagerIInv
<1>1. /\ sense' = IF p \in sense THEN sense \ {p} ELSE sense \cup {p}
      /\ plugged' = IF p \in sense THEN plugged \ {p} ELSE plugged \cup {p}
      /\ UNCHANGED <<link, out_idx, led, closing, before, fresh, pass, at, cmd_q, port_state, ports,
                     booting, raced, notices, unled>>
  BY DEF Plug, slotVars, taskVars, portVars, ledVars
<1>2. Domains'
  BY <1>1 DEF Domains
<1>3. Walk'
  BY <1>1, WalkFrame
<1>4. Apart'
  <2>1. Settled' = Settled
    BY <1>1 DEF Settled, Visited
  <2> QED BY <1>1, <2>1 DEF Apart
<1>5. Kicked' /\ Masked' /\ Shown'
  BY <1>1, KickedFrame, MaskedFrame, ShownFrame
<1> QED BY <1>2, <1>3, <1>4, <1>5

(* The core comes up with every port. *)
LEMMA CoreKeeps ==
  ASSUME ManagerIInv, CoreInit
  PROVE  ManagerIInv'
<1> USE DEF ManagerIInv
<1>1. /\ booting /\ booting' = FALSE /\ ports' = Ports
      /\ UNCHANGED <<link, out_idx, led, closing, before, fresh, sense, plugged, pass, at, cmd_q,
                     port_state, raced, notices, unled>>
  BY DEF CoreInit, slotVars, envVars, taskVars, ledVars
<1>2. Domains'
  BY <1>1 DEF Domains
<1>3. Masked'
  <2>1. port_state' = {} \/ raced'
    BY <1>1 DEF Masked
  <2> QED BY <1>1, <2>1 DEF Masked, MaskTrue
<1>4. Walk' /\ Apart' /\ Kicked' /\ Shown'
  BY <1>1, WalkFrame, ApartFrame, KickedFrame, ShownFrame
<1> QED BY <1>2, <1>3, <1>4

(* A notice is shown by the first ready slot with the number; another one  *)
(* with it is noted as dark.                                               *)
LEMMA NoticeKeeps ==
  ASSUME ManagerIInv, FbTask
  PROVE  ManagerIInv'
<1> USE DEF ManagerIInv
<1>1. PICK n \in notices :
        LET owners == {i \in Ready : out_idx[i] = n}
        IN /\ notices' = notices \ {n}
           /\ led' = IF owners = {} THEN led ELSE [led EXCEPT ![Min(owners)] = n]
           /\ unled' = unled \cup (owners \ {d \in owners : led'[d] = n})
  BY DEF FbTask
<1> DEFINE owners == {i \in Ready : out_idx[i] = n}
<1>2. UNCHANGED <<link, out_idx, closing, before, fresh, sense, plugged, pass, at, cmd_q, port_state,
                  ports, booting, raced>>
  BY DEF FbTask, envVars, taskVars, portVars
<1>3. owners \subseteq Slots /\ \A k \in owners : link[k] = "ready" /\ out_idx[k] = n
  BY DEF Ready
<1>4. /\ notices' = notices \ {n} /\ unled' = unled \cup (owners \ {d \in owners : led'[d] = n})
      /\ owners = {} => led' = led
      /\ owners # {} => led' = [led EXCEPT ![Min(owners)] = n]
  BY <1>1
<1>5. owners # {} => Min(owners) \in owners
  <2>1. owners \in SUBSET Nat
    BY <1>3 DEF Slots
  <2> HIDE DEF owners
  <2> QED BY <2>1, Smallest
<1>6. \A k \in Slots : k \in owners <=> link[k] = "ready" /\ out_idx[k] = n
  BY DEF Ready
<1> HIDE DEF owners
<1>7. led' \in [Slots -> Idx]
  BY <1>3, <1>4, <1>5 DEF Domains
<1>8. Domains'
  BY <1>2, <1>7 DEF Domains
<1>9. Shown'
  <2>1. SUFFICES ASSUME NEW k \in Slots, k \notin unled'
                 PROVE  /\ link[k] = "init" => led'[k] = out_idx[k]
                        /\ link[k] = "ready" => led'[k] = out_idx[k] \/ out_idx[k] \in notices'
    BY <1>2 DEF Shown
  <2>2. CASE k \in owners
    BY <1>3, <1>4, <2>1, <2>2
  <2>3. CASE k \notin owners
    <3>1. led'[k] = led[k]
      BY <1>4, <1>5, <2>3 DEF Domains
    <3>2. k \notin unled /\ (link[k] = "ready" => out_idx[k] # n)
      BY <1>4, <1>6, <2>1, <2>3
    <3> QED BY <1>4, <3>1, <3>2 DEF Shown
  <2> QED BY <2>2, <2>3
<1>10. Walk' /\ Apart' /\ Kicked' /\ Masked'
  BY <1>2, WalkFrame, ApartFrame, KickedFrame, MaskedFrame
<1> QED BY <1>8, <1>9, <1>10


(* A command is asked for; the wired driver is started again. *)
LEMMA AskKeeps ==
  ASSUME ManagerIInv, NEW c \in Orders, Ask(c)
  PROVE  ManagerIInv'
<1>1. cmd_q \in Seq(Orders) /\ Len(cmd_q) < 2 /\ cmd_q' = Append(cmd_q, c)
  BY DEF ManagerIInv, Domains, Ask, CmdRoom
<1>2. cmd_q' \in Seq(Orders) /\ Len(cmd_q') <= CmdRoom
  BY <1>1, AppendProperties, LenProperties DEF CmdRoom
<1> QED BY <1>2, QuietStep
        DEF Ask, slotVars, envVars, taskVars, portVars, ledVars, ManagerIInv, Domains

LEMMA WiredKeeps ==
  ASSUME ManagerIInv, CmdWired
  PROVE  ManagerIInv'
<1> USE DEF ManagerIInv
<1>1. /\ cmd_q # <<>> /\ cmd_q' = Tail(cmd_q) /\ booting' = TRUE /\ port_state' = {}
      /\ UNCHANGED <<link, out_idx, led, closing, before, fresh, sense, plugged, pass, at, ports,
                     raced, notices, unled>>
  BY DEF CmdWired, Carry, slotVars, envVars, taskVars, ledVars
<1>2. Domains'
  BY <1>1, Taken DEF Domains
<1>3. Masked'
  BY <1>1 DEF Masked, MaskTrue
<1>4. Walk' /\ Apart' /\ Kicked' /\ Shown'
  BY <1>1, WalkFrame, ApartFrame, KickedFrame, ShownFrame
<1> QED BY <1>2, <1>3, <1>4

(* The first state of the adapter is the one a restart leaves. *)
AsNew ==
  /\ link = [i \in Slots |-> "free"] /\ out_idx = [i \in Slots |-> i]
  /\ led = [i \in Slots |-> i] /\ closing = {} /\ before = {}
  /\ sense \subseteq Ports /\ plugged = sense
  /\ at = "idle" /\ pass = NoPass /\ cmd_q = <<>>
  /\ port_state = {} /\ ports = Ports /\ booting = FALSE

LEMMA AsNewHolds == AsNew => ManagerIInv
<1> SUFFICES ASSUME AsNew PROVE ManagerIInv
  OBVIOUS
<1>1. NoPass \in PassRec
  BY SysAssumption DEF NoPass, PassRec, Idx
<1>2. <<>> \in Seq(Orders) /\ Len(<<>>) = 0
  BY EmptySeq
<1>3. Slots \subseteq Idx
  BY SysAssumption DEF Slots, Idx
<1>4. Domains
  BY <1>1, <1>2, <1>3 DEF AsNew, Domains, CmdRoom
<1>5. Walk /\ Apart
  BY DEF AsNew, Walk, Apart, Settled, Visited
<1>6. Kicked /\ Masked /\ Shown
  BY DEF AsNew, Kicked, Masked, MaskTrue, Shown
<1> QED BY <1>4, <1>5, <1>6 DEF ManagerIInv

LEMMA RestartKeeps ==
  ASSUME ManagerIInv, Restarts
  PROVE  ManagerIInv'
<1>1. AsNew'
  BY DEF Restarts, ManagerIInv, Domains, AsNew
<1> QED BY <1>1, AsNewHolds, PTL

LEMMA CommandKeeps ==
  ASSUME ManagerIInv, Command
  PROVE  ManagerIInv'
<1>1. CASE CmdOff
  <2>1. cmd_q' \in Seq(Orders) /\ Len(cmd_q') <= CmdRoom
    BY <1>1, Taken DEF CmdOff, Carry, ManagerIInv
  <2> QED BY <1>1, <2>1, KickStep
          DEF CmdOff, DisconnectAll, envVars, taskVars, portVars, ledVars, ManagerIInv, Domains
<1>2. CASE CmdInquiry
  <2>1. cmd_q' \in Seq(Orders) /\ Len(cmd_q') <= CmdRoom
    BY <1>2, Taken DEF CmdInquiry, Carry, ManagerIInv
  <2> QED BY <1>2, <2>1, QuietStep
          DEF CmdInquiry, slotVars, envVars, taskVars, portVars, ledVars, ManagerIInv, Domains
<1>3. CASE CmdWired
  BY <1>3, WiredKeeps
<1>4. CASE CmdRestart
  BY <1>4, RestartKeeps DEF CmdRestart
<1> QED BY <1>1, <1>2, <1>3, <1>4 DEF Command

(* The button. *)
LEMMA ButtonKeeps ==
  ASSUME ManagerIInv, Press \/ Held \/ PowerOff \/ InhibitEnd
  PROVE  ManagerIInv'
<1>1. CASE Press
  <2>1. cmd_q' \in Seq(Orders) /\ Len(cmd_q') <= CmdRoom
    BY <1>1, QueueSame DEF Press
  <2> QED BY <1>1, <2>1, QuietStep DEF Press, Goto, slotVars, envVars, portVars, ledVars
<1>2. CASE Held
  <2>1. PICK hold \in 0..3 : Release(hold) \/ ReleaseLong(hold)
    BY <1>2 DEF Held
  <2>2. CASE Release(hold)
    <3>1. cmd_q' \in Seq(Orders) /\ Len(cmd_q') <= CmdRoom
      BY <2>2, QueueSame DEF Release
    <3>2. closing' = closing \/ closing' = closing \cup Linked
      BY <2>2, Zenon DEF Release, DisconnectAll
    <3>3. at = "held" /\ at' = "idle" /\ UNCHANGED pass
      BY <2>2 DEF Release, Goto
    <3>4. UNCHANGED <<link, out_idx, led, fresh, before, sense, plugged, port_state, ports, booting,
                      raced, notices, unled>>
      BY <2>2 DEF Release, envVars, portVars, ledVars
    <3> QED BY <3>1, <3>2, <3>3, <3>4, KickStep
  <2>3. CASE ReleaseLong(hold)
    BY <2>3, RestartKeeps DEF ReleaseLong
  <2> QED BY <2>1, <2>2, <2>3
<1>3. CASE PowerOff
  <2>1. cmd_q' \in Seq(Orders) /\ Len(cmd_q') <= CmdRoom
    BY <1>3, QueueSame DEF PowerOff
  <2> QED BY <1>3, <2>1, KickStep
          DEF PowerOff, DisconnectAll, envVars, portVars, ledVars, ManagerIInv, Domains
<1>4. CASE InhibitEnd
  <2>1. cmd_q' \in Seq(Orders) /\ Len(cmd_q') <= CmdRoom
    BY <1>4, QueueSame DEF InhibitEnd
  <2> QED BY <1>4, <2>1, QuietStep
          DEF InhibitEnd, slotVars, envVars, portVars, ledVars, ManagerIInv, Domains
<1> QED BY <1>1, <1>2, <1>3, <1>4

(* The power of the console. *)
LEMMA PowerKeeps ==
  ASSUME ManagerIInv, ConsoleOn \/ ConsoleFell \/ ConsoleWake \/ ConsoleOff \/ Woken
  PROVE  ManagerIInv'
<1>1. cmd_q' \in Seq(Orders) /\ Len(cmd_q') <= CmdRoom
  BY QueueSame DEF ConsoleOn, ConsoleFell, ConsoleWake, ConsoleOff, Woken
<1>2. CASE ConsoleFell
  <2>1. at = "power" /\ at' = "idle"
    BY <1>2 DEF ConsoleFell, PowerStep
  <2> QED BY <1>1, <1>2, <2>1, KickStep
          DEF ConsoleFell, DisconnectAll, envVars, portVars, ledVars
<1>3. CASE ConsoleOn \/ ConsoleWake \/ ConsoleOff \/ Woken
  <2>1. at \in {"power", "wake"} /\ at' \in {"idle", "wake"}
    BY <1>3 DEF ConsoleOn, ConsoleWake, ConsoleOff, Woken, PowerStep, Goto
  <2>2. UNCHANGED <<link, out_idx, led, closing, before, fresh, sense, plugged, pass, port_state,
                    ports, booting, raced, notices, unled>>
    BY <1>3 DEF ConsoleOn, ConsoleWake, ConsoleOff, Woken, Goto, slotVars, envVars, portVars,
                ledVars
  <2> QED BY <1>1, <2>1, <2>2, QuietStep
<1> QED BY <1>2, <1>3


(* A pass begins, visits a slot and ends. *)
LEMMA StartKeeps ==
  ASSUME ManagerIInv, PassStart
  PROVE  ManagerIInv'
<1> USE DEF ManagerIInv
<1>1. /\ at' = "ports" /\ pass' = NoPass
      /\ UNCHANGED <<link, out_idx, led, closing, before, fresh, sense, plugged, cmd_q, port_state,
                     ports, booting, raced, notices, unled>>
  BY DEF PassStart, slotVars, envVars, portVars, ledVars
<1>2. NoPass \in PassRec
  BY SysAssumption DEF NoPass, PassRec, Idx
<1>3. Domains'
  BY <1>1, <1>2 DEF Domains
<1>4. Settled' = {}
  BY <1>1 DEF Settled, Visited, NoPass
<1>5. Walk' /\ Apart'
  BY <1>1, <1>4, SysAssumption DEF Walk, Apart, NoPass
<1>6. Kicked' /\ Masked' /\ Shown'
  BY <1>1, KickedFrame, MaskedFrame, ShownFrame
<1> QED BY <1>3, <1>5, <1>6

LEMMA Advance ==
  ASSUME NEW x \in Nat, NEW j \in Nat, NEW s \in Nat, NEW n \in Nat, NEW k \in Nat,
         j <= s, s <= n, x <= n + k, j = x \/ (j = n /\ x >= n)
  PROVE  x + s - j \in Nat /\ x + s - j >= x /\ x + s - j + 1 <= n + k + 1
<1>1. CASE j = x
  BY <1>1
<1>2. CASE j = n /\ x >= n
  <2>1. s = n
    BY <1>2
  <2> QED BY <1>2, <2>1
<1> QED BY <1>1, <1>2

(* The number a slot gets: above those given in this pass, of a port       *)
(* without a pad as long as there is one.                                  *)
LEMMA NextNumber ==
  ASSUME Domains, Walk, at = "ports", pass.i < NDev,
         NEW stop, stop = LET free == {p \in Ports \ sense : p >= pass.j}
                          IN  IF free = {} THEN NPort ELSE Min(free)
  PROVE  LET idx == pass.idx + stop - pass.j
             j2 == Min({stop + 1, NPort})
         IN  /\ stop \in pass.j..NPort /\ idx \in Idx /\ idx >= pass.idx /\ idx + 1 \in Nat
             /\ idx \notin sense
             /\ j2 \in 0..NPort /\ idx + 1 <= NPort + pass.i + 1
             /\ j2 = idx + 1 \/ (j2 = NPort /\ idx + 1 >= NPort)
             /\ \A p \in sense : p \in pass.j..stop => p >= pass.idx
<1> DEFINE free == {p \in Ports \ sense : p >= pass.j}
           idx == pass.idx + stop - pass.j
           j2 == Min({stop + 1, NPort})
<1>1. /\ pass.i \in 0..NDev /\ pass.j \in 0..NPort /\ pass.idx \in Nat /\ sense \subseteq Ports
      /\ NPort \in Nat /\ NDev \in Nat /\ Ports = 0..(NPort - 1)
  BY SysAssumption DEF Domains, PassRec, Ports
<1>2. /\ pass.idx <= NPort + pass.i
      /\ pass.j = pass.idx \/ (pass.j = NPort /\ pass.idx >= NPort)
  BY DEF Walk
<1>3. stop \in pass.j..NPort /\ (stop = NPort \/ stop \in Ports \ sense)
  <2>1. CASE free = {}
    BY <1>1, <2>1
  <2>2. CASE free # {}
    <3>1. free \in SUBSET Nat /\ stop = Min(free)
      BY <1>1, <2>2
    <3>2. stop \in free
      <4> HIDE DEF free
      <4> QED BY <2>2, <3>1, Smallest
    <3>3. stop \in 0..(NPort - 1) /\ stop >= pass.j /\ stop \in Ports \ sense
      BY <1>1, <3>2
    <3> QED BY <1>1, <3>3
  <2> QED BY <2>1, <2>2
<1>4. j2 \in {stop + 1, NPort} /\ j2 <= stop + 1 /\ j2 <= NPort
  <2>1. {stop + 1, NPort} \in SUBSET Nat
    BY <1>1, <1>3
  <2> QED BY <2>1, Smallest
<1> HIDE DEF free, j2
<1>5. idx \in Nat /\ idx >= pass.idx /\ idx + 1 <= NPort + pass.i + 1
  <2>1. stop \in Nat /\ stop >= pass.j /\ stop <= NPort /\ pass.i \in Nat
    BY <1>1, <1>3
  <2> QED BY <1>1, <1>2, <2>1, Advance
<1>6. idx \in Idx
  BY <1>1, <1>5 DEF Idx
<1>7. idx \notin sense
  BY <1>1, <1>2, <1>3
<1>8. j2 \in 0..NPort /\ (j2 = idx + 1 \/ (j2 = NPort /\ idx + 1 >= NPort))
  BY <1>1, <1>2, <1>3, <1>4
<1>9. \A p \in sense : p \in pass.j..stop => p >= pass.idx
  BY <1>1, <1>2, <1>3
<1> QED BY <1>3, <1>5, <1>6, <1>7, <1>8, <1>9 DEF j2

LEMMA VisitKeeps ==
  ASSUME ManagerIInv, NEW i \in Slots, Visit(i)
  PROVE  ManagerIInv'
<1> USE DEF ManagerIInv
<1> DEFINE free == {p \in Ports \ sense : p >= pass.j}
           stop == IF free = {} THEN NPort ELSE Min(free)
           idx == pass.idx + stop - pass.j
           j2 == Min({stop + 1, NPort})
<1>1. at = "ports" /\ pass.i = i /\ pass \in PassRec /\ pass.i < NDev
  BY SysAssumption DEF Visit, Domains, Slots
<1>2. /\ out_idx' = [out_idx EXCEPT ![i] = idx]
      /\ pass' = [pass EXCEPT !.i = i + 1, !.j = j2, !.idx = idx + 1,
                              !.mask = @ \cup (IF hotplug /\ i \notin Ready THEN {} ELSE {idx}),
                              !.update = @ \/ idx # out_idx[i]]
      /\ plugged' = plugged \ (pass.j..stop) /\ fresh' = fresh \ {i} /\ Notify(i, idx)
      /\ UNCHANGED <<link, led, closing, before, sense, at, cmd_q, port_state, ports, booting, raced>>
  BY DEF Visit, portVars
<1>3. /\ stop \in pass.j..NPort /\ idx \in Idx /\ idx >= pass.idx /\ idx + 1 \in Nat
      /\ idx \notin sense
      /\ j2 \in 0..NPort /\ idx + 1 <= NPort + pass.i + 1
      /\ j2 = idx + 1 \/ (j2 = NPort /\ idx + 1 >= NPort)
      /\ \A p \in sense : p \in pass.j..stop => p >= pass.idx
  BY <1>1, NextNumber
<1> HIDE DEF free, stop, idx, j2
<1>4. /\ pass' \in PassRec
      /\ pass'.i = i + 1 /\ pass'.j = j2 /\ pass'.idx = idx + 1
  <2>1. i + 1 \in 0..NDev
    BY <1>1, SysAssumption DEF Slots
  <2>2. pass.mask \cup (IF hotplug /\ i \notin Ready THEN {} ELSE {idx}) \in SUBSET Idx
    BY <1>1, <1>3 DEF PassRec
  <2>3. (pass.update \/ idx # out_idx[i]) \in BOOLEAN
    OBVIOUS
  <2> DEFINE m == pass.mask \cup (IF hotplug /\ i \notin Ready THEN {} ELSE {idx})
             u == pass.update \/ idx # out_idx[i]
  <2>4. pass' = [pass EXCEPT !.i = i + 1, !.j = j2, !.idx = idx + 1, !.mask = m, !.update = u]
    BY <1>1, <1>2 DEF PassRec
  <2>5. m \in SUBSET Idx /\ u \in BOOLEAN
    BY <2>2, <2>3
  <2> HIDE DEF m, u
  <2> QED BY <1>1, <1>3, <2>1, <2>4, <2>5 DEF PassRec
<1>5. Domains'
  BY <1>2, <1>3, <1>4 DEF Domains
<1>6. /\ Settled' \subseteq Settled \cup {i} /\ i \in Slots
      /\ Settled \subseteq Slots /\ i \notin Settled
  BY <1>1, <1>2, <1>4, SysAssumption DEF Settled, Visited, Slots
<1>7. /\ out_idx'[i] = idx
      /\ \A k \in Settled : out_idx'[k] = out_idx[k] /\ out_idx[k] < pass.idx /\ out_idx[k] \in Idx
  BY <1>1, <1>2, <1>6 DEF Domains, Walk
<1>8. \A k \in Settled : out_idx[k] < idx
  <2>1. pass.idx \in Int /\ idx \in Int /\ \A k \in Settled : out_idx[k] \in Int
    BY <1>1, <1>3, <1>7, SysAssumption DEF PassRec, Idx
  <2> QED BY <1>3, <1>7, <2>1
<1>9. Walk'
  <2>1. \A k \in Settled' : out_idx'[k] < idx + 1
    <3>1. idx \in Int /\ \A k \in Settled : out_idx[k] \in Int
      BY <1>3, <1>7, SysAssumption DEF Idx
    <3> QED BY <1>6, <1>7, <1>8, <3>1
  <2>2. pass'.idx <= NPort + pass'.i
    BY <1>1, <1>3, <1>4, SysAssumption DEF PassRec, Idx
  <2> QED BY <1>3, <1>4, <2>1, <2>2 DEF Walk
<1>10. Apart'
  <2>1. \A k \in Settled : out_idx[k] # idx
    <3>1. idx \in Int /\ \A k \in Settled : out_idx[k] \in Int
      BY <1>3, <1>7, SysAssumption DEF Idx
    <3> QED BY <1>8, <3>1
  <2>2. \A k \in Settled', l \in Settled' : out_idx'[k] = out_idx'[l] => k = l
    BY <1>6, <1>7, <2>1 DEF Apart
  <2>3. ASSUME NEW k \in Settled', out_idx'[k] \in sense
        PROVE  out_idx'[k] \in plugged'
    <3>1. k \in Settled /\ out_idx[k] \in sense /\ out_idx'[k] = out_idx[k]
      BY <1>3, <1>6, <1>7, <2>3
    <3>2. out_idx[k] \in plugged
      BY <3>1 DEF Apart
    <3>3. out_idx[k] \notin pass.j..stop
      <4>1. pass.idx \in Int /\ out_idx[k] \in Int /\ out_idx[k] < pass.idx
        BY <1>1, <1>7, <3>1, SysAssumption DEF PassRec, Idx
      <4> QED BY <1>3, <3>1, <4>1
    <3> QED BY <1>2, <3>1, <3>2, <3>3
  <2> QED BY <1>2, <2>2, <2>3 DEF Apart
<1>11. Kicked' /\ Masked'
  BY <1>2, KickedFrame, MaskedFrame
<1>12. Shown'
  <2>1. SUFFICES ASSUME NEW k \in Slots, k \notin unled'
                 PROVE  /\ link[k] = "init" => led[k] = out_idx'[k]
                        /\ link[k] = "ready" => led[k] = out_idx'[k] \/ out_idx'[k] \in notices'
    BY <1>2 DEF Shown
  <2>2. notices \subseteq notices' /\ unled \subseteq unled'
    BY <1>2, Zenon DEF Notify
  <2>3. idx # out_idx[i] => i \in unled' \/ (i \in Ready /\ idx \in notices')
    BY <1>2, Zenon DEF Notify
  <2>4. i \in Ready => link[i] # "init"
    BY DEF Ready
  <2>5. CASE k = i /\ idx # out_idx[i]
    BY <1>7, <2>1, <2>3, <2>4, <2>5
  <2>6. CASE k # i \/ idx = out_idx[i]
    <3>1. out_idx'[k] = out_idx[k] /\ k \notin unled
      BY <1>2, <2>1, <2>2, <2>6 DEF Domains
    <3> QED BY <2>2, <3>1 DEF Shown
  <2> QED BY <2>5, <2>6
<1> QED BY <1>5, <1>9, <1>10, <1>11, <1>12

LEMMA EndKeeps ==
  ASSUME ManagerIInv, PassEnd
  PROVE  ManagerIInv'
<1> USE DEF ManagerIInv
<1>1. /\ at = "ports" /\ pass.i = NDev /\ at' \in {"idle", "power"} /\ pass' = NoPass
      /\ UNCHANGED <<link, out_idx, led, closing, before, fresh, sense, plugged, cmd_q, booting,
                     notices, unled>>
  BY DEF PassEnd, slotVars, envVars, ledVars
<1>2. \/ port_state' = pass.mask /\ ports' = pass.mask \cap Ports /\ raced' = booting
      \/ UNCHANGED <<port_state, ports, raced>>
  BY Zenon DEF PassEnd
<1>3. pass.mask \subseteq Idx /\ NoPass \in PassRec
  BY SysAssumption DEF Domains, PassRec, NoPass, Idx
<1>4. Domains'
  BY <1>1, <1>2, <1>3 DEF Domains
<1>5. Settled' = Settled
  BY <1>1 DEF Settled, Visited, Slots
<1>6. Walk' /\ Apart'
  BY <1>1, <1>5 DEF Walk, Apart
<1>7. Masked'
  BY <1>1, <1>2 DEF Masked, MaskTrue
<1>8. Kicked' /\ Shown'
  BY <1>1, KickedFrame, ShownFrame
<1> QED BY <1>4, <1>6, <1>7, <1>8

LEMMA NextManager == ManagerIInv /\ [ManagerNext]_managerVars => ManagerIInv'
<1> SUFFICES ASSUME ManagerIInv, [ManagerNext]_managerVars PROVE ManagerIInv'
  OBVIOUS
<1>1. CASE Connect
  BY <1>1, ConnectKeeps
<1>2. ASSUME NEW i \in Slots, Paged(i) \/ Prepare(i) \/ InitDone(i) \/ Leave(i) PROVE ManagerIInv'
  BY <1>2, PagedKeeps, PrepareKeeps, InitDoneKeeps, ResetKeeps DEF Leave
<1>3. CASE Ends
  BY <1>3, ResetKeeps DEF Ends, Closed
<1>4. ASSUME NEW p \in Ports, Plug(p) PROVE ManagerIInv'
  BY <1>4, PlugKeeps
<1>5. CASE Power \/ Written \/ Stored
  <2>1. cmd_q' \in Seq(Orders) /\ Len(cmd_q') <= CmdRoom
    BY <1>5, QueueSame DEF Power, Written, Stored
  <2> QED BY <1>5, <2>1, QuietStep
          DEF Power, Written, Stored, slotVars, taskVars, portVars, ledVars, ManagerIInv, Domains
<1>6. CASE CoreInit \/ FbTask
  BY <1>6, CoreKeeps, NoticeKeeps
<1>7. ASSUME NEW c \in Orders, Ask(c) PROVE ManagerIInv'
  BY <1>7, AskKeeps
<1>8. CASE Command
  BY <1>8, CommandKeeps
<1>9. CASE Press \/ Held \/ PowerOff \/ InhibitEnd
  BY <1>9, ButtonKeeps
<1>10. CASE Pass
  BY <1>10, StartKeeps, VisitKeeps, EndKeeps, PowerKeeps DEF Pass
<1>11. CASE UNCHANGED managerVars
  <2>1. cmd_q' \in Seq(Orders) /\ Len(cmd_q') <= CmdRoom
    BY <1>11, QueueSame DEF managerVars
  <2> QED BY <1>11, <2>1, QuietStep
          DEF managerVars, slotVars, envVars, taskVars, portVars, ledVars, ManagerIInv, Domains
<1> QED BY <1>1, <1>2, <1>3, <1>4, <1>5, <1>6, <1>7, <1>8, <1>9, <1>10, <1>11
        DEF ManagerNext, Orders

(* The strengthening says what the run checks. *)
LEMMA ManagerImplies == ManagerIInv => ManagerSound
<1> SUFFICES ASSUME ManagerIInv PROVE ManagerSound
  OBVIOUS
<1> USE DEF ManagerIInv
<1>1. ManagerTypes
  BY DEF ManagerTypes, Domains, Kicked, PassRec
<1>2. PortsDistinct
  BY DEF PortsDistinct, Apart, Settled, Visited
<1>3. MaskTrue
  BY DEF Masked
<1>4. LedTrue
  BY DEF LedTrue, Shown, Ready
<1> QED BY <1>1, <1>2, <1>3, <1>4 DEF ManagerSound

(* Whatever comes and goes while the manager walks over the slots, no two  *)
(* controllers are left on one port or on that of a wired pad, the driver  *)
(* serves the mask the manager gave it, and the LEDs show the ports.       *)
THEOREM ManagerTrue == ManagerSpec => []ManagerSound
<1>1. ManagerInit => ManagerIInv
  BY AsNewHolds DEF ManagerInit, AsNew
<1>2. ManagerSpec => []ManagerIInv
  BY <1>1, NextManager, PTL DEF ManagerSpec
<1> QED BY <1>2, ManagerImplies, PTL

(* A console that is off is not switched on for a controller that was sent *)
(* away and has gone: who was linked when it fell is still to be ended.    *)
THEOREM WakeJustified == ManagerSpec => WakeHasCause
<1>1. ManagerInit => ManagerIInv
  BY AsNewHolds DEF ManagerInit, AsNew
<1>2. ManagerIInv /\ [ManagerNext]_managerVars =>
        [at # "wake" /\ at' = "wake" => \E i \in Ready : i \notin before \/ i \in closing]_managerVars
  <2> SUFFICES ASSUME ManagerIInv, ManagerNext, at # "wake", at' = "wake"
               PROVE  \E i \in Ready : i \notin before \/ i \in closing
    OBVIOUS
  <2>1. Ready # {}
    <3>1. CASE ConsoleWake
      BY <3>1 DEF ConsoleWake
    <3>2. CASE Command \/ Press \/ Held \/ PowerOff \/ InhibitEnd
      BY <3>2 DEF Command, CmdOff, CmdInquiry, CmdWired, CmdRestart, Restarts, Press, Held, Release,
                  ReleaseLong, PowerOff, InhibitEnd, Goto, taskVars
    <3>3. CASE Pass
      BY <3>1, <3>3 DEF Pass, PassStart, Visit, PassEnd, ConsoleOn, ConsoleFell, ConsoleOff, Woken,
                        PowerStep, Goto
    <3>4. CASE Connect \/ Ends \/ Power \/ Written \/ Stored \/ CoreInit \/ FbTask
      BY <3>4 DEF Connect, Ends, Closed, Reset, Power, Written, Stored, CoreInit, FbTask, taskVars
    <3>5. CASE \E i \in Slots : Paged(i) \/ Prepare(i) \/ InitDone(i) \/ Leave(i)
      BY <3>5 DEF Paged, Prepare, InitDone, Leave, Reset, taskVars
    <3>6. CASE (\E p \in Ports : Plug(p)) \/ \E c \in Orders : Ask(c)
      BY <3>6 DEF Plug, Ask, taskVars
    <3> QED BY <3>2, <3>3, <3>4, <3>5, <3>6 DEF ManagerNext, Orders
  <2> QED BY <2>1 DEF ManagerIInv, Kicked
<1> QED BY <1>1, <1>2, NextManager, PTL DEF ManagerSpec, WakeHasCause
=============================================================================
