------------------------------- MODULE PsCard -------------------------------
(***************************************************************************)
(* The memory card of a PlayStation port (wired/ps_spi.c): what spi_isr,   *)
(* ps_mc_hdlr and packet_end keep from one packet to the next.             *)
(*                                                                         *)
(* A packet lasts while the console holds DTR low; it may let go at any    *)
(* byte.  Packets are received into two buffers in turn, which are never   *)
(* cleared, and packet_end acts on mc_cmd, mc_addr, mc_crc and the buffer  *)
(* whether or not this packet has filled them.  A buffer is its bytes 4 to *)
(* 133 (body: the block of a write, or a game id) and its byte 134 (crc).  *)
(* The interrupts of a port never run together, so a packet is one step.   *)
(***************************************************************************)
EXTENDS Integers

CONSTANTS
  Addrs,      \* blocks of the card, of 128 bytes: an initial part of Nat
  Words,      \* contents of a block: even or odd, by their exclusive or
  GameIds,    \* names the console may send with MC_CMD_GID
  MaxPackets  \* bound: packets of the port

\* The last byte of a packet: the address byte, the command, half of the block
\* number, all of it, part of the body, the body, the checksum and the status
Reach == {"address", "cmd", "msb", "lsb", "part", "body", "all"}
Past(field) ==
  CASE field = "cmd" -> Reach \ {"address"}
    [] field = "msb" -> Reach \ {"address", "cmd"}
    [] field = "lsb" -> Reach \ {"address", "cmd", "msb"}
    [] field = "body" -> {"body", "all"}
    [] field = "all" -> {"all"}

Bodies == Words \cup GameIds \cup {"junk"}
\* The exclusive or of the bytes 4 to 133
Sum(a, d) == IF d = "odd" THEN (a + 1) % 2 ELSE a % 2

VARIABLES
  usable,        \* acc_mode & ACC_MEM, and mc_get_ready
  active_port_type, mc_cmd, mc_addr, mc_crc, mc_flags,
  rx_buf, active_rx_buf,
  card,          \* memory_card.c: mc_buffer
  gid,           \* the game id last given to adapter_q_fb
  packets,       \* bound
  kept,          \* history: the blocks the console was told are stored
  suspect,       \* history: the blocks that a write cut short was about
  echo           \* history: packet_end took a packet for a game id that was none

mcVars == <<mc_cmd, mc_addr, mc_crc, mc_flags>>
vars == <<usable, active_port_type, mcVars, rx_buf, active_rx_buf, card, gid, packets, kept, suspect, echo>>

Init ==
  /\ usable \in BOOLEAN /\ active_port_type = "ctrl"
  /\ mc_cmd = "none" /\ mc_addr = 0 /\ mc_crc = 0 /\ mc_flags = "new"
  /\ rx_buf = [b \in {0, 1} |-> [body |-> "junk", crc |-> 0]] /\ active_rx_buf = 0
  /\ card = [a \in Addrs |-> "even"] /\ kept = card /\ gid = "none" /\ packets = 0 /\ suspect = {} /\ echo = FALSE

Event == packets < MaxPackets /\ packets' = packets + 1

\* config_update, or the card is loaded
Usable == usable' = ~usable
          /\ UNCHANGED <<active_port_type, mcVars, rx_buf, active_rx_buf, card, gid, kept, suspect, echo, packets>>

\* spi_isr, the bytes of a card packet: what the active buffer then holds
Received(cmd, body, crc, reach) ==
  LET was == rx_buf[active_rx_buf].body IN
  [body |-> IF reach \in Past("body") THEN body
            ELSE IF reach = "part" \/ (reach \in Past("msb") /\ was \notin Words)
            THEN "junk" ELSE was,
   crc |-> IF reach = "all" /\ cmd \in {"read", "write"} THEN crc ELSE rx_buf[active_rx_buf].crc]

\* A packet for the card.  Without a card only MC_CMD_GID is listened to
Card(cmd, a, body, crc, reach) ==
  LET heard == usable \/ cmd = "gid"
      got == IF heard THEN Received(cmd, body, crc, reach) ELSE rx_buf[active_rx_buf]
      now == IF reach \in Past("cmd") THEN cmd ELSE mc_cmd
      addr == IF ~heard \/ cmd \notin {"read", "write"} THEN mc_addr
              ELSE IF reach \in Past("lsb") THEN a
              ELSE IF reach \in Past("msb") THEN 0 ELSE mc_addr
      sum == IF heard /\ cmd = "write" /\ reach = "all" THEN Sum(a, body) ELSE mc_crc
      valid == usable /\ (cmd \in {"gid", "read", "id", "write"} \/ reach = "address")
      stored == valid /\ now = "write" /\ sum = got.crc
      told == valid /\ cmd = "write" /\ reach = "all" /\ Sum(a, body) = crc
  IN /\ Event /\ active_port_type' = "mem" /\ mc_cmd' = now /\ mc_addr' = addr /\ mc_crc' = sum
     /\ mc_flags' = IF ~usable THEN "new" ELSE IF valid THEN "old" ELSE mc_flags
     /\ rx_buf' = [rx_buf EXCEPT ![active_rx_buf] = got]
     /\ active_rx_buf' = IF valid THEN 1 - active_rx_buf ELSE active_rx_buf
     /\ card' = IF stored THEN [card EXCEPT ![addr] = got.body] ELSE card
     /\ gid' = IF now = "gid" THEN got.body ELSE gid
     /\ kept' = IF told THEN [kept EXCEPT ![a] = body] ELSE kept
     /\ suspect' = (IF told THEN suspect \ {a} ELSE suspect)
                    \cup (IF valid /\ now = "write" /\ reach # "all" THEN {addr} ELSE {})
     /\ echo' = (echo \/ (now = "gid" /\ ~(cmd = "gid" /\ reach = "all")))
     /\ UNCHANGED usable

CardWrite == \E a \in Addrs, d \in Words, crc \in {0, 1}, reach \in Reach : Card("write", a, d, crc, reach)
CardRead == \E a \in Addrs, reach \in Reach : Card("read", a, "junk", 0, reach)
CardId == \E reach \in {"address", "cmd", "part"} : Card("id", 0, "junk", 0, reach)
CardGid == \E g \in GameIds, reach \in Reach : Card("gid", 0, g, 0, reach)
\* A command ps_mc_hdlr does not know ends the packet
CardOther == Card("other", 0, "junk", 0, "cmd")

\* A packet for the controller: packet_end leaves the card alone
Pad ==
  /\ Event /\ active_port_type' = "ctrl"
  /\ rx_buf' = [rx_buf EXCEPT ![active_rx_buf].body = "junk"]
  /\ active_rx_buf' = 1 - active_rx_buf
  /\ UNCHANGED <<usable, mcVars, card, gid, kept, suspect, echo>>

\* A packet for another device of the port: not valid, and packet_end still acts on
\* the type and the command of an earlier packet
Foreign ==
  LET again == active_port_type = "mem" /\ mc_cmd = "gid"
  IN /\ Event /\ gid' = IF again THEN rx_buf[active_rx_buf].body ELSE gid
     /\ echo' = (echo \/ again)
     /\ UNCHANGED <<usable, active_port_type, mcVars, rx_buf, active_rx_buf, card, kept, suspect>>

Next == Usable \/ CardWrite \/ CardRead \/ CardId \/ CardGid \/ CardOther \/ Pad \/ Foreign

Spec == Init /\ [][Next]_vars
-----------------------------------------------------------------------------
TypeOK ==
  /\ usable \in BOOLEAN /\ active_port_type \in {"ctrl", "mem"}
  /\ mc_cmd \in {"none", "read", "write", "id", "gid", "other"} /\ mc_addr \in Addrs
  /\ mc_crc \in {0, 1} /\ mc_flags \in {"new", "old"} /\ active_rx_buf \in {0, 1}
  /\ rx_buf \in [{0, 1} -> [body : Bodies, crc : {0, 1}]]
  /\ card \in [Addrs -> Bodies] /\ kept \in [Addrs -> Words] /\ gid \in Bodies \cup {"none"}
  /\ suspect \subseteq Addrs /\ packets \in 0..MaxPackets /\ echo \in BOOLEAN

\* A block holds the last contents whose write was answered with the good status,
\* unless a write packet that was cut short named it since: such a packet is compared
\* with the checksum of an earlier write, and may store what an earlier packet left
CardKeeps == \A a \in Addrs : card[a] = kept[a] \/ a \in suspect

\* The game id that selects the configuration is one the console sent, unless a
\* packet cut short, or one for another device, was taken for its command
GidSound == gid \in GameIds \cup {"none"} \/ echo

CardInv == TypeOK /\ CardKeeps /\ GidSound
=============================================================================
