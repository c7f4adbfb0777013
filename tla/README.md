# Verification of BlueRetro

BlueRetro is ESP32 firmware that connects Bluetooth game controllers to retro
consoles. This directory holds TLA+ models of its stateful parts, the TLC
configurations that check them on small instances, and TLAPS proofs of what
holds for instances of any size. Everything is translated from the C code
under `src/`; paths below are relative to it.

## 1. Inventory

Who runs:

| context | priority | runs |
|---|---|---|
| Bluetooth controller callback, core 0 | highest | `bt_host_rx_pkt`: every HCI event and ACL packet, to the end |
| esp_timer task, core 0 | next | `mc_store_cb`, `adapter_fb_stop_cb`, `bt_hid_sw_init_callback`, turbo |
| `bt_tx_task` (11), `bt_fb_task` (10), core 0 | | send HCI packets; handle feedback of the console |
| `bt_host_task`, `sys_mgr_task` (5), core 0 | | SDP results and HID init; button, power, LEDs, ports |
| `wl_init_task` then idle, core 0 | | start-up: file system, configuration, card, Bluetooth |
| `wired_init_task` and interrupt handlers, core 1 | bare metal | console protocols: read controller state, write cards, queue feedback |

No locks: what these contexts share they share by order of writes, atomic bits,
ring buffers and two lock-free queues. That is where the hard behaviours are.

| component | state | operations | interacts with | correct when |
|---|---|---|---|---|
| device slots and links (`bluetooth/hci.c`, `host.c`) | `bt_dev[]`, `bt_dev_conf`, inquiry state and count | one handler per HCI event; button's stop, start, disconnect all | controller (commands, events), sys_mgr, every profile through the slot | one slot per peer and per link, no slot waits for nothing, an idle adapter looks for devices |
| HCI configuration (`hci.c` 159-216, 1626-1798) | `bt_config_state`, retry count, accept list cursor | next command on each completion, retry, restart | controller, key store | every command done once before links are accepted |
| link keys (`host.c` 98-174, 609-711) | two 16-entry rings, two files | load, store, clear | HCI and SMP events, file system | a power cut never loses a key already stored; a peer has one entry |
| L2CAP (`l2cap.c`) | three channels per slot, identifiers | connect, configure, disconnect, both directions | SDP, HID | a channel is used when both sides are configured |
| SDP and host task (`sdp.c`, `host.c` 275-308) | reassembled attribute data | query, continuation, decode | L2CAP, HID | the device type is decided once, on complete data |
| HID profiles (`hidp/*.c`) | `hid_state`, retry count, timer | initialisation handshake, reports, feedback | L2CAP or ATT, adapter | initialisation ends, in order, for the right slot |
| ATT client and server (`att_hid.c`, `att_cfg.c`) | discovery state; file and config cursors | discovery of HID over GATT; config interface | SMP, config, card | discovery ends, handles belong to the device |
| SMP (`smp.c`) | key material per slot; FIFO of callbacks | pairing | HCI rand/encrypt, keys | a reply goes to the device that asked |
| ACL and transmit (`host.c` 176-202, 310-371, 597-607) | reassembly buffer, ring buffer | fragment, send, wait packets | controller, all senders | packets whole and in order |
| feedback queue and mute (`queue_bss.c`, `adapter.c`) | two inner queues, `rumble_mute`, timers | enqueue, dequeue, return, mute | core 1, bt_fb_task, timers | no item lost but for lack of room, none overwritten |
| memory card (`adapter/memory_card.c`) | RAM blocks, dirty bits, timer, file | read, write, restore, store | consoles, config interface, queue | what was written reaches the file |
| configuration file (`adapter/config.c`), game id (`gameid.c`) | config image, version | load, upgrade, save, reload | att_cfg, game id feedback | an upgrade survives a power cut |
| system manager (`system/manager.c`) | power, port mask, button timing, LED, command ring | power on/off, inquiry, port update, factory reset | everything | no inquiry while off, ports follow slots |
| mapping, macros, report formats (`adapter/*`, `wireless/*`, `wired/*`) | tables, turbo and macro flags | convert a report | HID in, core 1 out | (data conversion) |
| wired protocols (`main/wired/*`) | buffers, modes, paks and rumble per port | one interrupt handler per driver | adapter buffers, card, queue, configuration | a write lands where it was told, commands run once, no pak changes silently |

`PROJECT.json` lists the same components with their status, and every hazard
at the line where it bites with the property that covers it.

## 2. Modules

### DevLinks

The slots `bt_dev[]` and `bt_dev_conf`, and the life of the links. One action is
one handler of `bt_hci_evt_hdlr` or `bt_hci_le_meta_evt_hdlr`: the callback runs
each to the end and nothing of higher priority touches the slots.

| TLA+ | code |
|---|---|
| `bt_dev[i]` (`found`, `page`, `ble`, `bdaddr`, `acl_handle`, `pkt_retry`) | the flags and fields of `struct bt_dev`; `FreeDev` is the `memset` of `bt_host_reset_dev` |
| `InquiryResult`, `ConnRequest`, `AdvReport` | the three ways to take a slot: look the address up, else the first slot not found |
| `ConnFailed`/`ConnDone`, `NameFailed`/`NameDone`, `LeConnFailed`/`LeConnDone` | the two outcomes of the completion events; `GiveUp` is the retry limit |
| `Disconn` | disconnection: free the slot of the handle, advertise and inquire again when it was the last |
| `inquiry_state`, `bt_nb_inquiry`, `StartInquiry`, `StopInquiry` | `bt_hci_start_inquiry`, `bt_hci_stop_inquiry` and the count of inquiry periods |
| `Btn...`, `kick`, `button` | `boot_btn_hdl` of sys_mgr_task; each command is two steps because events preempt it |
| `Ctl...` | the controller and the peers (external): what a command started completes, or fails, any time later; events reach the host in order |

Not abstracted away: `bt_host_reset_dev(bt_dev_conf)` does nothing, since it
looks the pointer up in `bt_dev[]`, so the handle of a second config session is not
recorded; the handler of a refused command only prints; the retry limit frees a
slot without a disconnect command. The history variables `refused`,
`abandoned` and `userStop` name these causes, so that the properties
say what holds otherwise. A peer is in `abandoned` when its slot was freed with a
link to it up, or on its way: paged, accepted, or announced by an event not yet
handled (`OnItsWay`).

A connection handle is never 0 here, while a real controller may hand out 0:
then a slot not yet linked (memset to 0) would match it in
`bt_host_get_dev_from_handle`.
There is one baseband link per peer: a request and a page that cross end
together.

### MemoryCard

The virtual memory card and its write-back. Its steps are the code between two
accesses to shared state, because the writers (core 1 and the config interface),
`bt_fb_task`, the timer's callback and, at boot, `mc_init` run concurrently.

| TLA+ | code |
|---|---|
| `mc_buffer`, `file` | the version of each block in RAM and in the file; each call of `mc_write` is a new version |
| `WriteCopy`, `WriteMark`, `WriteNotice` | `mc_write`: memcpy, dirty bit, `adapter_q_fb` |
| `Accepts`, `Mute`, `Unmute`, `RumbleFeedback` | `adapter_q_fb` is best effort: dropped when muted or when the queue has no free item |
| `FbTaskMem`, `StartTimer` | `bt_fb_task` on FB_TYPE_MEM_WRITE: `mc_start_update_timer`, (re)start for one second |
| `StoreOpen`, `StoreOpenFail`, `StoreWrite`, `StoreClear`, `StoreRearm` | `mc_store_spread`: fopen, lowest dirty block, fwrite and fclose, clear bit, restart while dirty; the early return that leaves the file open |
| `Boot...` | `mc_init`: timer, then restore the file or store a first one |

`lost` and `raced` record the two known causes of data that is not saved: a
notice (or an attempt to open the file) that was dropped, and a write between
`fwrite` and the clearing of the block's dirty bit.

### SwInit

The initialisation of a Switch controller on one slot: a chain of subcommands, each
sent when the one before is acknowledged, and a timer that repeats the current one
and goes on without an answer after `SW_INIT_STATE_RETRY_MAX` times.

| TLA+ | code |
|---|---|
| `type`, `Connect`, `Disconnect` | the slot's `ids.type`; `bt_host_reset_dev` clears the slot but leaves its timer armed |
| `hid_state`, `hid_retry_cnt`, `timer_hdl`, `init_done`, `calib_set` | fields and flags of `struct bt_dev` |
| `TimerCount`, `TimerSend`, `TimerStart`, `TimerDone` | `bt_hid_sw_init_callback`, cut where the Bluetooth callback can preempt the esp_timer task |
| `AckNext`, `AckArea`, `AckLastArea`, `AckLed` | `bt_hid_sw_hdlr` on a subcommand acknowledgement |
| `Feedback` | `bt_fb_task` sends the SET_LED report whose answer looks like the handshake's last |
| `calib` | which of the four areas of SPI flash are in `calib[]` |

`hid_state` above `SET_LED` (reached by repeated answers) behaves the same for every
value and is `Beyond`: there the retry limit never ends the handshake, as the code compares
with `SET_LED` exactly. `again` marks a second `bt_hid_init` on a link (a repeated
configuration request, l2cap.c 280-290) and `stale` a slot freed while its timer was
active: the timer callback then works on the next owner of the slot. Any request may go
unanswered, which also covers requests that the controller does not understand.
`esp_timer_delete` refuses a timer that runs and `esp_timer_restart` changes only a
deadline, which an untimed model does not have.

### HciConfig

The start-up configuration of the Bluetooth controller. `bt_hci_config` is the table of
the code with every run of rows that only set or read something as one row;
`QConf` is `bt_hci_q_conf`, `CmdDone` and `CmdFailed` the two halves of the
`CMD_COMPLETE` handler, which recognises a completion by its opcode only. `SetScan`,
`SetAdv` and `AddToAcceptList` are commands that links and the button send at run time;
`crossed` records that one was under way together with the chain. `Execute` is the
controller (external). The cursor of the accept list is a static of the code and is
not reset by `Restart`; an "unknown command" status counts as success.

### LinkKeys

The two rings of keys and their files. A store changes the ring, opens the file
(which truncates it) and writes it; `saving` is the kind whose file is open, and
a power cut then leaves any prefix (`Partial`).

| TLA+ | code |
|---|---|
| `ring[k]` (`index`, `keys`) | `bt_host_link_keys`, `bt_host_le_link_keys` |
| `file[k]`, `exists` | what loading `LINK_KEYS_FILE`, `LE_LINK_KEYS_FILE` would give; a short file fills a prefix of the zeroed ring |
| `Find`, `Advance`, `Put` | the search, the index and the copy of the three store functions |
| `StoreLinkKey`, `StoreLtk`, `StoreIdent`, `ClearLtk` | the events that store and clear keys, all in the Bluetooth callback, one at a time |
| `Open`, `Write`, `Save` | `bt_host_store_keys_on_file` and its LE twin, cut after `fopen` |
| `Remove`, `Restart` | the factory reset by another task, a second before the restart; a power cut |

A key is the controller and the number of its pairing, so that an old key differs from a new
one. Removing a file while it is open for writing is not modelled. The causes the
properties except are recorded: `behind` (a file operation failed since the last
write), `lost` (the ring was lost while its file was behind), `evicted` and `midway`
(an entry was taken from another peer, in the middle of its pairing).

### FbQueue and LossyFifo

The queue of `components/queue_bss`: `N - 1` item buffers whose addresses go round
through a ring of free items and a ring of items with a message. The rings are those
of liblfds (external, a submodule): single producer, single consumer, one element
left unused, an update of an index visible at once.

| TLA+ | code |
|---|---|
| `free`, `queue`, `data` | `item_free_state`, `item_queue_state` with their elements; the item memory |
| `TakeFree`, `PopFree`, `Copy`, `Store`, `Push`, `Refused` | `queue_bss_enqueue`, cut at each access to memory the consumer also uses |
| `GiveBack`, `PushBack` | its "Queue full" branch, where the producer becomes a second producer of the free ring |
| `TakeItem`, `PopItem`, `ReturnItem`, `PushFree` | `queue_bss_dequeue`, the consumer's use of the item, `queue_bss_return` |
| `late`, `calm` | whether an enqueue has been called during another one |

`LossyFifo` is what the callers expect: a bounded FIFO that refuses a message only when
it is full and lets the consumer keep the one it was given. `Refines` is the refinement:
`fifo` is the messages in the ring from its read index, `given` the one with
the consumer. Core 1, the esp_timer task and the config interface call
`adapter_q_fb`, and nothing in the code keeps their calls apart: after a first overlap
(`calm` false) `LossyFifo` allows anything, and the types are all that is claimed.

### Session

A BR/EDR controller from its connection to its initialisation, on one slot that two
of them may get after one another.

| TLA+ | code |
|---|---|
| `flags`, `type`, `known` | flags of `struct bt_dev`, `ids.type`, the channels whose `dcid` is set |
| `NameDone`, `AuthComplete` | the HCI events that decide the type and open the control channel |
| `ConnReq`, `ConnRsp`, `Configured` | `bt_l2cap_sig_hdlr`; the second configuration message of a channel opens the next one, or ends in `bt_hid_init` |
| `SdpRsp`, `sdp`, `pnp`, `sdp_state` | `bt_sdp_hdlr`: the service's attributes, then those of PnP information, appended piece by piece and truncated |
| `HtTest` ... `HtClear`, `ht`, `old_type` | `bt_host_task` and `bt_sdp_parser`, cut where the callback can come between |
| `HidInit`, `InitTimer`, `timers` | `bt_hid_init`; PS3 and PS4 controllers count as initialised a second later, by a timer that keeps the address of the slot |
| `due`, `Comes`, `PeerExtra` | the peer (external): what it owes comes in any order, and it may open or configure a channel more often than needed |

`Set`, `AtWork` and `Buffers` are abbreviations. `odd`, `failed`, `lateName` and `stale` record what
the properties except: a peer that repeats itself, a refusal, a name that comes after the
interrupt channel was ready (its type is then not the one that was initialised, unless
`bt_host_task` finds out), and a task or timer at work on a slot that changes hands.
Left out: the channel a peer opens for queries of its own, on which nothing here depends,
and commands whose answer the host does not look at.

### LeSession

An LE controller from its connection to its first report. All of it runs in the
callback, so an event or a packet is an action.

| TLA+ | code |
|---|---|
| `Discovery`, `hid_state` | the states of `att_hid.c` in their order; `Sw2` those of `sw2.c`, which share `hid_state` |
| `Process`, `NextState`, `AttRsp`, `AttError`, `MtuRsp` | `process_state_func`, `bt_att_hid_start_next_state`, `bt_att_hid_hdlr`; `Takers` are the states that use each kind of answer |
| `AttInit` | `bt_att_hid_init`, called at the encryption, at the last key, and for a peer without keys |
| `Pairing...`, `EncryptInfo`, `MasterIdent`, `EncryptChange` | `smp.c` and the encryption event; `ltk` is what the key store has, `bond` what the peer has |
| `asked`, `Callback` | the rings of callbacks of `hci.c` for random numbers and encryptions, answered in order |
| `Sw2Init`, `Sw2Ack`, `Exec` | the commands of a Switch 2 controller |
| `owed` | the peer (external): the link keeps the order of its answers |

Reports are numbers; `props` are those that can notify and `written` those told to.
Values, handles and names are left out. `stale` marks a callback that ran for a slot with
another owner, `derailed` a Switch 2 controller that refused a write (its answer then moves
the discovery), `dead` a failed pairing or a controller without reports.

### WebConfig

The configuration and its files. Two tasks run `config_init` and `config_update` with no
lock: the callback with the commands of the web page, and `bt_fb_task` when the console
names another game. Each access to `config_src` and to a file is a step.

| TLA+ | code |
|---|---|
| `config` (`magic`, `head`, `tail`) | `struct config`: `global_cfg` and `out_cfg`, and `in_cfg`, each with the file it comes from and the edits it has |
| `InitSrc`, `Choose`, `Load`, `Upgrade` | `config_init`, `config_load_from_file`, the three steps from older versions, each of which stores |
| `UpdateSrc`, `Pick`, `Open`, `Write` | `config_update`, `config_store_on_file`; opening empties the file |
| `Check`, `core`, `WiredReset` | `config_is_rst_required` with its statics, and the restart of core 1 it asks `sys_mgr_task` for |
| `WriteHead`, `WriteTail`, `Prepare`, `Exec`, `SetDefault`, `SetGameId`, `DelFile`, `OtaStart`, `OtaEnd` | `bt_att_cfg_hdlr` and `bt_att_cfg_cmd_wr_hdlr` |
| `GidUpdate` | `gid_update` and what `bt_fb_task` does with its result |
| `Cut` | a power cut or a restart; a file open for writing keeps nothing, its head, or all of it |

The combinations the upgrade from version 2 adds to the tail are counted (`combos`), since
a step done twice would add them twice. `harmed` are the files a fault has left in part, the
ones in use while both tasks were in config.c, and those of version 0, whose upgrade resets the
settings (the step from version 1 reads the tail from a file the step before has overwritten). A task remembers
in `met` that the other was at work too since it began, for the file it turns to later is harmed as well
(`Clash`). `missed` marks a comparison made void by a new magic or made beside the other task, and a start of
core 1 amid an upgrade. Both are history: no guard reads them.
`missed` records the comparison that is void. An update of the firmware that was left open
makes `Exec` impossible, since the code then ends the update instead of saving; a cancelled
write is not taken back, which a later save then stores.

### Wired, PsCard, PsPad, Nsi, Maple, SegaIo

`Wired` composes the drivers: the system found or configured selects one, which has core 1
to itself. Interrupts of a port do not run together, so a packet or a command is an action.

`PsCard` is the memory card of a PlayStation port. A packet may end at any byte, `Reach` being the
field it got to. The buffers are never cleared, and `packet_end` acts on `mc_cmd`, `mc_addr`,
`mc_crc` and the buffer whichever packet set them: a write cut short is compared with the
checksum of an earlier one. `kept` is what the console was told is stored,
`suspect` the blocks a write cut short named, `echo` a game id taken from a packet that was not one.

`PsPad` is the controllers of a port. `Single` and `Tap` are a packet without and with the multitap, which
executes the commands of the packet before it (`Prev`); `Request` is `ps_cmd_req_hdlr`,
`AnalogBtn` the button, `Card` what a packet of the card does to the buffers. `owed` and `ran` are the
commands the last packet was to execute and did. `stale` marks a packet that stopped early, a
card packet between two of the tap, or a tap resumed over older commands; `forced` the pads told
to leave a configuration mode they were not in, which restores an old `pend_dev_id`.

`Nsi` is the paks of the Nintendo 64 controllers: `Noticed` and `Notice` are what every command of any
channel does first, comparing the configuration with what it was, one change at a time; `Identify`
counts the answers without a pak down. Keyboards and mice do not show a pak. GameCube controllers, the
contents of reads and writes and the rumble values are left out.

`Maple` is the rumble pack of a Dreamcast port: `SetCondition` gives the bridge the setting it is about to
replace, and compares a timeout with a setting, so in practice each command is queued. A frame that lost
bits is acknowledged and dropped.

The multitap on both ports, the second port and the second memory unit are the same code on other indices;
all card commands reach the same `mc_write`.

`SegaIo` is `sega_genesis_task`. Core 1 watches the level TH of both ports (`th`, `Toggle`) and shows the set of
buttons it selects. The code is one block per cycle and port; here a block is `pc`, a port and a cycle, even cycles
being those of a low level. `Sample` is the comparison that leads to a block, `Follow` its order of tests, `Show` the
block, and the sample after it (`Resample`) a moment later: between the two the console goes on. `Handshake` is the
multitap or the mouse, whose nibbles are left out, `NextPoll` the label of that name.
`core0_stall_start` and `_end` share `start_var` and `end_var` with the level 5 interrupt of core 0 (`Stalled`,
`Released`). `overlooked` are the ports of which the loop missed a change, `hasty` tells that a stall
began before core 0 left the one before, which the code leaves to timing. The other port's pins, which are
written back from a copy, turbo and frame counts are left out.

### HidInit, WiiInit

`HidInit` composes `SwInit`, `WiiInit` and `LeSession` on one slot: `radio` is `bt_dev.type`, told by the event that took the
slot, and for a Wii Remote the type its name gave it; `type`, `hid_state` and `stale` belong to several of them.

| TLA+ | code |
|---|---|
| `Exec` | `bt_wii_exec_next_state`, the request of each `hid_state` |
| `Status`, `RdData`, `Ack` | the cases of `bt_hid_wii_hdlr` |
| `Report`, `init` | the first report of a classic controller, which corrects the subtype (`wiic_to_generic`, `wiic_8bit_to_generic`), and `BT_INIT` |
| `reqs`, `rsps`, `Serve`, `Plug`, `Unplug` | the remote (external): it answers in order, tells of every change, and stops reporting until it is told the report mode |

`crossed` records that requests or acknowledgements of an older chain were under way when an extension was plugged in.

### SysManager

The loop of `sys_mgr_task` on a HW2 board. A pass visits the slots one by one, and what the
callback, the card, core 1 and the user do comes between two visits.

| TLA+ | code |
|---|---|
| `link`, `out_idx` | how far the controller of a slot has come; the number `wired_port_hdl` gives it |
| `PassStart`, `Visit`, `Notify`, `PassEnd`, `pass` | `wired_port_hdl` and its locals: the next port without a pad, the notice of a new number, the new mask |
| `port_state`, `ports`, `booting` | the mask given last, the one core 1 has, and whether its driver is still starting |
| `ConsoleOn`, `ConsoleFell`, `ConsoleWake`, `ConsoleOff`, `curr` | the four cases of `power_on_hdl` |
| `Press`, `Release`, `ReleaseLong`, `PowerOff`, `InhibitEnd` | `boot_btn_hdl`; `hold` counts the thresholds passed |
| `Ask`, `CmdOff`, `CmdInquiry`, `CmdWired`, `CmdRestart` | `sys_mgr_cmd` and the loop's dispatch |
| `Reset`, `StartInquiry`, `DisconnectAll` | `bt_host_reset_dev`, `bt_hci_start_inquiry` with its override, `bt_host_disconnect_all` |

`fresh`, `plugged`, `unled`, `before`, `missed` and `raced` name the exceptions. Left out: the lengths of pulses and the colours of
LEDs, the sense pins of the third and fourth port, which some boards toggle, and `adapter_out_mask`, which adds the ports a
mapping drives to the mask.

### Traffic: Reassembly, Transmit, Rumble, Bridge, Keyboard

`Traffic` runs `FbQueue` and five modules for what passes between controllers and console; `path` picks one.

`Reassembly` is `bt_host_acl_hdlr`: `buf` and `size` are the one fragment buffer, its offset and size; `fate` is what became of
the packet of a link, `crossed` the links whose packets were under way together. Fragments are of equal size.

`Transmit` is `bt_tx_task` and its senders: `Fill` and `Add` are the two halves of `bt_hci_cmd` and its like, between which only
a task of higher priority runs (`Free`). `Clear` and `Send` are kept apart, since the controller may answer at once (`Ready`). The
controller calls for received packets and for "ready" from the same task, so that one of its calls that waits for
room holds up the other. The ring counts packets instead of bytes.

`Rumble` is what ends a rumble: `Ask` is the drivers of Nintendo 64, GameCube and Dreamcast, `Toggle` `adapter_toggle_fb`, `Cb...` the steps of
`adapter_fb_stop_cb`, `Handle`, `Create`, `Start` and `Send` those of `bt_fb_task`. `esp_timer_delete` (external) refuses an armed timer, which then
runs on without a handle (`old`). `adapter_fb_stop_timer_stop` is one step. Player and status LEDs, which share the queue, are
counted in `MemoryCard` only.

`Bridge` is `adapter_bridge`: `Driven` and `Presses` are `adapter_mapping`, `Values` what `meta_init` leaves in `ctrl_output`, `Complete`
the macros, `Pressing` and `Releasing` the special action of the driver. `meant` is what the last report of each controller pressed,
`left` the buttons nothing will release. `Cleared` are the ports `meta_init` clears (four). All of it runs in the callback
of the controller. A button stands for half an axis too; turbo and the scale of axes are left out.

`Keyboard` is `kb_monitor.c` with the PlayStation's codes: `Report` is `kbmon_update` for the keys the mapping of a controller drives
(`map_mask`, here `Drives`), `Expire`, `Repeat` and `Restart` the timer and its callback, `Take` what the driver of
core 1 does with a code. Several controllers can be mapped to one monitor, which remembers the keys of the last report
only; nothing tells it of a controller that leaves. `typed` is what the console made of the codes, `unsure` and `runaway` the keys
excepted. Reports run in the callback of the controller, which preempts the esp_timer task, not the other way round.

## 3. Runs

`links_one` and `links_all` use `DevLinks` through `MCDevLinks`.

- `links_one` has one controller, two slots, two attempts, an inquiry limit of one period and the
  button. One peer is enough for every crossing of inquiry, page, incoming request, name request and
  disconnection of a link. It adds fairness: an event that is queued is handled (highest
  priority task), `sys_mgr_task` goes on with its loop, and the controller carries
  out disconnect commands and ends a page by connecting or by its page timeout.
  The last two are strong because `evtq` is bounded in the model only, so other
  events can take the room each time it is freed. No fairness makes a peer answer.
  `SlotBacked`, `AutoInquiryWhenIdle`, `PendingResolved`, `KickedIsFreed`.
- `links_all` has a BR/EDR controller, an LE one and a client of the config interface on two slots with
  two handles: enough to swap slots, to reuse a handle for another peer, and to fight
  over scanning, advertising and inquiry. Two events in flight let an event be overtaken by a
  state change of the other side. `UniqueBdaddr`, `HandleMatchesLink`, `RadioDuties` (who may
  switch scanning off, and that nothing advertises while a controller is connected), and the step property
  `SlotStable`. That a link without a slot comes only from a slot freed under it is part of
  `HandleMatchesLink`'s exception `abandoned`.

`card_faults` and `card_live` use `MemoryCard`. Two blocks are enough
to have one dirty while the other is stored, two items make a queue that can fill
(15 in the code), three writes make a write, a second one to race with its
store, and one to another block.

- `card_faults`: writers that do not wait for `mc_get_ready` (nsi.c:374, att_cfg.c:749)
  race with `mc_init`; feedback fills or mutes the queue; file operations fail; three
  open files at most, so that leaked files make a later open fail. `StaleHasCause`,
  `DirtyScheduled`. The system stops once the bounded writes are done, hence
  `CHECK_DEADLOCK FALSE`.
- `card_live`: writers that wait, fairness of the tasks and a sound file system;
  `LeakBound`, `EventuallyStored` and `EventuallySaved`. The number of writes is
  bounded, so the timer is not restarted forever: a console that never pauses for a
  second could do that.

The fairness of each is what the scheduler gives: every task blocks or sleeps, so
each gets to run.

`hid_init` (`HidInit`): what makes a controller usable, on one slot that serves one kind of controller. The
handshake of a Switch controller (`SwInit`) has two timers (one of which may belong to the slot's last owner), a
retry limit of one (10 in the code), two acknowledgements under way so that a late answer and the answer to the
repeated request are both there; links come and go at any time. The discovery of an LE controller (`LeSession`) has three
reports, of which any number exists and any set can notify; two continued answers and two errors, which may
hit one state twice or two states; two connections, so that a peer comes back with its key or without. A Wii Remote (`WiiInit`) has
two extensions plugged in one after the other and one write that fails, enough for requests of the first chain to meet the second. `Inv`: the
handshake always has an answer or a timer coming and a slot counts as ready for a cause; a controller that is not a
Switch 2 one owes at most one answer of the discovery, to the state that waits for it. `ReadySound`: what counts as done is
(the calibration, the subscription to reports), and an extension at rest is woken and decoded as what it is unless it was plugged in amid an older chain. `InitEnds` assumes that an armed timer expires, that
the esp_timer task runs, that received packets are handled, that an LE controller that stays answers, that a link the host
closed ends, and that a Wii Remote answers. Only one kind of controller takes steps in a behaviour, so the conditions of the three
are joined into two; the state `Beyond` is excepted, as the code never gives up in it. An LE controller does not meet
a Switch controller's timer here, although the slot could have one. LE connections are bounded: `CHECK_DEADLOCK FALSE`.

`hci_config` (`HciConfig`): two stored addresses, errors up to two
restarts of the chain (retry limit one, 3 in the code), two groups of run time commands,
which is enough to have them cross the chain or each other. `Inv` says that the controller
carried out every row the host has passed, that the name is appended once, and that the whole accept list is
loaded once its row is passed. `ChainEnds` assumes that
the controller completes every command.

`keys` (`LinkKeys`, through `MCLinkKeys`): three controllers of each transport on rings of two
entries (16 in the code), so that a ring wraps and each store may evict; two pairings of each tell
an old key from a new one. `KeyAgreement` also has the diversifier of an LE key. The two rings share their steps and one write at a time but no data, so a
behaviour pairs peers of one transport; file operations fail, and the power is cut twice (a loss,
then a boot from what it left), where BR/EDR peers pair; LE keys come in two halves, and one
LE controller is a Switch 2 one that stores a half only. Pairings and restarts are bounded, so the
system may stop: `CHECK_DEADLOCK FALSE`.

`traffic` (`Traffic`): six paths that share no state but what their modules name, so a behaviour follows one of them.
`EachItemOnce` and `Refines` are the feedback queue: two producers, two messages, rings of four elements, so three
items: one with each side and one queued, with full and empty rings in reach, and indices that
wrap; one call is followed from the first overlap on, enough for both rings to go wrong (`GiveBack`, `PushBack`
happen only then). `AclSound` has packets of up to three fragments on two links (a first, a middle and a last one), and
four senders with a ring of one packet, so that all of them can wait for room; the theorem has any room. `MotorSound` has two ports (one
mutes the other), a queue of one item (15 in the code), so that it is often full, and one timer that runs on without its handle. `BridgeSound` has two
slots, two buttons that stand for all, and two configurations: the default one, and one in which the controllers share and cross ports
and use one button for two purposes; port 2 stands for the ports whose `ctrl_output` is never cleared.
It also has a keyboard with two keys and a controller that shares one of them, and a queue of two codes, which fills up.
The calls of the queue are bounded, and the way out can really stop (host.c:597): `CHECK_DEADLOCK FALSE`.

`session` (`Session`, through `MCSession`): two controllers after one another, one continued
answer and buffers of one answer, so that the second is cut off; one controller may open or configure a
channel more often than needed, and is then the only one, with short answers. `SessionSound` (what
`bt_host_task` parses is what was asked for, whole), `InitSound` (a slot that counts as initialised has its
channels and was initialised as what it is), `SessionReady`. Fairness: packets are handled, a
peer that stays sends what it owes, the tasks run and the timers expire. When the bounded connections
are over all may stop: `CHECK_DEADLOCK FALSE`.

`sys_manager` (`SysManager`): two slots and two ports, with and without hotplug, inside the console or not; three
events among controllers that come and go, pads, the power switch, the card, commands and the button, enough for a change of port, its
notice or mask and something that crosses them. `ManagerSound` (no port is shared, the mask is the driver's, a controller shows its
number), `WakeHasCause` (a console that is off is not switched on for nothing), `SysFollows` (in the end the driver serves the
controllers and the inquiry follows the power). Fairness: the task goes round and takes a command each time there is one (it
sleeps between passes), a link that is to end does, the card is stored, core 1 comes up, and the button is let go.

`web_config` (`WebConfig`): the default file and that of one game, absent or of version 1 (`OldFiles`, with
the mode 1 of `OldModes`, so that it differs from the default), whose upgrade passes two steps, the first of which reads the file again; three events among edits, other commands, changes of game, failing files,
power cuts and restarts: enough for an edit, its store being overtaken by a change of game, and a cut that
shows what is left. `Inv` (the configuration in use is that of the file that is named, no file has another's settings,
none the default combinations twice), `SettingsKept` (an edit reported as stored stays), `CoreFollows`
(the wired core runs the modes in use or is about to be restarted).

`wired` (`Wired`): the five drivers in five families of behaviours. `PsSound` has two blocks of two
contents that differ in their checksum, four packets (a write cut short needs an earlier one, and a game id
one more), and two pads behind the tap with four events, where one pad at a time is sent something, one packet
stops early, no card packet follows it, and only the first pad's button is pressed; `AccessorySound` has two channels on two banks, two
answers without a pak (0x20 in the code) and two changes, one channel at a time; and one Dreamcast port, which shares
nothing with the others, and four words. `LinesSound` has two ports with six buttons, three, or a device of the handshake,
so that either port is polled while the other is, in any cycle. The packets of a PlayStation port are bounded: `CHECK_DEADLOCK FALSE`.

## 4. Proofs

`DevLinksProofs` proves, for any sets of peers and clients, any number of slots,
retries and handles:

- `TypeCorrect`: `Spec => []TypeOK`. `TypeOK` is inductive as it stands; the
  proof has one step per action.
- `OneSlotPerPeer`: `Spec => []UniqueBdaddr`. Inductive together with the types:
  a slot is filled only under `NoDevFromAddr`, every other step keeps or
  clears the address of each slot.
- `IdleLooks`: `Spec => []AutoInquiryWhenIdle`, inductive with the types.
- `RadioFollows`: `Spec => []RadioDuties`, with `AdvOffInTime`: advertising is off from the report that
  starts an LE page, since the completion of the page would not turn it off.
- `SlotsBacked`: `Spec => []SlotBacked`, with `RequestStands` (a request in the queue is still on offer, or its
  failure is behind it) and `LinkHasHandle` (a completion without error carries a handle).
- `SlotsKept`: `Spec => SlotStable`. Handles are reused and a peer may link again before the host has heard that its
  last link ended, so nothing in the state of the slots alone keeps a completion from giving a slot a second handle.
  What does is the order of the queue (`QueueIInv`): between two links with one peer, or with one handle, the end of the
  first is queued; what the queue says of an old link is followed by the current one. With it
  `LinkIInv` is inductive: the end of a slot's link reaches the host before any other link with its handle or peer.
- `HandlesMatch`: `Spec => []HandleMatchesLink`, from `LinkIInv` and `KeptIInv`: who is linked, paged or accepted has a slot
  unless it is in `abandoned`.

The steps are first sorted by what they do to a slot (taken, freed, linked, left alone: `SlotEffects` and what
follows) and to the queue (`Moves`, `HostMoves`), so that each invariant is shown for these few kinds.

`MemoryCardProofs` proves, for any set of writers, blocks, capacity and limits:

- `CardTypeCorrect`: `Spec => []TypeOK`, from a type invariant that also ties
  the open files to the step of the store.
- `StoreScheduled`: `Spec => []DirtyScheduled`. A dirty bit is set only by a
  writer that has yet to queue its notice; each consumer of that obligation passes
  it on: notice, queue, timer, callback, timer again.
- `CardConsistent`: `Spec => []StaleHasCause`. The strengthening says what
  the file holds of the block being stored and, during boot, of the
  blocks already handled, since the property itself only speaks of the ready card.
- `LeaksBounded`: `Spec => []LeakBound`. The inductive invariant is an amortised
  count: the leaked files, the notices in the queue, the writers in flight
  and the one leak an armed timer may cause are together fewer than `writes`.

`PeerProofs` proves of `LinkKeys`, for any sets of controllers and any ring size above one:

- `KeysTypeCorrect`: `Spec => []TypeOK`, and `OneEntryPerPeer`: `Spec => []UniqueEntry`,
  from one invariant: both, and that a controller in the middle of its pairing has a
  pairing number. `PutGood` shows that a store keeps a ring free of duplicates because
  `Find` returns the peer's own entry when there is one (`FindIsSlot`); `PartialGood`
  that every cut of such a ring is such a ring; `ClearGood` the same for a cleared peer.

- `KeysAgree`, `FilesCurrent`, `ResetClears`, `LastPeerKept`: `Spec => []KeyAgreement`, `[]FileCurrent`,
  `[]ResetForgets` and `[]LastKept`, from one invariant `IInv`. Each of its parts says of every ring and file that its
  entries are in some set (its own kind's, those with a known diversifier, the blank ones) and such a set is
  closed under what a store, a clear, a load and a cut do to an entry (`PutIn`, `ClearIn`, `CutFields`, `SetsClosed`);
  `Agreed` ties a ring to the peers' last keys, `Current` a file to its ring, and
  `HalfHeld` a pairing under way to its half entry.

`TrafficProofs` proves of the feedback queue, for any producers, messages and size above one:

- `QueueTypeCorrect`: `Spec => []TypeOK`, overlaps of enqueues included.
- `QueueRefinesFifo`: `Spec => Refines`. The invariant (`Core`) holds in calm: one producer
  at most is at work, the two rings have no item twice or in common, the
  producer's and the consumer's item are in neither, the counts of the four
  places add up to `N - 1`, and each side's item is what its last step left in the ring.
  Lemmas on a ring seen as the run of items from its read index (`PoppedRing`, `PushedRing`,
  `StoredRing`) carry it; then each step maps to a step of `LossyFifo` or to a
  stutter.
- `ItemsOwnedOnce`: `Spec => []EachItemOnce`. That no item is missing is kept place by place (`Covered`): each step moves
  the item it takes from one owner to the next. `QueueInTraffic` carries both over to `TrafficSpec`.

`WiredProofs` proves, for any ports, channels, paks, settings and blocks and up to four pads:

- `Accessories`: `Spec => []AccessorySound`. For the Nintendo 64 what a console was last told of a channel is empty or
  the present pak, or a notice is due (`Noticed`); for the Dreamcast, what the console set last is what
  the driver holds (`MapleIInv`).
- `Lines`: `Spec => []LinesSound`. `SegaIInv` says at which point of its handshake a port is (`Cycles`), that what it shows is
  exact there (`LevelExact`), and who waits for whom in the stall of core 0 (`Stalls`).
- `PlayStation`: `Spec => []PsSound`. `PsCard!CardInv` is inductive with the length of the packet; for the pads the
  invariant also says which command of the tap is due next (`NextInTurn`).

`TrafficProofs` proves of `Traffic`, for any links, lengths of packets, room, ports, controllers and keys:

- `Packets`: `TrafficSpec => []AclSound`. A link that is alone has its fragments, in order and nothing else, in the buffer
  (`ReassemblyIInv`); on the way out a sender that has the shared buffer was overtaken only by one of higher
  priority or while it waited (`TxIInv`).
- `Motors`: `TrafficSpec => []MotorSound`. `RumbleIInv` says where the stop of each rumble is: in a timer, a callback, the queue or
  with the feedback task, and who holds the mute.
- `Buttons`: `TrafficSpec => []BridgeSound`. What is pressed on a port is what a controller there pressed and still drives
  (`BridgeIInv`); what the console will believe of a key is what the last code of it in the queue says (`KeyboardIInv`).
  `Keyboard` lists the pressed keys in order by its own `Sorted`, chosen by its properties, since the library's sort is
  recursive and so has no proof.

`WebConfigProofs` proves, for any games, versions and modes of the first files and number of events:

- `FilesOwn`: `Spec => []Inv`, `SettingsStay`: `Spec => []SettingsKept`, and `CoreInStep`: `Spec => []CoreFollows`, from one
  invariant `IInv` of three parts. `Base` says which steps of `config_init` and `config_update` a task may be at given its
  caller (`Flow`), that two tasks at work know of each other (`Meeting`), and that the files a task turns to after it has
  met the other are in `harmed` (`MetHarms`). `Settings` says of every unharmed file that it is absent, whole and its own, of an
  earlier version, or being stored, and holds what is promised (`Sound`), and of a task that is alone what the
  configuration in memory is at the step it is at (`Phase`): only there does a store carry the promise from memory to the file.
  `Compared` counts calls that have not compared yet: with none or one of them, what `config_is_rst_required` remembers is the mode the
  core has, or the restart is queued, or `missed` says why not.

`HostProofs` proves of `HciConfig`, for any number of stored addresses, retries, errors and run time commands:

- `ChainTrue`: `Spec => []Inv`. Only the queue of commands tells what the next completion will be, so the strengthening
  (`ConfigIInv`) says, as long as nothing but the chain has sent, which commands can be in it in each row: one, of the
  row, up to the accept list's; the address the cursor passed last in that row (`UnderWay`); and behind the
  last row only commands that no earlier row depends on. With it each completion is that of the row the host believes it
  to be, and `Loaded` follows the cursor through the accept list. `ConcatOps` and `AppendOps` carry it over what is queued behind.

`HostProofs` proves of `SysManager`, for any numbers of slots, ports, commands and events:

- `ManagerTrue`: `ManagerSpec => []ManagerSound`, and `WakeJustified`: `ManagerSpec => WakeHasCause`, from `ManagerIInv`. The pass over the slots
  gives numbers one at a time while others still have old ones, so what holds of all numbers between passes (`PortsDistinct`) holds in a pass of the
  slots it has visited (`Apart`), whose numbers are below the next one to give (`Walk`). `Shown` also speaks of a slot that is being prepared, and of one
  just reset, `Masked` says of a driver that starts that no mask was given to it unless it raced, and `Kicked` that whoever was linked when the console
  fell has a link to be ended: with it only the controllers the property names wake the console. There is one step per event (`VisitKeeps`, `EndKeeps`,
  `ResetKeeps`, ...), each over the parts it disturbs; the frame lemmas (`WalkFrame`, `ApartFrame`, ...) carry the rest. The proof showed that `LedTrue`
  needs no exception for slots that were just reset, and it was strengthened.

`PeerProofs` proves of `Session`, for any numbers of continued answers, repeats and connections and any size of the buffers:

- `AnswersParsed`: `SessionSpec => []SessionSound`, and `DoneIsSound`: `SessionSpec => []InitSound`, from `SessionIInv`. What a peer owes comes in any order, and
  the host looks at the channel of a message only. The strengthening ranks what can be owed by the stage it belongs to (`Rank`) and says that as long
  as a peer sends nothing of its own accord all it owes is of one stage (`OneStage`), each at most once, but for the name and the control channel of a peer that
  connects by itself, which come beside everything else (`Beside`, `ByItself`). `Answered` then says what the two buffers hold in each
  stage and that `bt_host_task` does not read them before the last answer, `Opened` and `Started` which channels are open when the interrupt
  channel is configured, and `Down` that a slot without a link owes nothing and, unless a task kept it, has none at work.
  `StageComes` is the step from one stage to the next for every message; the lemmas on bags (`Drawn`, `BagOfNone`) say what taking a message
  leaves.

`HidInitProofs` proves of the slot that `HidInit` initialises, for any timers, retries, reports, errors, connections,
extensions and failed writes:

- `HandshakesHold`: `Spec => []Inv`, and `ReadyMeansDone`: `Spec => []ReadySound`. The three kinds of controller share no step, so each has an
  inductive invariant and `IInv` takes that of the kind the slot serves. `SwIInv` says of a Switch handshake that has not ended that it has its
  timer, and of each answer under way that the calibration areas before the one it is about were read (`Due`). `LeIInv` says what an LE
  controller may owe in each state of the discovery (`Waits`: at most one answer, taken in the state it was asked in) and which reports were
  told to notify so far (`Told`); a Switch 2 controller owes one command, that of its state, until it refuses a write. `WiiIInv` says of a Wii Remote
  that does not report what under way ends in the report mode (`ToReport`), that the last status under way is that of
  what is plugged in now (`Empty`, `Waking`), and after it was handled, which one request or answer of the chain is under way and how far the
  extension has been woken (`Chain`), unless acknowledgements of an older chain are among them (`crossed`). Lemmas on the queues
  (`OneTail`, `OneAppend`, `SplitTail`, `SplitAppend`, `LateTail`) carry it.

The constants' assumptions are those of the modules (`DevLinksAssumption`,
`MemoryCardAssumption`, `LinkKeysAssumption`, `FbQueueAssumption`, `WiredAssumption`, `TrafficAssumption`, `WebAssumption`, `HciConfigAssumption`, `SysAssumption`, `SessionAssumption`, `SwInitAssumption`,
`LeAssumption`, `WiiAssumption`); TLC evaluates
them in every run. `HostProofs` and `PeerProofs` each hold the theorems of two modules that share nothing but the host: the names of both are
visible there, and no proof uses both specifications.

## 5. What is only checked, and what is not modelled

Only checked with TLC: every liveness property (`PendingResolved`, `KickedIsFreed`, `EventuallyStored`, `EventuallySaved`, `ChainEnds`,
`SessionReady`, `SysFollows`, `InitEnds`), since TLAPS does not handle fairness. Every invariant and every action property that a run checks
is stated by a theorem.

Not modelled, and why:

- Report formats, turbo, the scale of axes and the HID descriptor parser: pure conversion of data by tables, nearly half
  of the source. A property would restate the tables.
- The wired drivers other than those of `Wired` (`npiso_io.c`, the Saturn and EA parts of `sega_io.c`, `jag_io.c`, `pce_io.c`,
  `cdi_uart.c`, `jvs_uart.c`, `wii_i2c.c` and so on): they shift out a report with the console's clock and keep little but their
  timing, which an untimed model does not have.
- LEDs, delays and the lengths of pulses.
- The read side of the web interface (file listing, the image of a firmware update), the monitor log beyond its card
  writes.
- HCI events other than those named in section 2 (features, role, mode, PIN): they answer with a fixed command and no other state.
- Third-party headers, the vendored cipher and the test harness.

What the models show of the code beyond the properties, as their exceptions name it: a repeated configuration message
initialises a controller again (l2cap.c:283), the parser and the timers work on slots that changed hands (host.c:287,
ps3.c:31), an ATT error counts for the present state whatever it answers (att_hid.c:530), a configuration of version 0
loses its settings on upgrade (config.c:149) and a power cut between two steps drops the later ones (364), the first
comparison after start-up never restarts the wired core (407), a PlayStation write cut short may store older data
(ps_spi.c:763), the multitap executes bytes of a card packet (717), and the Dreamcast's rumble is one command
behind (maple.c:557).

In `DevLinks`: a page may complete for a slot that is gone. The failure of a request that the host never accepted counts as a failed page
of the slot (hci.c:1412) and pages again; when the events of an earlier link and of its end are still queued, their handler frees the slot
(1466), and the new link comes up without one. It takes three events in flight, more than the runs allow: the proof of `HandlesMatch` found it,
and `abandoned` names it.

In `WebConfig`: overlapping calls do harm beyond the moment they overlap. A task that sets `config_src` back to the default before the other
chooses (config.c:448, 471) makes it store or answer for another file than the one it was edited for, and one that began beside
another call may choose its file only after that call has ended: the proof of `SettingsStay` asked for `met`, which names both. Core 1 restarted while
an upgrade is at work does not wait for it and reads what it has made so far (manager.c:551), and a comparison made while the other task changes the
configuration records a mode the core never had (config.c:407); the proof of `CoreInStep` asked for both in `missed`.

In `SysManager`: without hotplug a mask that is due while the card has blocks to store is never given (manager.c:344), nor is one after the
driver was restarted (563), and the reset of a slot hides a change of its number (host.c:530); with hotplug an empty mask equals the
initial `port_state` and is not given (manager.c:339); a mask given while the driver starts is overwritten by it; a controller that was
sent away and is still linked at the next pass switches the console on again (255).

In `Rumble`: a stop is refused when another port's toggle has muted the console or the queue is full, and the motor stays on (adapter.c:489);
the stop of a toggle itself is lost when another one mutes between its last two steps; an old Dreamcast timer ends a newer rumble early.

In `Transmit`: a callback that waits for room while `BT_CTRL_READY` is clear stops the way out for good (host.c:597), and a sender of
higher priority may fill the shared buffer before the packet of another is copied (hci.c:218). In `Reassembly`: fragments of two links that
are under way at once mix. In `Bridge`: buttons held on another port than that of the slot stay pressed when the controller
leaves or its mapping changes (host.c:523), the toggle of the pak waits for the next controller (n64.c:199), and macros of a controller above
the fourth port never see a release (n64.c:166).

In `SegaIo`: a port whose TH changes while the other port is served shows the buttons for the opposite level until its next change (sega_io.c:540).
In `Keyboard`: a key held by a controller that leaves repeats until another key changes, and so does one whose release reaches the monitor
between the two calls of the repeat (kb_monitor.c:31).

In `WiiInit`: acknowledgements count for the present state whatever they are of, so an extension plugged in while requests for the last one are
under way may be read before it is woken, or a write that failed never repeated, and then stays unknown, or with four in a row decoded as a type it no longer tells, until it is plugged in again (hidp/wii.c:204);
and without an extension a failed write is repeated for ever (202). A Wii U Pro controller, whose status reports are ignored, is left out.

## 6. Plan

Done, in this order: `DevLinks`, `MemoryCard`, `FbQueue` with `LossyFifo`, `SwInit`, `HciConfig`, `LinkKeys` and
their proofs; then `Session`, `LeSession`, `WebConfig`, `Wired` with `PsCard`, `PsPad`, `Nsi` and `Maple`,
`SysManager`, `HidInit`, and `Traffic` with `Reassembly`, `Transmit`, `Rumble`, `Bridge` and `Keyboard`; last `SegaIo` in `Wired` and `WiiInit` in `HidInit`.

Proofs, in this order: `DevLinks`, `MemoryCard`, `LinkKeys`, `FbQueue` (types and the first invariants), then every other
invariant of these four, the parts of `Wired` and of `Traffic`, `WebConfig`, `HciConfig`, `HidInit`, `SysManager` and `Session`: every safety
property a run checks is proved.

Models to add: of the other wired drivers those that keep state between packets.
