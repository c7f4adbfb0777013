----------------------------- MODULE MemoryCard -----------------------------
(***************************************************************************)
(* The virtual memory card of adapter/memory_card.c and its write-back.    *)
(* The console (core 1) or the config interface (core 0) writes a block in *)
(* RAM, marks it dirty and queues a feedback notice; bt_fb_task answers    *)
(* the notice by (re)starting a one second timer; the timer's callback     *)
(* stores one dirty block in the file and restarts itself while any is     *)
(* left.                                                                   *)
(*                                                                         *)
(* Four tasks interleave: the writers, bt_fb_task, the esp_timer task and, *)
(* at boot, wl_init_task running mc_init.  A step is the code between two  *)
(* accesses to what they share: the buffers, mc_block_state, the queue,    *)
(* the timer and the file.  The feedback queue is two counts here: the     *)
(* order of its items does not matter to the card.  banksel is assumed     *)
(* below CONFIG_BANKSEL_MAX, otherwise nothing is ever stored.             *)
(***************************************************************************)
EXTENDS Integers, FiniteSets

CONSTANTS
  Writers,     \* tasks that call mc_write: the console side, the config side
  NBlock,      \* MC_BUFFER_BLOCK_CNT
  QMax,        \* free items of the feedback queue (queue_bss_init(16, ...))
  MaxFiles,    \* max_files of the file system (fs.c)
  Ungated,     \* a writer does not wait for mc_get_ready (nsi.c, att_cfg.c)
  Faults,      \* file operations may fail
  Rumble,      \* bound: whether other feedback shares the queue and mutes it
  MaxWrite     \* bound: number of calls of mc_write

Block == 1..NBlock

ASSUME MemoryCardAssumption ==
  /\ IsFiniteSet(Writers)
  /\ NBlock \in Nat \ {0} /\ QMax \in Nat \ {0} /\ MaxFiles \in Nat \ {0}
  /\ MaxWrite \in Nat
  /\ Ungated \in BOOLEAN /\ Faults \in BOOLEAN /\ Rumble \in BOOLEAN

VARIABLES
  mc_buffer,       \* version held by each block in RAM
  mc_block_state,  \* the set of dirty blocks
  mc_timer_hdl,    \* whether the timer has been created
  mc_ready,        \* the card may be announced to the console
  boot,            \* where mc_init is: "create", "restore", "store" or "done"
  boot_i,          \* next block of its loop
  file,            \* version of each block in the file
  armed,           \* the timer is active
  store,           \* mc_store_spread: where it is, its block, fwrite's result
  writer,          \* mc_write: where each writer is, and its block
  q_mem, q_fb,     \* items of the feedback queue: FB_TYPE_MEM_WRITE, others
  rumble_mute,     \* adapter.c rumble_mute
  open_files,      \* files open, those never closed included
  writes,          \* calls of mc_write so far; gives each its version
  raced,           \* history: blocks marked dirty between fwrite and clear bit
  lost             \* history: since the timer last started, a notice or a
                   \* store attempt was dropped

ramVars   == <<mc_buffer, mc_block_state>>
bootVars  == <<mc_timer_hdl, mc_ready, boot, boot_i>>
queueVars == <<q_mem, q_fb, rumble_mute>>
vars == <<ramVars, bootVars, queueVars, file, armed, store, writer, open_files,
          writes, raced, lost>>
-----------------------------------------------------------------------------
Idle == [pc |-> "idle", block |-> 0, ok |-> FALSE]

(* mc_init_mem is done.  The buffers hold whatever the heap held (version  *)
(* 0); a file of an earlier session holds version 1.                       *)
Init ==
  /\ mc_buffer = [b \in Block |-> 0]
  /\ mc_block_state = {}
  /\ mc_timer_hdl = FALSE /\ mc_ready = FALSE
  /\ boot = "create" /\ boot_i = 1
  /\ file \in {[b \in Block |-> 0], [b \in Block |-> 1]}
  /\ armed = FALSE
  /\ store = Idle
  /\ writer = [w \in Writers |-> [pc |-> "idle", block |-> 0]]
  /\ q_mem = 0 /\ q_fb = 0 /\ rumble_mute = FALSE
  /\ open_files = 0
  /\ writes = 1
  /\ raced = {} /\ lost = FALSE
-----------------------------------------------------------------------------
(* mc_init: create the timer, then restore the file or create it *)

BootCreateTimer ==
  /\ boot = "create"
  /\ mc_timer_hdl' = TRUE
  /\ boot' = IF file[1] = 0 THEN "store" ELSE "restore"  \* stat: is there a file
  /\ UNCHANGED <<ramVars, mc_ready, boot_i, queueVars, file, armed, store, writer,
                 open_files, writes, raced, lost>>

BootRestore ==
  /\ boot = "restore" /\ boot_i \in Block
  /\ mc_buffer' = [mc_buffer EXCEPT ![boot_i] = file[boot_i]]
  /\ boot_i' = boot_i + 1
  /\ UNCHANGED <<mc_block_state, mc_timer_hdl, mc_ready, boot, queueVars, file, armed,
                 store, writer, open_files, writes, raced, lost>>

BootStore ==
  /\ boot = "store" /\ boot_i \in Block
  /\ file' = [file EXCEPT ![boot_i] = mc_buffer[boot_i]]
  /\ boot_i' = boot_i + 1
  /\ UNCHANGED <<ramVars, mc_timer_hdl, mc_ready, boot, queueVars, armed,
                 store, writer, open_files, writes, raced, lost>>

BootEnd ==
  /\ boot \in {"restore", "store"} /\ boot_i > NBlock
  /\ mc_block_state' = IF boot = "store" THEN {} ELSE mc_block_state
  /\ mc_ready' = TRUE
  /\ boot' = "done"
  /\ UNCHANGED <<mc_buffer, mc_timer_hdl, boot_i, queueVars, file, armed, store, writer,
                 open_files, writes, raced, lost>>

(* The file cannot be opened, read or written: the card is not announced.  *)
BootFail ==
  /\ Faults
  /\ boot \in {"restore", "store"}
  /\ boot' = "done"
  /\ UNCHANGED <<ramVars, mc_timer_hdl, mc_ready, boot_i, queueVars, file, armed, store,
                 writer, open_files, writes, raced, lost>>
-----------------------------------------------------------------------------
(* The feedback queue: adapter_q_fb is "best effort" *)

Accepts == ~rumble_mute /\ q_mem + q_fb < QMax

QueueMem == IF Accepts THEN q_mem' = q_mem + 1 /\ UNCHANGED lost
                       ELSE lost' = TRUE /\ UNCHANGED q_mem

RumbleFeedback ==
  /\ Rumble /\ Accepts
  /\ q_fb' = q_fb + 1
  /\ UNCHANGED <<ramVars, bootVars, q_mem, rumble_mute, file, armed, store, writer,
                 open_files, writes, raced, lost>>

(* adapter_toggle_fb mutes the queue until adapter_fb_stop_cb, which       *)
(* queues the end of the rumble after it has unmuted.                      *)
Mute ==
  /\ Rumble /\ ~rumble_mute
  /\ rumble_mute' = TRUE
  /\ UNCHANGED <<ramVars, bootVars, q_mem, q_fb, file, armed, store, writer,
                 open_files, writes, raced, lost>>

Unmute ==
  /\ rumble_mute
  /\ rumble_mute' = FALSE
  /\ q_fb' = IF q_mem + q_fb < QMax THEN q_fb + 1 ELSE q_fb
  /\ UNCHANGED <<ramVars, bootVars, q_mem, file, armed, store, writer,
                 open_files, writes, raced, lost>>
-----------------------------------------------------------------------------
(* mc_write: copy the data, set the dirty bit, queue the notice *)

MayWrite == mc_ready \/ Ungated

WriteCopy(w, b) ==
  /\ writer[w].pc = "idle" /\ MayWrite /\ writes <= MaxWrite
  /\ mc_buffer' = [mc_buffer EXCEPT ![b] = writes + 1]
  /\ writes' = writes + 1
  /\ writer' = [writer EXCEPT ![w] = [pc |-> "copied", block |-> b]]
  /\ UNCHANGED <<mc_block_state, bootVars, queueVars, file, armed, store, open_files,
                 raced, lost>>

(* Its block was written to the file and its bit is about to be cleared.   *)
BeingCleared(b) ==
  \/ store.pc = "written" /\ store.ok /\ store.block = b
  \/ boot = "store" /\ boot_i > b

WriteMark(w) ==
  /\ writer[w].pc = "copied"
  /\ LET b == writer[w].block
     IN  /\ mc_block_state' = mc_block_state \cup {b}
         /\ raced' = IF BeingCleared(b) THEN raced \cup {b} ELSE raced
  /\ writer' = [writer EXCEPT ![w].pc = "marked"]
  /\ UNCHANGED <<mc_buffer, bootVars, queueVars, file, armed, store, open_files, writes, lost>>

WriteNotice(w) ==
  /\ writer[w].pc = "marked"
  /\ QueueMem
  /\ writer' = [writer EXCEPT ![w] = [pc |-> "idle", block |-> 0]]
  /\ UNCHANGED <<ramVars, bootVars, q_fb, rumble_mute, file, armed, store, open_files,
                 writes, raced>>
-----------------------------------------------------------------------------
(* bt_fb_task takes an item; mc_storage_update (re)starts the timer *)

StartTimer == armed' = TRUE /\ lost' = FALSE

FbTaskMem ==
  /\ q_mem > 0
  /\ q_mem' = q_mem - 1
  /\ IF mc_timer_hdl THEN StartTimer ELSE lost' = TRUE /\ UNCHANGED armed
  /\ UNCHANGED <<ramVars, bootVars, q_fb, rumble_mute, file, store, writer, open_files,
                 writes, raced>>

OtherStarts ==  \* mutant: every item is taken for an FB_TYPE_MEM_WRITE
  /\ q_fb > 0 /\ mc_timer_hdl
  /\ q_fb' = q_fb - 1
  /\ StartTimer
  /\ UNCHANGED <<ramVars, bootVars, q_mem, rumble_mute, file, store, writer, open_files,
                 writes, raced>>

FbTaskOther ==
  /\ q_fb > 0
  /\ q_fb' = q_fb - 1
  /\ UNCHANGED <<ramVars, bootVars, q_mem, rumble_mute, file, armed, store, writer,
                 open_files, writes, raced, lost>>
-----------------------------------------------------------------------------
(* mc_store_cb, run by the esp_timer task: mc_store_spread *)

Expire == armed /\ store.pc = "idle" /\ armed' = FALSE

StoreOpenFail ==
  /\ Expire
  /\ Faults \/ open_files = MaxFiles
  /\ lost' = TRUE
  /\ UNCHANGED <<ramVars, bootVars, queueVars, file, store, writer, open_files, writes, raced>>

(* ffs: the lowest dirty block. *)
StoreOpen ==
  /\ Expire
  /\ open_files < MaxFiles
  /\ open_files' = open_files + 1
  /\ \/ \E b \in mc_block_state :
          /\ \A c \in mc_block_state : b <= c
          /\ store' = [pc |-> "opened", block |-> b, ok |-> FALSE]
     \/ mc_block_state = {} /\ UNCHANGED store  \* returns without fclose
  /\ UNCHANGED <<ramVars, bootVars, queueVars, file, writer, writes, raced, lost>>

StoreWrite ==
  /\ store.pc = "opened"
  /\ \/ /\ file' = [file EXCEPT ![store.block] = mc_buffer[store.block]]
        /\ raced' = raced \ {store.block}
        /\ store' = [store EXCEPT !.pc = "written", !.ok = TRUE]
     \/ /\ Faults
        /\ store' = [store EXCEPT !.pc = "written"]
        /\ UNCHANGED <<file, raced>>
  /\ open_files' = open_files - 1
  /\ UNCHANGED <<ramVars, bootVars, queueVars, armed, writer, writes, lost>>

ClearAlways ==  \* mutant: the bit is cleared although fwrite failed
  /\ store.pc = "written"
  /\ mc_block_state' = mc_block_state \ {store.block}
  /\ store' = [store EXCEPT !.pc = "cleared"]
  /\ UNCHANGED <<mc_buffer, bootVars, queueVars, file, armed, writer, open_files, writes,
                 raced, lost>>

ClearAll ==  \* mutant: as if the whole card had been stored
  /\ store.pc = "written"
  /\ mc_block_state' = IF store.ok THEN {} ELSE mc_block_state
  /\ store' = [store EXCEPT !.pc = "cleared"]
  /\ UNCHANGED <<mc_buffer, bootVars, queueVars, file, armed, writer, open_files, writes,
                 raced, lost>>

StoreClear ==
  /\ store.pc = "written"
  /\ mc_block_state' = IF store.ok THEN mc_block_state \ {store.block} ELSE mc_block_state
  /\ store' = [store EXCEPT !.pc = "cleared"]
  /\ UNCHANGED <<mc_buffer, bootVars, queueVars, file, armed, writer, open_files, writes,
                 raced, lost>>

NoRearm ==  \* mutant: one block per notice
  /\ store.pc = "cleared"
  /\ store' = Idle
  /\ UNCHANGED <<armed, lost, ramVars, bootVars, queueVars, file, writer, open_files,
                 writes, raced>>

StoreRearm ==
  /\ store.pc = "cleared"
  /\ IF mc_block_state # {} THEN StartTimer ELSE UNCHANGED <<armed, lost>>
  /\ store' = Idle
  /\ UNCHANGED <<ramVars, bootVars, queueVars, file, writer, open_files, writes, raced>>
-----------------------------------------------------------------------------
Boot  == BootCreateTimer \/ BootRestore \/ BootStore \/ BootEnd
Fb    == FbTaskMem \/ FbTaskOther
Store == StoreOpen \/ StoreOpenFail \/ StoreWrite \/ StoreClear \/ StoreRearm

Next ==
  \/ Boot \/ BootFail
  \/ RumbleFeedback \/ Mute \/ Unmute
  \/ \E w \in Writers : (\E b \in Block : WriteCopy(w, b)) \/ WriteMark(w) \/ WriteNotice(w)
  \/ Fb \/ Store

Spec == Init /\ [][Next]_vars

(* Every task of core 0 gets to run (they all block or sleep), a write in  *)
(* progress ends, and the timer expires: writes are bounded here, so it is *)
(* not restarted forever, as a console that never pauses would do.         *)
Fairness ==
  /\ WF_vars(Boot)
  /\ \A w \in Writers : WF_vars(WriteMark(w) \/ WriteNotice(w))
  /\ WF_vars(FbTaskMem)
  /\ WF_vars(Store)

FairSpec == Spec /\ Fairness
-----------------------------------------------------------------------------
Version == 0..(MaxWrite + 1)

(* Every variable stays in its domain, and the queue within its capacity. *)
TypeOK ==
  /\ mc_buffer \in [Block -> Version] /\ file \in [Block -> Version]
  /\ mc_block_state \subseteq Block /\ raced \subseteq Block
  /\ mc_timer_hdl \in BOOLEAN /\ mc_ready \in BOOLEAN
  /\ boot \in {"create", "restore", "store", "done"} /\ boot_i \in 1..(NBlock + 1)
  /\ armed \in BOOLEAN /\ rumble_mute \in BOOLEAN /\ lost \in BOOLEAN
  /\ store \in [pc : {"idle", "opened", "written", "cleared"}, block : Block \cup {0},
                ok : BOOLEAN]
  /\ store.pc # "idle" => store.block \in Block
  /\ writer \in [Writers -> [pc : {"idle", "copied", "marked"}, block : Block \cup {0}]]
  /\ \A w \in Writers : writer[w].pc # "idle" => writer[w].block \in Block
  /\ q_mem \in Nat /\ q_fb \in Nat /\ q_mem + q_fb <= QMax
  /\ open_files \in 0..MaxFiles
  /\ writes \in 1..(MaxWrite + 1)

Copying(b) == \E w \in Writers : writer[w].pc = "copied" /\ writer[w].block = b

(* The file may differ from the card only in a block that is dirty, that a *)
(* writer is about to mark, or that was written again between fwrite and   *)
(* the clearing of its bit: no other interleaving of the writers, the      *)
(* timer and mc_init loses a save.                                         *)
StaleHasCause ==
  mc_ready =>
    \A b \in Block : file[b] # mc_buffer[b] => b \in mc_block_state \cup raced \/ Copying(b)

(* A dirty block always has a store coming: the timer runs, its callback   *)
(* is at work, or a notice is queued or about to be; unless the last       *)
(* notice was dropped or the file could not be opened.                     *)
DirtyScheduled ==
  mc_block_state # {} =>
    \/ armed \/ store.pc # "idle" \/ q_mem > 0 \/ lost
    \/ \E w \in Writers : writer[w].pc = "marked"

(* mc_store_spread leaves its file open when nothing is dirty.  Each such  *)
(* leak costs a write: the callback's own restarts never leak, so the file *)
(* system's max_files cannot run out before as many calls of mc_write.     *)
Leaked == open_files - (IF store.pc = "opened" THEN 1 ELSE 0)
LeakBound == ~Ungated => Leaked < writes

(* Once the timer has been started for a dirty block it gets stored,       *)
(* whatever is written, muted or dropped meanwhile.                        *)
EventuallyStored ==
  \A b \in Block : (b \in mc_block_state /\ armed) ~> b \notin mc_block_state

(* In the end the file holds the card, if no notice is dropped: after the  *)
(* last write every block is stored, except one that lost the race with    *)
(* the clearing of its bit.                                                *)
EventuallySaved ==
  \A b \in Block : [](~lost) => <>[](file[b] = mc_buffer[b] \/ b \in raced)
=============================================================================
