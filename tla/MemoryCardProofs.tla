-------------------------- MODULE MemoryCardProofs --------------------------
(***************************************************************************)
(* Theorems about MemoryCard for every number of writers, blocks and       *)
(* writes, with or without file faults and ungated writers.                *)
(***************************************************************************)
EXTENDS MemoryCard, FiniteSetTheorems, TLAPS

(* TypeOK in groups: the card, mc_init, the queue, the callback, the rest. *)
CardType == /\ mc_buffer \in [Block -> Version] /\ file \in [Block -> Version]
            /\ mc_block_state \subseteq Block /\ raced \subseteq Block

BootType == /\ mc_timer_hdl \in BOOLEAN /\ mc_ready \in BOOLEAN
            /\ boot \in {"create", "restore", "store", "done"} /\ boot_i \in 1..(NBlock + 1)

QueueType == /\ q_mem \in Nat /\ q_fb \in Nat /\ q_mem + q_fb <= QMax
             /\ rumble_mute \in BOOLEAN

StoreType == /\ store \in [pc : {"idle", "opened", "written", "cleared"},
                           block : Block \cup {0}, ok : BOOLEAN]
             /\ store.pc # "idle" => store.block \in Block

WriterType ==
  /\ writer \in [Writers -> [pc : {"idle", "copied", "marked"}, block : Block \cup {0}]]
  /\ \A w \in Writers : writer[w].pc # "idle" => writer[w].block \in Block

RestType == /\ armed \in BOOLEAN /\ lost \in BOOLEAN
            /\ open_files \in 0..MaxFiles /\ writes \in 1..(MaxWrite + 1)

(* The groups together are the type invariant, in a state and in the next. *)
LEMMA TypeGroups ==
  /\ TypeOK => CardType /\ BootType /\ QueueType /\ StoreType /\ WriterType /\ RestType
  /\ CardType' /\ BootType' /\ QueueType' /\ StoreType' /\ WriterType' /\ RestType' => TypeOK'
BY Zenon DEF TypeOK, CardType, BootType, QueueType, StoreType, WriterType, RestType

(* The groups a step leaves alone stay well typed. *)
LEMMA TypeUnchanged ==
  ASSUME TypeOK
  PROVE  /\ UNCHANGED <<ramVars, file, raced>> => CardType'
         /\ UNCHANGED bootVars => BootType'
         /\ UNCHANGED queueVars => QueueType'
         /\ UNCHANGED store => StoreType'
         /\ UNCHANGED writer => WriterType'
<1>1. UNCHANGED <<ramVars, file, raced>> => CardType'
  BY TypeGroups DEF CardType, ramVars
<1>2. UNCHANGED bootVars => BootType'
  BY TypeGroups DEF BootType, bootVars
<1>3. UNCHANGED queueVars => QueueType'
  BY TypeGroups DEF QueueType, queueVars
<1>4. UNCHANGED store => StoreType'
  BY TypeGroups DEF StoreType
<1>5. UNCHANGED writer => WriterType'
  BY TypeGroups DEF WriterType
<1> QED
  BY <1>1, <1>2, <1>3, <1>4, <1>5
-----------------------------------------------------------------------------
(* mc_init stays within its loop and its stages. *)
LEMMA BootStepType ==
  ASSUME TypeOK, Boot \/ BootFail
  PROVE  TypeOK'
<1>1. UNCHANGED <<queueVars, armed, store, writer, open_files, writes, raced, lost>>
  BY DEF Boot, BootFail, BootCreateTimer, BootRestore, BootStore, BootEnd
<1>2. CardType'
  <2>1. CASE UNCHANGED <<mc_buffer, file>>
    BY <1>1, <2>1, TypeGroups
    DEF Boot, BootFail, BootCreateTimer, BootRestore, BootStore, BootEnd, CardType, ramVars
  <2>2. CASE BootRestore
    BY <2>2, TypeGroups DEF BootRestore, CardType
  <2>3. CASE BootStore
    BY <2>3, TypeGroups DEF BootStore, CardType, ramVars
  <2> QED
    BY <2>1, <2>2, <2>3 DEF Boot, BootFail, BootCreateTimer, BootEnd, ramVars
<1>3. BootType'
  <2>1. boot_i' \in 1..(NBlock + 1)
    BY MemoryCardAssumption, TypeGroups
    DEF Boot, BootFail, BootCreateTimer, BootRestore, BootStore, BootEnd, BootType, Block
  <2>2. boot' \in {"create", "restore", "store", "done"}
    BY TypeGroups
    DEF Boot, BootFail, BootCreateTimer, BootRestore, BootStore, BootEnd, BootType
  <2>3. mc_timer_hdl' \in BOOLEAN /\ mc_ready' \in BOOLEAN
    BY TypeGroups, Zenon
    DEF Boot, BootFail, BootCreateTimer, BootRestore, BootStore, BootEnd, BootType
  <2> QED  BY <2>1, <2>2, <2>3 DEF BootType
<1> QED
  BY <1>1, <1>2, <1>3, TypeGroups, TypeUnchanged DEF RestType

(* Both sides of the feedback queue respect its capacity. *)
LEMMA QueueStepType ==
  ASSUME TypeOK, RumbleFeedback \/ Mute \/ Unmute \/ Fb
  PROVE  TypeOK'
<1>1. UNCHANGED <<ramVars, bootVars, file, store, writer, open_files, writes, raced>>
  BY DEF RumbleFeedback, Mute, Unmute, Fb, FbTaskMem, FbTaskOther
<1>2. QueueType'
  <2>1. q_mem' \in Nat /\ q_fb' \in Nat /\ q_mem' + q_fb' <= QMax
    BY MemoryCardAssumption, TypeGroups
    DEF RumbleFeedback, Mute, Unmute, Fb, FbTaskMem, FbTaskOther, QueueType, Accepts
  <2>2. rumble_mute' \in BOOLEAN
    BY TypeGroups, Zenon
    DEF RumbleFeedback, Mute, Unmute, Fb, FbTaskMem, FbTaskOther, QueueType
  <2> QED  BY <2>1, <2>2 DEF QueueType
<1>3. armed' \in BOOLEAN /\ lost' \in BOOLEAN
  BY TypeGroups, Zenon
  DEF RumbleFeedback, Mute, Unmute, Fb, FbTaskMem, FbTaskOther, StartTimer, RestType
<1> QED
  BY <1>1, <1>2, <1>3, TypeGroups, TypeUnchanged DEF RestType

(* mc_write names a block from its copy to its notice. *)
LEMMA WriterStepType ==
  ASSUME TypeOK, NEW w \in Writers,
         (\E b \in Block : WriteCopy(w, b)) \/ WriteMark(w) \/ WriteNotice(w)
  PROVE  TypeOK'
<1>1. UNCHANGED <<bootVars, file, armed, store, open_files>>
  BY DEF WriteCopy, WriteMark, WriteNotice
<1>2. CASE \E b \in Block : WriteCopy(w, b)
  <2>1. PICK b \in Block : WriteCopy(w, b)
    BY <1>2
  <2>2. writes + 1 \in Version /\ writes + 1 \in 1..(MaxWrite + 1)
    BY <2>1, MemoryCardAssumption, TypeGroups DEF WriteCopy, RestType, Version
  <2>3. CardType'
    BY <2>1, <2>2, TypeGroups DEF WriteCopy, CardType
  <2>4. WriterType'
    BY <2>1, TypeGroups DEF WriteCopy, WriterType
  <2>5. UNCHANGED <<queueVars, raced, lost>> /\ writes' = writes + 1
    BY <2>1 DEF WriteCopy
  <2>6. RestType'
    BY <1>1, <2>2, <2>5, TypeGroups DEF RestType
  <2> QED
    BY <1>1, <2>3, <2>4, <2>5, <2>6, TypeGroups, TypeUnchanged
<1>3. CASE WriteMark(w)
  <2>1. writer[w].block \in Block
    BY <1>3, TypeGroups DEF WriteMark, WriterType
  <2>2. CardType'
    BY <1>3, <2>1, TypeGroups DEF WriteMark, CardType
  <2>3. WriterType'
    BY <1>3, <2>1, TypeGroups DEF WriteMark, WriterType
  <2>4. UNCHANGED <<queueVars, writes, lost>>
    BY <1>3 DEF WriteMark
  <2>5. RestType'
    BY <1>1, <2>4, TypeGroups DEF RestType
  <2> QED
    BY <1>1, <2>2, <2>3, <2>4, <2>5, TypeGroups, TypeUnchanged
<1>4. CASE WriteNotice(w)
  <2>1. UNCHANGED <<ramVars, q_fb, rumble_mute, writes, raced>>
    BY <1>4 DEF WriteNotice
  <2>2. q_mem' \in Nat /\ q_mem' + q_fb' <= QMax
    BY <1>4, <2>1, MemoryCardAssumption, TypeGroups DEF WriteNotice, QueueMem, Accepts, QueueType
  <2>3. QueueType'
    BY <2>1, <2>2, TypeGroups DEF QueueType
  <2>4. WriterType'
    BY <1>4, TypeGroups DEF WriteNotice, WriterType
  <2>5. lost' \in BOOLEAN
    BY <1>4, TypeGroups, Zenon DEF WriteNotice, QueueMem, RestType
  <2>6. RestType'
    BY <1>1, <2>1, <2>5, TypeGroups DEF RestType
  <2> QED
    BY <1>1, <2>1, <2>3, <2>4, <2>6, TypeGroups, TypeUnchanged
<1> QED
  BY <1>2, <1>3, <1>4

(* The callback stores a block of the card, and closes the file it opened. *)
LEMMA StoreStepType ==
  ASSUME TypeOK, Store, store.pc = "opened" => open_files > 0
  PROVE  TypeOK'
<1>1. UNCHANGED <<bootVars, queueVars, writer, writes>>
  BY DEF Store, StoreOpen, StoreOpenFail, StoreWrite, StoreClear, StoreRearm
<1>2. CardType'
  <2>1. CASE StoreWrite
    <3>1. store.block \in Block
      BY <2>1, TypeGroups DEF StoreWrite, StoreType
    <3> QED
      BY <2>1, <3>1, TypeGroups DEF StoreWrite, CardType, ramVars
  <2>2. CASE StoreClear
    BY <2>2, TypeGroups DEF StoreClear, CardType
  <2>3. CASE UNCHANGED <<ramVars, file, raced>>
    BY <2>3, TypeUnchanged
  <2> QED
    BY <2>1, <2>2, <2>3 DEF Store, StoreOpen, StoreOpenFail, StoreRearm
<1>3. StoreType'
  <2>1. CASE UNCHANGED store
    BY <2>1, TypeUnchanged
  <2>2. CASE StoreRearm
    BY <2>2 DEF StoreRearm, Idle, StoreType
  <2>3. CASE \E b \in Block : store' = [pc |-> "opened", block |-> b, ok |-> FALSE]
    BY <2>3 DEF StoreType
  <2>4. CASE StoreWrite \/ StoreClear
    <3>1. store.block \in Block /\ store \in [pc : {"idle", "opened", "written", "cleared"},
                                             block : Block \cup {0}, ok : BOOLEAN]
      BY <2>4, TypeGroups DEF StoreWrite, StoreClear, StoreType
    <3>2. \/ store' = [store EXCEPT !.pc = "written", !.ok = TRUE]
          \/ store' = [store EXCEPT !.pc = "written"]
          \/ store' = [store EXCEPT !.pc = "cleared"]
      BY <2>4 DEF StoreWrite, StoreClear
    <3> QED  BY <3>1, <3>2 DEF StoreType
  <2> QED
    BY <2>1, <2>2, <2>3, <2>4, TypeGroups DEF Store, StoreOpen, StoreOpenFail, CardType
<1>4. open_files' \in 0..MaxFiles
  BY MemoryCardAssumption, TypeGroups
  DEF Store, StoreOpen, StoreOpenFail, StoreWrite, StoreClear, StoreRearm, RestType
<1>5. armed' \in BOOLEAN /\ lost' \in BOOLEAN
  BY TypeGroups, Zenon
  DEF Store, Expire, StoreOpen, StoreOpenFail, StoreWrite, StoreClear, StoreRearm, StartTimer,
      RestType
<1>6. RestType'
  BY <1>1, <1>4, <1>5, TypeGroups DEF RestType
<1> QED
  BY <1>1, <1>2, <1>3, <1>6, TypeGroups, TypeUnchanged

(* While the callback is in the file, that file is counted as open. *)
OpenCounted == store.pc = "opened" => open_files > 0

TypeInv == TypeOK /\ OpenCounted

(* No step leaves the domains. *)
LEMMA TypeInvStep == TypeInv /\ [Next]_vars => TypeInv'
<1> SUFFICES ASSUME TypeInv, [Next]_vars PROVE TypeInv'
  OBVIOUS
<1>1. TypeOK'
  <2>1. CASE UNCHANGED vars
    <3>1. UNCHANGED <<ramVars, bootVars, queueVars, file, armed, store, writer, open_files,
                      writes, raced, lost>>
      BY <2>1 DEF vars
    <3> QED  BY <3>1, TypeGroups, TypeUnchanged DEF TypeInv, RestType
  <2>2. TypeOK /\ (store.pc = "opened" => open_files > 0)
    BY DEF TypeInv, OpenCounted
  <2>3. CASE Boot \/ BootFail
    BY <2>2, <2>3, BootStepType
  <2>4. CASE RumbleFeedback \/ Mute \/ Unmute \/ Fb
    BY <2>2, <2>4, QueueStepType
  <2>5. ASSUME NEW w \in Writers,
               (\E b \in Block : WriteCopy(w, b)) \/ WriteMark(w) \/ WriteNotice(w)
        PROVE  TypeOK'
    BY <2>2, <2>5, WriterStepType
  <2>6. CASE Store
    BY <2>2, <2>6, StoreStepType
  <2> QED
    BY <2>1, <2>3, <2>4, <2>5, <2>6 DEF Next
<1>2. OpenCounted'
  <2>1. CASE UNCHANGED <<store, open_files>>
    BY <2>1 DEF TypeInv, OpenCounted
  <2>2. CASE Store
    <3>1. open_files \in Nat /\ store \in [pc : {"idle", "opened", "written", "cleared"},
                                         block : Block \cup {0}, ok : BOOLEAN]
      BY MemoryCardAssumption DEF TypeInv, TypeOK
    <3>2. CASE StoreOpen \/ StoreOpenFail
      BY <3>1, <3>2 DEF TypeInv, OpenCounted, StoreOpen, StoreOpenFail
    <3>3. CASE StoreWrite
      BY <3>1, <3>3 DEF OpenCounted, StoreWrite
    <3>4. CASE StoreClear \/ StoreRearm
      BY <3>1, <3>4 DEF OpenCounted, StoreClear, StoreRearm, Idle
    <3> QED  BY <2>2, <3>2, <3>3, <3>4 DEF Store
  <2> QED
    BY <2>1, <2>2
    DEF Next, vars, Boot, BootFail, BootCreateTimer, BootRestore, BootStore, BootEnd,
        RumbleFeedback, Mute, Unmute, WriteCopy, WriteMark, WriteNotice, Fb, FbTaskMem, FbTaskOther
<1> QED
  BY <1>1, <1>2 DEF TypeInv

(* The inductive form: an open file is counted while the callback writes.  *)
THEOREM CardTypeInvariant == Spec => []TypeInv
<1>1. Init => TypeInv
  <2> SUFFICES ASSUME Init PROVE TypeInv
    OBVIOUS
  <2>1. 0 \in Version /\ 1 \in Version
    BY MemoryCardAssumption DEF Version
  <2>2. CardType
    BY <2>1 DEF Init, CardType
  <2>3. boot_i \in 1..(NBlock + 1)
    BY MemoryCardAssumption DEF Init
  <2>4. mc_timer_hdl \in BOOLEAN /\ mc_ready \in BOOLEAN /\ armed \in BOOLEAN
        /\ rumble_mute \in BOOLEAN /\ lost \in BOOLEAN
    BY Zenon DEF Init
  <2>5. /\ q_mem \in Nat /\ q_fb \in Nat /\ q_mem + q_fb <= QMax
        /\ open_files \in 0..MaxFiles /\ writes \in 1..(MaxWrite + 1)
        /\ boot \in {"create", "restore", "store", "done"}
    BY MemoryCardAssumption DEF Init
  <2>6. StoreType
    BY DEF Init, Idle, StoreType
  <2>7. WriterType
    BY DEF Init, WriterType
  <2>8. OpenCounted
    BY DEF Init, Idle, OpenCounted
  <2> QED
    BY <2>2, <2>3, <2>4, <2>5, <2>6, <2>7, <2>8, Zenon
    DEF TypeInv, TypeOK, CardType, StoreType, WriterType
<1>2. TypeInv /\ [Next]_vars => TypeInv'
  BY TypeInvStep
<1> QED
  BY <1>1, <1>2, PTL DEF Spec

(* The card, the queue and the open files stay within their bounds: the    *)
(* queue never takes more than it holds, nor the file system.              *)
THEOREM CardTypeCorrect == Spec => []TypeOK
<1>1. TypeInv => TypeOK
  BY DEF TypeInv
<1> QED
  BY <1>1, CardTypeInvariant, PTL
-----------------------------------------------------------------------------
(* A dirty block always has a store coming *)

(* At all times a dirty block has a store coming, or its notice or attempt *)
(* was dropped: whoever takes the present means away (the timer expires,   *)
(* the callback ends, the notice is handled) puts the next in place.       *)
THEOREM StoreScheduled == Spec => []DirtyScheduled
<1>1. Init => DirtyScheduled
  BY DEF Init, DirtyScheduled
<1>2. TypeInv /\ DirtyScheduled /\ [Next]_vars => DirtyScheduled'
  <2> SUFFICES ASSUME TypeInv, DirtyScheduled, [Next]_vars PROVE DirtyScheduled'
    OBVIOUS
  <2>1. q_mem \in Nat /\ q_fb \in Nat
    BY DEF TypeInv, TypeOK
  <2>2. CASE Boot \/ BootFail
    BY <2>2
    DEF DirtyScheduled, Boot, BootFail, BootCreateTimer, BootRestore, BootStore, BootEnd,
        ramVars, queueVars
  <2>3. CASE RumbleFeedback \/ Mute \/ Unmute \/ Fb
    BY <2>1, <2>3
    DEF DirtyScheduled, RumbleFeedback, Mute, Unmute, Fb, FbTaskMem, FbTaskOther, StartTimer, ramVars
  <2>4. ASSUME NEW w \in Writers, NEW b \in Block, WriteCopy(w, b) PROVE DirtyScheduled'
    BY <2>4 DEF DirtyScheduled, WriteCopy, queueVars, TypeInv, TypeOK
  <2>5. ASSUME NEW w \in Writers, WriteMark(w) PROVE DirtyScheduled'
    BY <2>5 DEF DirtyScheduled, WriteMark, TypeInv, TypeOK
  <2>6. ASSUME NEW w \in Writers, WriteNotice(w) PROVE DirtyScheduled'
    <3>1. lost' \/ q_mem' > 0
      BY <2>1, <2>6 DEF WriteNotice, QueueMem
    <3> QED  BY <3>1 DEF DirtyScheduled
  <2>7. CASE Store
    <3>1. CASE StoreOpenFail
      BY <3>1 DEF DirtyScheduled, StoreOpenFail
    <3>2. CASE StoreOpen
      BY <3>2 DEF DirtyScheduled, StoreOpen, ramVars
    <3>3. CASE StoreWrite \/ StoreClear
      BY <3>3 DEF DirtyScheduled, StoreWrite, StoreClear, TypeInv, TypeOK
    <3>4. CASE StoreRearm
      BY <3>4 DEF DirtyScheduled, StoreRearm, StartTimer, ramVars
    <3> QED  BY <2>7, <3>1, <3>2, <3>3, <3>4 DEF Store
  <2>8. CASE UNCHANGED vars
    BY <2>8 DEF DirtyScheduled, vars, ramVars, queueVars
  <2> QED
    BY <2>2, <2>3, <2>4, <2>5, <2>6, <2>7, <2>8 DEF Next
<1> QED
  BY <1>1, <1>2, CardTypeInvariant, PTL DEF Spec
-----------------------------------------------------------------------------
(* The file lags behind the card only for a known cause *)

Fresh(b) == file[b] = mc_buffer[b] \/ b \in raced \/ Copying(b)

(* StaleHasCause says nothing of a block whose bit is about to be cleared: *)
(* what makes it inductive is that such a block is fresh.                  *)
FreshInv ==
  /\ mc_ready => boot = "done"
  /\ boot = "create" => boot_i = 1
  /\ \A b \in Block : mc_ready \/ (boot = "restore" /\ b < boot_i) => Fresh(b) \/ b \in mc_block_state
  /\ boot = "store" => \A b \in Block : b < boot_i => Fresh(b)
  /\ store.pc = "opened" => store.ok = FALSE
  /\ \A b \in Block : store.pc = "written" /\ store.ok /\ store.block = b => Fresh(b)

(* A step that writes neither the card nor the file nor a mark keeps       *)
(* every block as fresh as it was.                                         *)
LEMMA FreshUnchanged ==
  ASSUME UNCHANGED <<ramVars, file, raced, writer>>
  PROVE  \A b \in Block : Fresh(b)' <=> Fresh(b)
BY DEF Fresh, Copying, ramVars

(* FreshInv is inductive: mc_init.                                         *)
LEMMA FreshBoot ==
  ASSUME TypeInv, FreshInv, Boot \/ BootFail
  PROVE  FreshInv'
<1>1. UNCHANGED <<store, writer, raced>>
  BY DEF Boot, BootFail, BootCreateTimer, BootRestore, BootStore, BootEnd
<1>2. boot_i \in Nat /\ (store.pc = "written" => store.block \in Block)
      /\ mc_buffer \in [Block -> Version] /\ file \in [Block -> Version]
  BY MemoryCardAssumption DEF TypeInv, TypeOK
<1>3. CASE BootCreateTimer \/ BootFail \/ BootEnd
  <2>1. UNCHANGED <<mc_buffer, file, boot_i>>
    BY <1>3 DEF BootCreateTimer, BootFail, BootEnd, ramVars
  <2>2. \A b \in Block : Fresh(b)' <=> Fresh(b)
    BY <1>1, <2>1 DEF Fresh, Copying
  <2>3. CASE BootCreateTimer
    BY <1>1, <1>2, <2>1, <2>2, <2>3 DEF BootCreateTimer, FreshInv, ramVars, Block
  <2>4. CASE BootFail
    BY <1>1, <1>2, <2>1, <2>2, <2>4 DEF BootFail, FreshInv, ramVars
  <2>5. CASE BootEnd
    <3>1. \A b \in Block : b < boot_i
      BY <1>2, <2>5, MemoryCardAssumption DEF BootEnd, Block
    <3> QED
      BY <1>1, <1>2, <2>1, <2>2, <2>5, <3>1 DEF BootEnd, FreshInv
  <2> QED  BY <1>3, <2>3, <2>4, <2>5
<1>4. CASE BootRestore \/ BootStore
  <2>1. /\ boot' = boot /\ boot_i' = boot_i + 1 /\ boot_i \in Block
        /\ UNCHANGED <<mc_ready, mc_block_state>>
        /\ boot \in {"restore", "store"}
    BY <1>4 DEF BootRestore, BootStore, ramVars
  <2>2. /\ file'[boot_i] = mc_buffer'[boot_i]
        /\ \A b \in Block \ {boot_i} : file'[b] = file[b] /\ mc_buffer'[b] = mc_buffer[b]
    BY <1>2, <1>4 DEF BootRestore, BootStore, ramVars
  <2>3. \A b \in Block : Fresh(b)' <=> b = boot_i \/ Fresh(b)
    BY <1>1, <2>1, <2>2 DEF Fresh, Copying
  <2> QED
    BY <1>1, <1>2, <2>1, <2>3 DEF FreshInv, Block
<1> QED
  BY <1>3, <1>4 DEF Boot

(* FreshInv is inductive: mc_write.  A block is copied before it is marked *)
(* and, if its bit is about to be cleared, counted as raced when marked.   *)
LEMMA FreshWrite ==
  ASSUME TypeInv, FreshInv, NEW w \in Writers,
         (\E b \in Block : WriteCopy(w, b)) \/ WriteMark(w) \/ WriteNotice(w)
  PROVE  FreshInv'
<1>1. /\ UNCHANGED <<bootVars, store, file>>
      /\ store.pc = "written" => store.block \in Block
      /\ boot_i \in Nat
      /\ mc_buffer \in [Block -> Version]
      /\ writer \in [Writers -> [pc : {"idle", "copied", "marked"}, block : Block \cup {0}]]
  BY MemoryCardAssumption DEF WriteCopy, WriteMark, WriteNotice, TypeInv, TypeOK
<1>2. /\ \A b \in Block :
           Fresh(b) => Fresh(b)' \/ (b \in mc_block_state' /\ ~BeingCleared(b))
      /\ mc_block_state \subseteq mc_block_state'
  <2>0. mc_block_state \subseteq mc_block_state'
    BY DEF WriteCopy, WriteMark, WriteNotice, ramVars
  <2>1. ASSUME NEW b \in Block, WriteCopy(w, b)
        PROVE  \A c \in Block : Fresh(c) => Fresh(c)'
    <3>1. Copying(b)'
      BY <1>1, <2>1 DEF WriteCopy, Copying
    <3>2. ASSUME NEW c \in Block \ {b}, Fresh(c) PROVE Fresh(c)'
      <4>1. mc_buffer'[c] = mc_buffer[c] /\ file' = file /\ raced' = raced
        BY <1>1, <2>1 DEF WriteCopy
      <4>2. Copying(c) => Copying(c)'
        BY <1>1, <2>1 DEF WriteCopy, Copying
      <4> QED  BY <3>2, <4>1, <4>2 DEF Fresh
    <3> QED  BY <3>1, <3>2 DEF Fresh
  <2>2. CASE WriteMark(w)
    <3>1. ASSUME NEW c \in Block, Copying(c)
          PROVE  Copying(c)' \/ c = writer[w].block
      BY <1>1, <2>2, <3>1 DEF WriteMark, Copying
    <3>2. /\ mc_buffer' = mc_buffer /\ raced \subseteq raced'
          /\ writer[w].block \in mc_block_state'
          /\ BeingCleared(writer[w].block) => writer[w].block \in raced'
      BY <2>2 DEF WriteMark
    <3>3. ASSUME NEW c \in Block, Fresh(c), c # writer[w].block
          PROVE  Fresh(c)'
      BY <1>1, <3>1, <3>2, <3>3 DEF Fresh
    <3>4. BeingCleared(writer[w].block) => \A c \in Block : c = writer[w].block => Fresh(c)'
      BY <3>2 DEF Fresh
    <3>6. ASSUME NEW c \in Block, Fresh(c)
          PROVE  Fresh(c)' \/ (c \in mc_block_state' /\ ~BeingCleared(c))
      <4>1. CASE c = writer[w].block
        BY <3>2, <3>4, <4>1
      <4> QED  BY <3>3, <3>6, <4>1
    <3> QED
      BY <2>0, <3>6
  <2>3. CASE WriteNotice(w)
    <3>1. \A c \in Block : Copying(c) => Copying(c)'
      BY <1>1, <2>3 DEF WriteNotice, Copying
    <3> QED  BY <1>1, <2>3, <3>1 DEF WriteNotice, ramVars, Fresh
  <2> QED
    BY <2>0, <2>1, <2>2, <2>3
<1> QED
  BY <1>1, <1>2 DEF FreshInv, BeingCleared, bootVars

(* FreshInv is inductive: the callback clears the bit of a fresh block.    *)
LEMMA FreshStore ==
  ASSUME TypeInv, FreshInv, Store
  PROVE  FreshInv'
<1>1. /\ UNCHANGED <<bootVars, mc_buffer, writer>>
      /\ store.pc # "idle" => store.block \in Block
      /\ file \in [Block -> Version]
      /\ store \in [pc : {"idle", "opened", "written", "cleared"}, block : Block \cup {0},
                   ok : BOOLEAN]
  BY DEF Store, StoreOpen, StoreOpenFail, StoreWrite, StoreClear, StoreRearm, ramVars,
         TypeInv, TypeOK
<1>2. CASE StoreOpen \/ StoreOpenFail \/ StoreRearm
  <2>1. UNCHANGED <<ramVars, file, raced>> /\ (store'.pc = "written" => store' = store)
    BY <1>2 DEF StoreOpen, StoreOpenFail, StoreRearm, Idle
  <2>2. \A b \in Block : Fresh(b)' <=> Fresh(b)
    BY <1>1, <2>1, FreshUnchanged
  <2>3. store'.pc = "opened" => store'.ok = FALSE
    BY <1>1, <1>2 DEF StoreOpen, StoreOpenFail, StoreRearm, Idle, FreshInv
  <2>4. UNCHANGED <<mc_ready, boot, boot_i, mc_block_state>>
    BY <1>1, <2>1 DEF bootVars, ramVars
  <2> QED
    BY <2>1, <2>2, <2>3, <2>4 DEF FreshInv
<1>3. CASE StoreWrite
  <2>1. \A b \in Block : Fresh(b) \/ (store'.ok /\ store.block = b) => Fresh(b)'
    <3>1. CASE /\ file' = [file EXCEPT ![store.block] = mc_buffer[store.block]]
               /\ raced' = raced \ {store.block}
      BY <1>1, <1>3, <3>1 DEF StoreWrite, Fresh, Copying, ramVars
    <3>2. CASE UNCHANGED <<file, raced>> /\ store' = [store EXCEPT !.pc = "written"]
      <4>1. store.ok = FALSE
        BY <1>3 DEF StoreWrite, FreshInv
      <4> QED  BY <1>1, <1>3, <3>2, <4>1 DEF StoreWrite, Fresh, Copying, ramVars
    <3> QED  BY <1>3, <3>1, <3>2 DEF StoreWrite
  <2>2. store'.pc = "written" /\ store'.block = store.block
    BY <1>1, <1>3 DEF StoreWrite
  <2>3. UNCHANGED <<mc_ready, boot, boot_i, mc_block_state>>
    BY <1>1, <1>3 DEF StoreWrite, bootVars, ramVars
  <2> QED
    BY <2>1, <2>2, <2>3 DEF FreshInv
<1>4. CASE StoreClear
  <2>1. /\ UNCHANGED <<mc_buffer, file, raced>> /\ store'.pc = "cleared"
        /\ \A b \in Block : b \in mc_block_state =>
              b \in mc_block_state' \/ (store.ok /\ b = store.block)
    BY <1>1, <1>4 DEF StoreClear
  <2>2. \A b \in Block : Fresh(b)' <=> Fresh(b)
    BY <1>1, <2>1 DEF Fresh, Copying
  <2> QED
    BY <1>1, <1>4, <2>1, <2>2 DEF StoreClear, FreshInv, bootVars
<1> QED
  BY <1>2, <1>3, <1>4 DEF Store

(* Whatever the interleaving of the writers, the timer and mc_init, a file *)
(* that lags behind the card does so in a block that is dirty, about to be *)
(* marked, or that lost the one race of the design.                        *)
THEOREM CardConsistent == Spec => []StaleHasCause
<1>1. Init => FreshInv
  BY DEF Init, FreshInv, Idle, Block
<1>2. TypeInv /\ FreshInv /\ [Next]_vars => FreshInv'
  <2> SUFFICES ASSUME TypeInv, FreshInv, [Next]_vars PROVE FreshInv'
    OBVIOUS
  <2>1. CASE RumbleFeedback \/ Mute \/ Unmute \/ Fb \/ UNCHANGED vars
    <3>1. UNCHANGED <<ramVars, file, raced, writer, bootVars, store>>
      BY <2>1 DEF RumbleFeedback, Mute, Unmute, Fb, FbTaskMem, FbTaskOther, vars
    <3>2. \A b \in Block : Fresh(b)' <=> Fresh(b)
      BY <3>1, FreshUnchanged
    <3> QED  BY <3>1, <3>2 DEF FreshInv, ramVars, bootVars
  <2> QED
    BY <2>1, FreshBoot, FreshWrite, FreshStore DEF Next
<1>3. FreshInv => StaleHasCause
  BY DEF FreshInv, StaleHasCause, Fresh
<1> QED
  BY <1>1, <1>2, <1>3, CardTypeInvariant, PTL DEF Spec
-----------------------------------------------------------------------------
(* A leaked file costs a write *)

InFlight == {w \in Writers : writer[w].pc # "idle"}

(* A start of the timer that may end in a leak: one made by a notice, seen *)
(* from the state alone.  The callback's own restart happens when a block  *)
(* is dirty, and it stays dirty until the timer expires.                   *)
Chance == IF armed /\ (store.pc # "idle" \/ mc_block_state = {}) THEN 1 ELSE 0

Ready == /\ mc_ready => boot = "done"
         /\ ~mc_ready => mc_block_state = {} /\ InFlight = {}

(* Every write is in flight, or its notice is queued, or has started the   *)
(* timer, or has leaked a file, or is spent: these exclude each other.     *)
LeakInv == /\ Ready
           /\ Leaked + q_mem + Cardinality(InFlight) + Chance < writes

(* The writes in flight can be counted. *)
LEMMA InFlightFinite == IsFiniteSet(InFlight) /\ Cardinality(InFlight) \in Nat
BY MemoryCardAssumption, FS_Subset, FS_CardinalityType DEF InFlight

(* The sum bounded by LeakInv stays bounded when its moving part does not  *)
(* grow: l leaked files, q notices, n writes in flight, c chances, w writes. *)
LEMMA LeakOrChance ==
  ASSUME NEW l \in Int, NEW q \in Int, NEW n \in Int, NEW c \in Int, NEW w \in Int,
         NEW l1 \in Int, NEW c1 \in Int,
         l + q + n + c < w, l1 + c1 <= l + c
  PROVE  l1 + q + n + c1 < w
OBVIOUS

(* The same when a notice becomes a start of the timer. *)
LEMMA NoticeOrChance ==
  ASSUME NEW l \in Int, NEW q \in Int, NEW n \in Int, NEW c \in Int, NEW w \in Int,
         NEW q1 \in Int, NEW c1 \in Int,
         l + q + n + c < w, q1 + c1 <= q + c
  PROVE  l + q1 + n + c1 < w
OBVIOUS

(* mc_write takes a place of its own, and hands it to its notice. *)
LEMMA LeakWrite ==
  ASSUME TypeInv, LeakInv, ~Ungated, NEW w \in Writers,
         (\E b \in Block : WriteCopy(w, b)) \/ WriteMark(w) \/ WriteNotice(w)
  PROVE  LeakInv'
<1>1. /\ UNCHANGED <<bootVars, armed, store, open_files>>
      /\ writer \in [Writers -> [pc : {"idle", "copied", "marked"}, block : Block \cup {0}]]
      /\ q_mem \in Nat /\ writes \in Nat /\ open_files \in Nat
  BY MemoryCardAssumption DEF WriteCopy, WriteMark, WriteNotice, TypeInv, TypeOK
<1>2. IsFiniteSet(InFlight) /\ Cardinality(InFlight) \in Nat
  BY InFlightFinite
<1>3. Leaked' = Leaked /\ Leaked \in Int
  BY <1>1 DEF Leaked
<1>4. CASE \E b \in Block : WriteCopy(w, b)
  <2>1. /\ InFlight' = InFlight \cup {w} /\ w \notin InFlight
        /\ writes' = writes + 1 /\ mc_ready
        /\ UNCHANGED <<q_mem, mc_block_state>>
    BY <1>1, <1>4 DEF WriteCopy, InFlight, queueVars, MayWrite
  <2>2. Cardinality(InFlight') = Cardinality(InFlight) + 1
    BY <1>2, <2>1, FS_AddElement
  <2>3. Chance' = Chance /\ Chance \in Nat
    BY <1>1, <2>1 DEF Chance
  <2> QED
    BY <1>1, <1>2, <1>3, <2>1, <2>2, <2>3 DEF LeakInv, Ready, bootVars
<1>5. CASE WriteMark(w)
  <2>1. /\ InFlight' = InFlight /\ w \in InFlight
        /\ UNCHANGED <<q_mem, writes>>
    BY <1>1, <1>5 DEF WriteMark, InFlight, queueVars
  <2>2. Chance' <= Chance /\ Chance \in Nat /\ Chance' \in Nat
    BY <1>1, <1>5 DEF WriteMark, Chance
  <2> QED
    BY <1>1, <1>2, <1>3, <2>1, <2>2 DEF LeakInv, Ready, bootVars
<1>6. CASE WriteNotice(w)
  <2>1. /\ InFlight' = InFlight \ {w} /\ w \in InFlight
        /\ UNCHANGED <<writes, mc_block_state>>
        /\ q_mem' = q_mem \/ q_mem' = q_mem + 1
    BY <1>1, <1>6 DEF WriteNotice, QueueMem, InFlight, ramVars
  <2>2. Cardinality(InFlight') = Cardinality(InFlight) - 1
    BY <1>2, <2>1, FS_RemoveElement
  <2>3. Chance' = Chance /\ Chance \in Nat
    BY <1>1, <2>1 DEF Chance
  <2> QED
    BY <1>1, <1>2, <1>3, <2>1, <2>2, <2>3 DEF LeakInv, Ready, bootVars
<1> QED
  BY <1>4, <1>5, <1>6

(* Only a start made by a notice can leak, and it does so once. *)
LEMMA LeakStore ==
  ASSUME TypeInv, LeakInv, Store
  PROVE  LeakInv'
<1>1. /\ UNCHANGED <<bootVars, q_mem, writer, writes>>
      /\ q_mem \in Nat /\ writes \in Nat /\ open_files \in Nat
      /\ store \in [pc : {"idle", "opened", "written", "cleared"}, block : Block \cup {0},
                   ok : BOOLEAN]
  BY MemoryCardAssumption
  DEF Store, StoreOpen, StoreOpenFail, StoreWrite, StoreClear, StoreRearm, queueVars, TypeInv, TypeOK
<1>2. Cardinality(InFlight) \in Nat /\ InFlight' = InFlight
  BY <1>1, InFlightFinite DEF InFlight
<1>3. Leaked' + Chance' <= Leaked + Chance /\ Leaked \in Int /\ Leaked' \in Int
      /\ Chance \in Nat /\ Chance' \in Nat
  <2>1. CASE StoreOpenFail
    BY <1>1, <2>1 DEF StoreOpenFail, Expire, Leaked, Chance
  <2>2. CASE StoreOpen
    BY <1>1, <2>2 DEF StoreOpen, Expire, Leaked, Chance, ramVars
  <2>3. CASE StoreWrite
    BY <1>1, <2>3 DEF StoreWrite, Leaked, Chance, ramVars
  <2>4. CASE StoreClear
    BY <1>1, <2>4 DEF StoreClear, Leaked, Chance
  <2>5. CASE StoreRearm
    BY <1>1, <2>5 DEF StoreRearm, StartTimer, Idle, Leaked, Chance, ramVars
  <2> QED
    BY <2>1, <2>2, <2>3, <2>4, <2>5 DEF Store
<1>4. mc_block_state' \subseteq mc_block_state
  BY DEF Store, StoreOpen, StoreOpenFail, StoreWrite, StoreClear, StoreRearm, ramVars
<1>5. Ready'
  BY <1>1, <1>2, <1>4 DEF LeakInv, Ready, bootVars
<1>6. Cardinality(InFlight') = Cardinality(InFlight) /\ q_mem' = q_mem /\ writes' = writes
  BY <1>1, <1>2
<1>7. Leaked + q_mem + Cardinality(InFlight) + Chance < writes
  BY DEF LeakInv
<1>8. Leaked' + q_mem' + Cardinality(InFlight') + Chance' < writes'
  <2>1. /\ q_mem \in Int /\ writes \in Int /\ Cardinality(InFlight) \in Int
        /\ Chance \in Int /\ Chance' \in Int
    BY <1>1, <1>2, <1>3
  <2>2. Leaked' + q_mem + Cardinality(InFlight) + Chance' < writes
    BY <2>1, <1>3, <1>7, LeakOrChance, Zenon
  <2> QED  BY <2>2, <1>6
<1> QED
  BY <1>5, <1>8, Zenon DEF LeakInv

(* When every writer waits for mc_init, the files left open never outnumber *)
(* the calls of mc_write.                                                  *)
THEOREM LeaksBounded == Spec => []LeakBound
<1> DEFINE I == ~Ungated => LeakInv
<1>1. Init => I
  <2> SUFFICES ASSUME Init PROVE LeakInv
    OBVIOUS
  <2>1. InFlight = {} /\ Cardinality(InFlight) = 0
    BY FS_EmptySet DEF Init, InFlight
  <2>2. Chance = 0
    BY DEF Init, Chance
  <2>3. Leaked = 0
    <3>1. open_files = 0 /\ (IF store.pc = "opened" THEN 1 ELSE 0) = 0
      BY DEF Init, Idle
    <3>2. 0 - 0 = 0
      OBVIOUS
    <3> QED  BY <3>1, <3>2, Zenon DEF Leaked
  <2>4. Ready
    BY <2>1 DEF Init, Ready
  <2>5. Leaked + q_mem + Cardinality(InFlight) + Chance < writes
    BY <2>1, <2>2, <2>3 DEF Init
  <2> QED
    BY <2>4, <2>5, Zenon DEF LeakInv
<1>2. TypeInv /\ I /\ [Next]_vars => I'
  <2> SUFFICES ASSUME TypeInv, LeakInv, ~Ungated, [Next]_vars PROVE LeakInv'
    OBVIOUS
  <2>1. /\ q_mem \in Nat /\ writes \in Nat /\ open_files \in Nat
        /\ Cardinality(InFlight) \in Nat /\ Chance \in Nat /\ Leaked \in Int
    BY MemoryCardAssumption, InFlightFinite DEF TypeInv, TypeOK, Chance, Leaked
  <2>2. CASE Boot \/ BootFail
    <3>1. UNCHANGED <<queueVars, armed, store, writer, open_files, writes>>
      BY <2>2 DEF Boot, BootFail, BootCreateTimer, BootRestore, BootStore, BootEnd
    <3>2. mc_block_state' = mc_block_state /\ (mc_ready' => boot' = "done")
          /\ (mc_ready => mc_ready')
      BY <2>2
      DEF Boot, BootFail, BootCreateTimer, BootRestore, BootStore, BootEnd, LeakInv, Ready, ramVars
    <3>3. InFlight' = InFlight /\ Chance' = Chance /\ Leaked' = Leaked
      BY <3>1, <3>2 DEF InFlight, Chance, Leaked
    <3> QED
      BY <3>1, <3>2, <3>3 DEF LeakInv, Ready, queueVars
  <2>3. CASE RumbleFeedback \/ Mute \/ Unmute \/ Fb \/ UNCHANGED vars
    <3>1. UNCHANGED <<ramVars, bootVars, store, writer, open_files, writes>>
      BY <2>3 DEF RumbleFeedback, Mute, Unmute, Fb, FbTaskMem, FbTaskOther, vars
    <3>2. \/ q_mem' = q_mem /\ armed' = armed
          \/ q_mem' = q_mem - 1 /\ q_mem > 0
      BY <2>3 DEF RumbleFeedback, Mute, Unmute, Fb, FbTaskMem, FbTaskOther, vars, queueVars
    <3>3. InFlight' = InFlight /\ Leaked' = Leaked
      BY <3>1 DEF InFlight, Leaked
    <3>4. q_mem' + Chance' <= q_mem + Chance /\ Chance' \in Nat /\ q_mem' \in Int
      BY <2>1, <3>1, <3>2 DEF Chance, ramVars
    <3>5. Ready'
      BY <3>1, <3>3 DEF LeakInv, Ready, ramVars, bootVars
    <3>6. Cardinality(InFlight') = Cardinality(InFlight) /\ writes' = writes
      BY <3>1, <3>3
    <3>7. Leaked + q_mem + Cardinality(InFlight) + Chance < writes
      BY DEF LeakInv
    <3>8. Leaked' + q_mem' + Cardinality(InFlight') + Chance' < writes'
      <4>1. /\ q_mem \in Int /\ writes \in Int /\ Cardinality(InFlight) \in Int
            /\ Chance \in Int /\ Chance' \in Int
        BY <2>1, <3>4
      <4>2. Leaked + q_mem' + Cardinality(InFlight) + Chance' < writes
        BY <2>1, <3>4, <3>7, <4>1, NoticeOrChance, Zenon
      <4> QED  BY <4>2, <3>3, <3>6
    <3> QED
      BY <3>5, <3>8, Zenon DEF LeakInv
  <2> QED
    BY <2>2, <2>3, LeakWrite, LeakStore DEF Next
<1>3. TypeInv /\ I => LeakBound
  <2> SUFFICES ASSUME TypeInv, LeakInv, ~Ungated PROVE Leaked < writes
    BY DEF LeakBound
  <2>1. /\ q_mem \in Nat /\ writes \in Nat /\ open_files \in Nat
        /\ Cardinality(InFlight) \in Nat /\ Chance \in Nat /\ Leaked \in Int
    BY MemoryCardAssumption, InFlightFinite DEF TypeInv, TypeOK, Chance, Leaked
  <2> QED  BY <2>1 DEF LeakInv
<1> QED
  BY <1>1, <1>2, <1>3, CardTypeInvariant, PTL DEF Spec
=============================================================================
