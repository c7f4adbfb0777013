------------------------------ MODULE DevLinks ------------------------------
(***************************************************************************)
(* The Bluetooth device slots (bt_dev[], bt_dev_conf) and the life of the  *)
(* links they stand for: how the HCI event handlers of bluetooth/hci.c     *)
(* allocate a slot, page or accept a peer, retry, give up and free it, and *)
(* how inquiry, LE scanning and LE advertising follow.                     *)
(*                                                                         *)
(* Host side: every HCI event is handled to the end by the controller's    *)
(* callback (the highest priority task of core 0), so one handler is one   *)
(* action.  The button handling of sys_mgr_task runs at a low priority and *)
(* is preempted by events: it takes one step per device, two per command.  *)
(* Controller side: a command is taken when it is queued, what it asks for *)
(* completes any time later, and events reach the host in order (evtq).    *)
(* The build modelled is one without CONFIG_BLUERETRO_HW2, where           *)
(* inquiry_override stays 0.                                               *)
(***************************************************************************)
EXTENDS Naturals, Sequences

CONSTANTS
  ClassicPeers,  \* BR/EDR controllers (game pads) in range
  LePeers,       \* LE controllers in range
  Clients,       \* phones or PCs that connect to the LE config interface
  NDev,          \* BT_MAX_DEV, the number of slots
  MaxRetry,      \* BT_MAX_RETRY
  InquiryMax,    \* BT_INQUIRY_MAX
  Handles,       \* connection handles the controller hands out
  NoAddr,        \* no address
  InqAuto,       \* config.global_cfg.inquiry_mode = INQ_AUTO
  Button,        \* bound: whether the boot button is used
  MaxEvt         \* bound: events in flight from the controller to the host

Peers == ClassicPeers \cup LePeers
Addrs == Peers \cup Clients
Dev   == 1..NDev

(* A slot is memset to 0 when free, so 0 stands for "no handle yet": the   *)
(* handles of the model start at 1.                                        *)
ASSUME DevLinksAssumption ==
  /\ NDev \in Nat \ {0}
  /\ MaxRetry \in Nat \ {0}
  /\ InquiryMax \in Nat
  /\ Handles \subseteq Nat \ {0}
  /\ NoAddr \notin Addrs
  /\ ClassicPeers \cap LePeers = {}
  /\ Peers \cap Clients = {}
  /\ InqAuto \in BOOLEAN /\ Button \in BOOLEAN
  /\ MaxEvt \in Nat \ {0}

VARIABLES
  bt_dev,         \* the slots
  bt_dev_conf,    \* the slot of the config interface
  inquiry_state,  \* hci.c inquiry_state
  bt_nb_inquiry,  \* hci.c bt_nb_inquiry, capped at InquiryMax + 1
  kick,           \* next slot bt_host_disconnect_all looks at, 0 when idle
  button,         \* half done: bt_hci_"stop"_inquiry or bt_hci_"start"_inquiry
  inquiring,      \* controller: periodic inquiry is on
  scan,           \* controller: LE scan "off", "active" or "passive"
  adv,            \* controller: connectable advertising is on
  handle,         \* controller: handle of the link with a, 0 when down
  paging,         \* controller: create connection pending for a
  offered,        \* controller: a waits for its connection to be accepted
  accepted,       \* controller: the host accepted the request of a
  naming,         \* controller: remote name request pending for a
  closing,        \* disconnect commands under way, by handle
  evtq,           \* events under way to the host
  refused,        \* history: the last create connection for a was refused
  abandoned,      \* history: the slot of a was freed with a link up or on its way
  userStop        \* history: the user turned inquiry off

hostVars == <<bt_dev, bt_dev_conf>>
inqVars  == <<inquiry_state, bt_nb_inquiry, inquiring, scan, userStop>>
btnVars  == <<kick, button>>
linkVars == <<handle, paging, offered, accepted, naming, closing>>
vars == <<hostVars, inqVars, btnVars, linkVars, adv, evtq, refused, abandoned>>
-----------------------------------------------------------------------------
(* Slots *)

FreeDev == [found |-> FALSE, page |-> FALSE, ble |-> FALSE,
            bdaddr |-> NoAddr, acl_handle |-> 0, pkt_retry |-> 0]

NewDev(a, pg) == [found |-> TRUE, page |-> pg, ble |-> FALSE,
                  bdaddr |-> a, acl_handle |-> 0, pkt_retry |-> 0]

HasAddr(i, a)   == bt_dev[i].found /\ bt_dev[i].bdaddr = a
HasHandle(i, h) == bt_dev[i].found /\ bt_dev[i].acl_handle = h

(* The loops of host.c return the first slot that matches. *)
DevFromAddr(i, a)   == HasAddr(i, a) /\ \A j \in Dev : j < i => ~HasAddr(j, a)
DevFromHandle(i, h) == HasHandle(i, h) /\ \A j \in Dev : j < i => ~HasHandle(j, h)
GetIdleDev(i) ==  \* mutant: takes slots being connected
  bt_dev[i].acl_handle = 0 /\ \A j \in Dev : j < i => bt_dev[j].acl_handle # 0
GetNewDev(i) == ~bt_dev[i].found /\ \A j \in Dev : j < i => bt_dev[j].found

NoLinkFromAddr(a) ==  \* mutant: overlooks slots being connected
  \A i \in Dev : HasAddr(i, a) => bt_dev[i].acl_handle = 0

NoDevFromAddr(a)   == \A i \in Dev : ~HasAddr(i, a)
NoDevFromHandle(h) == \A i \in Dev : ~HasHandle(i, h)

NoActiveBefore(d)   == \A i \in Dev : ~bt_dev[i].found            \* mutant: asks before the reset
NoActiveButLast(d)  == \A i \in Dev : i < NDev => ~d[i].found     \* mutant: loop ends one slot early
NoActive(d)         == \A i \in Dev : ~d[i].found

ResetDevKeepsFlags(i) == [bt_dev EXCEPT ![i].page = FALSE, ![i].pkt_retry = 0]  \* mutant: FOUND survives

ResetDev(i) == [bt_dev EXCEPT ![i] = FreeDev]
-----------------------------------------------------------------------------
(* Inquiry, and commands that start a controller procedure *)

StartInquiry ==
  /\ inquiry_state' = TRUE
  /\ bt_nb_inquiry' = 0
  /\ scan' = "active"
  /\ inquiring' = TRUE
  /\ userStop' = FALSE

StopInquiry ==
  /\ inquiring' = FALSE
  /\ scan' = "passive"
  /\ inquiry_state' = FALSE
  /\ UNCHANGED <<bt_nb_inquiry, userStop>>

(* The controller refuses to page a peer that is connected or being paged, *)
(* and a second LE create connection while one is pending; the refusal is  *)
(* a command status event, which the host only prints.                     *)
Refuses(a) == \/ handle[a] # 0
              \/ a \in paging
              \/ a \in LePeers /\ paging \cap LePeers # {}

CreateConn(a) ==
  IF Refuses(a)
    THEN refused' = refused \cup {a} /\ UNCHANGED paging
    ELSE refused' = refused \ {a} /\ paging' = paging \cup {a}

Event(ev, a, h, err) == [ev |-> ev, a |-> a, h |-> h, err |-> err]

Emit(e) == Len(evtq) < MaxEvt /\ evtq' = Append(evtq, e)

Receive(ev) == evtq # <<>> /\ Head(evtq).ev = ev /\ evtq' = Tail(evtq)
-----------------------------------------------------------------------------
(* The host is up: the configuration chain has ended with                  *)
(* bt_hci_start_inquiry_cfg_check, advertising is on, nothing is connected. *)
Init ==
  /\ bt_dev = [i \in Dev |-> FreeDev]
  /\ bt_dev_conf = [found |-> FALSE, acl_handle |-> 0]
  /\ inquiry_state = InqAuto
  /\ bt_nb_inquiry = 0
  /\ kick = 0
  /\ button = "idle"
  /\ inquiring = InqAuto
  /\ scan = IF InqAuto THEN "active" ELSE "passive"
  /\ adv = TRUE
  /\ handle = [a \in Addrs |-> 0]
  /\ paging = {} /\ offered = {} /\ accepted = {} /\ naming = {}
  /\ closing = {}
  /\ evtq = <<>>
  /\ refused = {} /\ abandoned = {}
  /\ userStop = FALSE
-----------------------------------------------------------------------------
(* HCI event handlers *)

InquiryComplete ==
  /\ Receive("inquiry_complete")
  /\ LET nb == IF bt_nb_inquiry > InquiryMax THEN bt_nb_inquiry ELSE bt_nb_inquiry + 1
     IN  /\ bt_nb_inquiry' = nb
         /\ IF ~NoActive(bt_dev) /\ nb > InquiryMax
              THEN /\ inquiring' = FALSE
                   /\ scan' = "passive"
                   /\ inquiry_state' = FALSE
              ELSE UNCHANGED <<inquiring, scan, inquiry_state>>
  /\ UNCHANGED <<hostVars, userStop, btnVars, linkVars, adv, refused, abandoned>>

InquiryResult(a) ==
  /\ Receive("inquiry_result") /\ Head(evtq).a = a
  /\ \/ /\ NoDevFromAddr(a)
        /\ \E i \in Dev : GetNewDev(i)
                          /\ bt_dev' = [bt_dev EXCEPT ![i] = NewDev(a, FALSE)]
        /\ CreateConn(a)
     \/ /\ ~NoDevFromAddr(a) \/ \A i \in Dev : bt_dev[i].found
        /\ UNCHANGED <<bt_dev, paging, refused>>
  /\ UNCHANGED <<bt_dev_conf, inqVars, btnVars, handle, offered, accepted,
                 naming, closing, adv, abandoned>>

ConnRequest(a) ==
  /\ Receive("conn_request") /\ Head(evtq).a = a
  /\ \/ /\ NoDevFromAddr(a)
        /\ \E i \in Dev : GetNewDev(i)
                          /\ bt_dev' = [bt_dev EXCEPT ![i] = NewDev(a, TRUE)]
        /\ accepted' = accepted \cup ({a} \cap offered)
     \/ /\ ~NoDevFromAddr(a) \/ \A i \in Dev : bt_dev[i].found
        /\ UNCHANGED <<bt_dev, accepted>>
  /\ UNCHANGED <<bt_dev_conf, inqVars, btnVars, handle, paging, offered,
                 naming, closing, adv, refused, abandoned>>

(* A link with a is being made, or its event has not been handled yet.     *)
OnItsWay(a) ==
  \/ a \in paging \cup accepted
  \/ \E n \in 1..Len(evtq') : /\ evtq'[n].ev \in {"conn_complete", "le_conn_complete"}
                              /\ evtq'[n].a = a /\ ~evtq'[n].err

(* A failed attempt is retried up to MaxRetry times when the host made it; *)
(* otherwise the slot is freed, and an idle adapter looks for devices.     *)
GiveUpKeepsSlot(i, a) ==  \* mutant: gives up but keeps the slot
  /\ bt_dev' = [bt_dev EXCEPT ![i].pkt_retry = 0]
  /\ UNCHANGED <<paging, refused, naming, abandoned>>

GiveUp(i, a) ==
  /\ bt_dev' = ResetDev(i)
  /\ abandoned' = abandoned \cup {b \in {a} : handle[b] # 0 \/ OnItsWay(b)}
  /\ UNCHANGED <<paging, refused, naming>>

ConnRetryNoPage(i, a) ==  \* mutant: counts the retry but does not page again
  /\ bt_dev' = [bt_dev EXCEPT ![i].pkt_retry = @ + 1]
  /\ UNCHANGED <<paging, refused, abandoned, naming>>

ConnRetry(i, a) ==
  /\ bt_dev' = [bt_dev EXCEPT ![i].pkt_retry = @ + 1]
  /\ CreateConn(a)
  /\ UNCHANGED <<abandoned, naming>>

MayRetry(i) == bt_dev[i].pkt_retry + 1 < MaxRetry

ConnFailed(a) ==
  /\ Receive("conn_complete") /\ Head(evtq).a = a /\ Head(evtq).err
  /\ \/ NoDevFromAddr(a) /\ UNCHANGED <<bt_dev, paging, refused, abandoned, naming, inqVars>>
     \/ \E i \in Dev :
          /\ DevFromAddr(i, a)
          /\ \/ /\ ~bt_dev[i].page /\ MayRetry(i)
                /\ ConnRetry(i, a)
                /\ UNCHANGED inqVars
             \/ /\ bt_dev[i].page \/ ~MayRetry(i)
                /\ GiveUp(i, a)
                /\ IF InqAuto /\ NoActive(ResetDev(i)) THEN StartInquiry ELSE UNCHANGED inqVars
  /\ UNCHANGED <<bt_dev_conf, btnVars, handle, offered, accepted, closing, adv>>

ConnDone(a) ==
  /\ Receive("conn_complete") /\ Head(evtq).a = a /\ ~Head(evtq).err
  /\ \/ NoDevFromAddr(a) /\ UNCHANGED <<bt_dev, bt_nb_inquiry, adv, naming, abandoned>>
     \/ \E i \in Dev :
          /\ DevFromAddr(i, a)
          /\ bt_dev' = [bt_dev EXCEPT ![i].acl_handle = Head(evtq).h, ![i].pkt_retry = 0]
          /\ bt_nb_inquiry' = InquiryMax
          /\ adv' = FALSE
          /\ naming' = naming \cup {a}
          /\ abandoned' = abandoned \ {a}
  /\ UNCHANGED <<bt_dev_conf, inquiry_state, inquiring, scan, userStop, btnVars,
                 handle, paging, offered, accepted, closing, refused>>

NameFailed(a) ==
  /\ Receive("remote_name") /\ Head(evtq).a = a /\ Head(evtq).err
  /\ \/ NoDevFromAddr(a) /\ UNCHANGED <<bt_dev, paging, refused, abandoned, naming, inqVars>>
     \/ \E i \in Dev :
          /\ DevFromAddr(i, a)
          /\ \/ /\ MayRetry(i)
                /\ bt_dev' = [bt_dev EXCEPT ![i].pkt_retry = @ + 1]
                /\ naming' = naming \cup {a}
                /\ UNCHANGED <<paging, refused, abandoned, inqVars>>
             \/ /\ ~MayRetry(i)
                /\ GiveUp(i, a)
                /\ IF InqAuto /\ NoActive(ResetDev(i)) THEN StartInquiry ELSE UNCHANGED inqVars
  /\ UNCHANGED <<bt_dev_conf, btnVars, handle, offered, accepted, closing, adv>>

NameDone(a) ==
  /\ Receive("remote_name") /\ Head(evtq).a = a /\ ~Head(evtq).err
  /\ IF NoDevFromAddr(a) THEN UNCHANGED inqVars ELSE StopInquiry
  /\ UNCHANGED <<hostVars, btnVars, linkVars, adv, refused, abandoned>>

Disconn(h) ==
  /\ Receive("disconn_complete") /\ Head(evtq).h = h
  /\ \/ \E i \in Dev :
          /\ DevFromHandle(i, h)
          /\ bt_dev' = ResetDev(i)
          /\ abandoned' = abandoned \cup {a \in Peers : HasAddr(i, a) /\ OnItsWay(a)}
          /\ IF NoActive(ResetDev(i))
               THEN /\ adv' = TRUE
                    /\ IF InqAuto THEN StartInquiry ELSE UNCHANGED inqVars
               ELSE UNCHANGED <<adv, inqVars>>
     \/ /\ NoDevFromHandle(h)
        /\ IF bt_dev_conf.acl_handle = h /\ bt_dev_conf.found /\ NoActive(bt_dev)
             THEN adv' = TRUE
             ELSE UNCHANGED adv
        \* bt_host_reset_dev looks bt_dev_conf up in bt_dev[] and leaves it alone
        /\ UNCHANGED <<bt_dev, inqVars, abandoned>>
  /\ UNCHANGED <<bt_dev_conf, btnVars, linkVars, refused>>
-----------------------------------------------------------------------------
(* LE meta events *)

AdvReport(a) ==
  /\ Receive("adv_report") /\ Head(evtq).a = a
  /\ \/ /\ NoDevFromAddr(a)
        /\ \E i \in Dev : GetNewDev(i)
                          /\ bt_dev' = [bt_dev EXCEPT ![i] = NewDev(a, FALSE)]
        /\ scan' = "off"
        /\ adv' = FALSE
        /\ CreateConn(a)
     \/ /\ ~NoDevFromAddr(a) \/ \A i \in Dev : bt_dev[i].found
        /\ UNCHANGED <<bt_dev, scan, adv, paging, refused>>
  /\ UNCHANGED <<bt_dev_conf, inquiry_state, bt_nb_inquiry, inquiring, userStop,
                 btnVars, handle, offered, accepted, naming, closing, abandoned>>

LeConnFailed(a) ==
  /\ Receive("le_conn_complete") /\ Head(evtq).a = a /\ Head(evtq).err
  /\ \/ NoDevFromAddr(a) /\ UNCHANGED <<bt_dev, paging, refused, abandoned, naming, inqVars>>
     \/ \E i \in Dev :
          /\ DevFromAddr(i, a)
          /\ \/ /\ ~bt_dev[i].page /\ MayRetry(i)
                /\ ConnRetry(i, a)
                /\ UNCHANGED inqVars
             \/ /\ bt_dev[i].page \/ ~MayRetry(i)
                /\ GiveUp(i, a)
                /\ IF InqAuto /\ NoActive(ResetDev(i))
                     THEN StartInquiry
                     ELSE /\ scan' = "passive"
                          /\ UNCHANGED <<inquiry_state, bt_nb_inquiry, inquiring, userStop>>
  /\ UNCHANGED <<bt_dev_conf, btnVars, handle, offered, accepted, closing, adv>>

LeConnDone(a) ==
  /\ Receive("le_conn_complete") /\ Head(evtq).a = a /\ ~Head(evtq).err
  /\ \/ \E i \in Dev :
          /\ DevFromAddr(i, a)
          /\ bt_dev' = [bt_dev EXCEPT ![i].acl_handle = Head(evtq).h,
                                      ![i].pkt_retry = 0, ![i].ble = TRUE]
          /\ bt_nb_inquiry' = InquiryMax
          /\ scan' = "active"
          /\ abandoned' = abandoned \ {a}
          /\ UNCHANGED bt_dev_conf
     \/ /\ NoDevFromAddr(a)
        /\ bt_dev_conf' = IF bt_dev_conf.found THEN bt_dev_conf
                            ELSE [found |-> TRUE, acl_handle |-> Head(evtq).h]
        /\ UNCHANGED <<bt_dev, bt_nb_inquiry, scan, abandoned>>
  /\ UNCHANGED <<inquiry_state, inquiring, userStop, btnVars, linkVars, adv,
                 refused>>

(* A BLE link that fails to encrypt is dropped (and its key forgotten, see *)
(* the key store); success goes on to ATT discovery.                       *)
EncryptChange(h) ==
  /\ Receive("encrypt_change") /\ Head(evtq).h = h
  /\ closing' = closing \cup {h2 \in {h} : /\ Head(evtq).err
                                           /\ \E i \in Dev : DevFromHandle(i, h) /\ bt_dev[i].ble}
  /\ UNCHANGED <<hostVars, inqVars, btnVars, handle, paging, offered, accepted, naming,
                 adv, refused, abandoned>>
-----------------------------------------------------------------------------
(* sys_mgr_task: the boot button *)

(* A short hold stops inquiry when it runs and otherwise disconnects every *)
(* device, a long one starts inquiry; an event can preempt either command  *)
(* between what it asks of the controller and its own record of it.        *)
ButtonFree == Button /\ kick = 0 /\ button = "idle"

BtnStopInquiry ==
  /\ ButtonFree /\ inquiry_state
  /\ inquiring' = FALSE
  /\ button' = "stop"
  /\ userStop' = TRUE
  /\ UNCHANGED <<hostVars, inquiry_state, bt_nb_inquiry, scan, kick, linkVars,
                 adv, evtq, refused, abandoned>>

BtnStopInquiryEnd ==
  /\ button = "stop"
  /\ scan' = "passive"
  /\ inquiry_state' = FALSE
  /\ button' = "idle"
  /\ UNCHANGED <<hostVars, bt_nb_inquiry, inquiring, userStop, kick, linkVars,
                 adv, evtq, refused, abandoned>>

BtnStartInquiry ==
  /\ ButtonFree
  /\ inquiry_state' = TRUE
  /\ bt_nb_inquiry' = 0
  /\ button' = "start"
  /\ UNCHANGED <<hostVars, inquiring, scan, userStop, kick, linkVars,
                 adv, evtq, refused, abandoned>>

BtnStartInquiryEnd ==
  /\ button = "start"
  /\ scan' = "active"
  /\ inquiring' = TRUE
  /\ userStop' = FALSE
  /\ button' = "idle"
  /\ UNCHANGED <<hostVars, inquiry_state, bt_nb_inquiry, kick, linkVars,
                 adv, evtq, refused, abandoned>>

BtnDisconnectAll ==
  /\ ButtonFree /\ ~inquiry_state
  /\ kick' = 1
  /\ UNCHANGED <<hostVars, inqVars, button, linkVars, adv, evtq, refused, abandoned>>

NextKick(k) == IF k = NDev THEN 0 ELSE k + 1

DisconnectNext ==
  /\ kick # 0
  /\ kick' = NextKick(kick)
  /\ closing' = IF bt_dev[kick].found
                  THEN closing \cup ({bt_dev[kick].acl_handle} \cap Handles)
                  ELSE closing
  /\ UNCHANGED <<hostVars, inqVars, button, handle, paging, offered, accepted,
                 naming, adv, evtq, refused, abandoned>>
-----------------------------------------------------------------------------
(* The controller and the peers *)

ctlRest == <<hostVars, inqVars, btnVars, refused>>

FreeHandles == Handles \ {handle[a] : a \in Addrs}

CtlInquiryComplete ==
  /\ inquiring
  /\ Emit(Event("inquiry_complete", NoAddr, 0, FALSE))
  /\ UNCHANGED <<ctlRest, linkVars, adv, abandoned>>

CtlInquiryResult(a) ==
  /\ inquiring /\ handle[a] = 0
  /\ Emit(Event("inquiry_result", a, 0, FALSE))
  /\ UNCHANGED <<ctlRest, linkVars, adv, abandoned>>

CtlConnRequest(a) ==
  /\ handle[a] = 0 /\ a \notin offered
  /\ offered' = offered \cup {a}
  /\ Emit(Event("conn_request", a, 0, FALSE))
  /\ UNCHANGED <<ctlRest, handle, paging, accepted, naming, closing, adv, abandoned>>

(* The page, or the accepted request, of a BR/EDR peer ends with a link.   *)
(* There is one baseband link per peer: whatever else was pending to bring *)
(* up the link with the same peer ends with it.                            *)
CtlConnected(a, h) ==
  /\ a \in paging \cup accepted /\ handle[a] = 0
  /\ handle' = [handle EXCEPT ![a] = h]
  /\ paging' = paging \ {a} /\ offered' = offered \ {a} /\ accepted' = accepted \ {a}
  /\ Emit(Event("conn_complete", a, h, FALSE))
  /\ UNCHANGED <<ctlRest, naming, closing, adv, abandoned>>

CtlPageFailed(a) ==
  /\ a \in paging
  /\ paging' = paging \ {a}
  /\ Emit(Event("conn_complete", a, 0, TRUE))
  /\ UNCHANGED <<ctlRest, handle, offered, accepted, naming, closing, adv, abandoned>>

(* Refused by the peer, or never accepted by the host in time. *)
CtlRequestFailed(a) ==
  /\ a \in offered
  /\ offered' = offered \ {a} /\ accepted' = accepted \ {a}
  /\ Emit(Event("conn_complete", a, 0, TRUE))
  /\ UNCHANGED <<ctlRest, handle, paging, naming, closing, adv, abandoned>>

CtlName(a, err) ==
  /\ a \in naming
  /\ naming' = naming \ {a}
  /\ Emit(Event("remote_name", a, 0, err))
  /\ UNCHANGED <<ctlRest, handle, paging, offered, accepted, closing, adv, abandoned>>

CtlAdvReport(a) ==
  /\ scan # "off" /\ handle[a] = 0
  /\ Emit(Event("adv_report", a, 0, FALSE))
  /\ UNCHANGED <<ctlRest, linkVars, adv, abandoned>>

CtlLeConn(a, h, err) ==
  /\ a \in paging
  /\ paging' = paging \ {a}
  /\ handle' = IF err THEN handle ELSE [handle EXCEPT ![a] = h]
  /\ Emit(Event("le_conn_complete", a, IF err THEN 0 ELSE h, err))
  /\ UNCHANGED <<ctlRest, offered, accepted, naming, closing, adv, abandoned>>

CtlEncrypt(a, err) ==
  /\ handle[a] # 0
  /\ Emit(Event("encrypt_change", a, handle[a], err))
  /\ UNCHANGED <<ctlRest, linkVars, adv, abandoned>>

CtlClientConn(c, h) ==
  /\ adv /\ handle[c] = 0
  /\ adv' = FALSE
  /\ handle' = [handle EXCEPT ![c] = h]
  /\ Emit(Event("le_conn_complete", c, h, FALSE))
  /\ UNCHANGED <<ctlRest, paging, offered, accepted, naming, closing, abandoned>>

LinkDown(a) ==
  /\ handle' = [handle EXCEPT ![a] = 0]
  /\ Emit(Event("disconn_complete", NoAddr, handle[a], FALSE))
  /\ abandoned' = IF a \in paging \cup accepted THEN abandoned ELSE abandoned \ {a}

CtlLinkLoss(a) ==
  /\ handle[a] # 0
  /\ LinkDown(a)
  /\ UNCHANGED <<ctlRest, paging, offered, accepted, naming, closing, adv>>

CtlDisconnect(h) ==
  /\ h \in closing
  /\ closing' = closing \ {h}
  /\ \/ \E a \in Addrs : handle[a] = h /\ LinkDown(a)
     \/ /\ \A a \in Addrs : handle[a] # h
        /\ UNCHANGED <<handle, evtq, abandoned>>
  /\ UNCHANGED <<ctlRest, paging, offered, accepted, naming, adv>>
-----------------------------------------------------------------------------
HostStep ==
  \/ InquiryComplete
  \/ \E a \in ClassicPeers : \/ InquiryResult(a) \/ ConnRequest(a)
                             \/ ConnFailed(a) \/ ConnDone(a)
                             \/ NameFailed(a) \/ NameDone(a)
  \/ \E a \in LePeers : AdvReport(a) \/ LeConnFailed(a)
  \/ \E a \in LePeers \cup Clients : LeConnDone(a)
  \/ \E h \in Handles : Disconn(h) \/ EncryptChange(h)

ButtonStep ==
  \/ BtnStopInquiry \/ BtnStopInquiryEnd
  \/ BtnStartInquiry \/ BtnStartInquiryEnd
  \/ BtnDisconnectAll \/ DisconnectNext

ControllerStep ==
  \/ CtlInquiryComplete
  \/ \E a \in ClassicPeers : \/ CtlInquiryResult(a) \/ CtlConnRequest(a)
                             \/ CtlPageFailed(a) \/ CtlRequestFailed(a)
                             \/ \E h \in FreeHandles : CtlConnected(a, h)
                             \/ \E err \in BOOLEAN : CtlName(a, err)
  \/ \E a \in LePeers : \/ CtlAdvReport(a)
                        \/ \E err \in BOOLEAN : CtlEncrypt(a, err)
                        \/ \E h \in FreeHandles, err \in BOOLEAN : CtlLeConn(a, h, err)
  \/ \E c \in Clients, h \in FreeHandles : CtlClientConn(c, h)
  \/ \E a \in Addrs : CtlLinkLoss(a)
  \/ \E h \in Handles : CtlDisconnect(h)

Next == HostStep \/ ButtonStep \/ ControllerStep

Spec == Init /\ [][Next]_vars

(* The callback task is the highest priority one, so a queued event is     *)
(* handled, and sys_mgr_task keeps running.  The controller carries out a  *)
(* disconnect command, and ends a BR/EDR page by connecting or by its page *)
(* timeout; strong fairness only because evtq is bounded here, so other    *)
(* events can use the room each time it is freed.                          *)
Fairness ==
  /\ WF_vars(HostStep)
  /\ WF_vars(DisconnectNext)
  /\ \A h \in Handles : SF_vars(CtlDisconnect(h))
  /\ \A a \in ClassicPeers :
       SF_vars(CtlPageFailed(a) \/ CtlRequestFailed(a) \/ \E h \in FreeHandles : CtlConnected(a, h))

FairSpec == Spec /\ Fairness
-----------------------------------------------------------------------------
DevRec == [found : BOOLEAN, page : BOOLEAN, ble : BOOLEAN,
           bdaddr : Peers \cup {NoAddr}, acl_handle : Handles \cup {0}, pkt_retry : Nat]

EventRec == [ev : {"inquiry_complete", "inquiry_result", "conn_request", "conn_complete",
                   "remote_name", "disconn_complete", "adv_report", "le_conn_complete",
                   "encrypt_change"},
             a : Addrs \cup {NoAddr}, h : Handles \cup {0}, err : BOOLEAN]

(* Every variable stays in the domain of the C object it stands for. *)
TypeOK ==
  /\ bt_dev \in [Dev -> DevRec]
  /\ bt_dev_conf \in [found : BOOLEAN, acl_handle : Handles \cup {0}]
  /\ inquiry_state \in BOOLEAN /\ inquiring \in BOOLEAN
  /\ button \in {"idle", "stop", "start"}
  /\ bt_nb_inquiry \in 0..(InquiryMax + 1)
  /\ kick \in 0..NDev
  /\ scan \in {"off", "active", "passive"}
  /\ adv \in BOOLEAN /\ userStop \in BOOLEAN
  /\ handle \in [Addrs -> Handles \cup {0}]
  /\ paging \subseteq Peers /\ offered \subseteq Peers /\ accepted \subseteq Peers
  /\ naming \subseteq Peers /\ refused \subseteq Peers /\ abandoned \subseteq Peers
  /\ closing \subseteq Handles
  /\ evtq \in Seq(EventRec)

(* No two slots are ever given to one peer, whatever mix of inquiry        *)
(* results, advertisements and incoming requests announced it: a report    *)
(* of either slot would otherwise reach the wrong player.                  *)
UniqueBdaddr ==
  \A i, j \in Dev :
    bt_dev[i].found /\ bt_dev[j].found /\ bt_dev[i].bdaddr = bt_dev[j].bdaddr => i = j

(* The handle in a slot is the handle of the link with the peer of that    *)
(* slot, unless the event that frees the slot is still under way; and a    *)
(* link with a controller has a slot, or the event announcing it is under  *)
(* way.  Handles are reused, so this needs events to be handled in order   *)
(* and every disconnection to free the slot it names.  The exceptions are  *)
(* slots freed without a disconnect command while the controller still has *)
(* a link with the peer, or is making one: at the retry limit, and when    *)
(* the end of one link is handled while the next one is already under way. *)
HandleMatchesLink ==
  /\ \A i \in Dev :
       bt_dev[i].found /\ bt_dev[i].acl_handle # 0 =>
         \/ handle[bt_dev[i].bdaddr] = bt_dev[i].acl_handle
         \/ \E n \in 1..Len(evtq) : /\ evtq[n].ev = "disconn_complete"
                                    /\ evtq[n].h = bt_dev[i].acl_handle
  /\ \A a \in Peers :
       handle[a] # 0 =>
         \/ a \in abandoned
         \/ \E i \in Dev : HasAddr(i, a) /\ bt_dev[i].acl_handle = handle[a]
         \/ \E n \in 1..Len(evtq) : /\ evtq[n].ev \in {"conn_complete", "le_conn_complete"}
                                    /\ evtq[n].a = a /\ ~evtq[n].err

(* A slot without a handle is waiting for something that will come: a page *)
(* or an accepted request in the controller, or the event that ends it.    *)
(* The one exception is a create connection command the controller refused, *)
(* whose command status the host ignores.                                  *)
SlotBacked ==
  \A i \in Dev :
    bt_dev[i].found /\ bt_dev[i].acl_handle = 0 =>
      \/ bt_dev[i].bdaddr \in paging \cup accepted \cup refused
      \/ \E n \in 1..Len(evtq) : /\ evtq[n].ev \in {"conn_complete", "le_conn_complete"}
                                 /\ evtq[n].a = bt_dev[i].bdaddr

(* In INQ_AUTO mode an adapter without any device is looking for one,      *)
(* whatever way its last device went, unless the user turned inquiry off.  *)
AutoInquiryWhenIdle ==
  InqAuto /\ NoActive(bt_dev) /\ ~userStop => inquiring

(* What the radio does besides the links follows the slots.  LE scanning   *)
(* is off only while an LE peer is being connected, otherwise no LE        *)
(* controller would ever be seen again; and the config interface is not    *)
(* advertised while a controller is connected.                             *)
RadioDuties ==
  /\ scan = "off" => \E i \in Dev : /\ bt_dev[i].found /\ bt_dev[i].acl_handle = 0
                                    /\ bt_dev[i].bdaddr \in LePeers
  /\ adv => \A i \in Dev : bt_dev[i].found => bt_dev[i].acl_handle = 0

(* A slot in use is freed before it is given to another peer, and its      *)
(* handle never changes once set: the tasks that read ids and acl_handle   *)
(* without a lock rely on both.                                            *)
SlotStable ==
  [][\A i \in Dev :
       bt_dev[i].found /\ bt_dev'[i].found =>
         /\ bt_dev'[i].bdaddr = bt_dev[i].bdaddr
         /\ bt_dev[i].acl_handle # 0 => bt_dev'[i].acl_handle = bt_dev[i].acl_handle]_vars

(* A slot taken for a BR/EDR peer does not wait forever: the link comes up *)
(* or the slot is freed.                                                   *)
PendingResolved ==
  \A i \in Dev :
    (bt_dev[i].found /\ bt_dev[i].bdaddr \in ClassicPeers /\ bt_dev[i].acl_handle = 0)
      ~> (~bt_dev[i].found \/ bt_dev[i].acl_handle # 0)

(* Disconnecting every device frees every slot that had a link when the    *)
(* loop started, although links come and go while it runs.                 *)
KickedIsFreed ==
  \A i \in Dev :
    (kick = 1 /\ bt_dev[i].found /\ bt_dev[i].acl_handle # 0) ~> ~bt_dev[i].found
=============================================================================
