--------------------------- MODULE DevLinksProofs ---------------------------
(***************************************************************************)
(* Theorems about DevLinks for every number of slots, peers, handles and   *)
(* retries:                                                                *)
(*   TypeCorrect, OneSlotPerPeer   the state is well typed, and no two     *)
(*                  slots stand for one peer;                              *)
(*   IdleLooks, RadioFollows       what the radio does besides the links   *)
(*                  follows the slots;                                     *)
(*   SlotsBacked    a slot without a handle waits for something to come;   *)
(*   SlotsKept      a slot in use keeps its peer, and its handle;          *)
(*   HandlesMatch   slots and links agree but for events on their way.     *)
(* The last three rest on one another: what is still to come for a peer,   *)
(* then the order in which the ends and beginnings of links with one       *)
(* handle or one peer are queued, then what the host makes of that order.  *)
(***************************************************************************)
EXTENDS DevLinks, SequenceTheorems, TLAPS

(* TypeOK in the groups the actions of DevLinks leave alone together. *)
HostType == /\ bt_dev \in [Dev -> DevRec]
            /\ bt_dev_conf \in [found : BOOLEAN, acl_handle : Handles \cup {0}]

InqType == /\ inquiry_state \in BOOLEAN /\ inquiring \in BOOLEAN
           /\ bt_nb_inquiry \in 0..(InquiryMax + 1)
           /\ scan \in {"off", "active", "passive"} /\ userStop \in BOOLEAN

BtnType == button \in {"idle", "stop", "start"} /\ kick \in 0..NDev

LinkType == /\ handle \in [Addrs -> Handles \cup {0}]
            /\ paging \subseteq Peers /\ offered \subseteq Peers
            /\ accepted \subseteq Peers /\ naming \subseteq Peers
            /\ closing \subseteq Handles

RestType == /\ adv \in BOOLEAN /\ evtq \in Seq(EventRec)
            /\ refused \subseteq Peers /\ abandoned \subseteq Peers

(* The groups together are the type invariant, in a state and in the next. *)
LEMMA TypeGroups ==
  /\ TypeOK => HostType /\ InqType /\ BtnType /\ LinkType /\ RestType
  /\ HostType' /\ InqType' /\ BtnType' /\ LinkType' /\ RestType' => TypeOK'
BY Zenon DEF TypeOK, HostType, InqType, BtnType, LinkType, RestType

-----------------------------------------------------------------------------
(* Events *)

(* What the controller queues keeps the queue well typed. *)
LEMMA EmitType ==
  ASSUME TypeOK, NEW e \in EventRec, Emit(e)
  PROVE  evtq' \in Seq(EventRec)
BY AppendProperties DEF TypeOK, Emit

(* An event names an address and a handle, and taking one leaves a queue. *)
LEMMA ReceiveType ==
  ASSUME TypeOK, NEW ev, Receive(ev)
  PROVE  /\ Head(evtq) \in EventRec
         /\ Head(evtq).h \in Handles \cup {0}
         /\ evtq' \in Seq(EventRec)
<1>1. evtq \in Seq(EventRec) /\ evtq # <<>> /\ evtq' = Tail(evtq)
  BY DEF TypeOK, Receive
<1>2. Head(evtq) \in EventRec /\ Tail(evtq) \in Seq(EventRec)
  BY <1>1, HeadTailProperties
<1> QED
  BY <1>1, <1>2 DEF EventRec

(* Events built by the controller are well typed. *)
LEMMA EventType ==
  ASSUME NEW a \in Addrs \cup {NoAddr}, NEW h \in Handles \cup {0}, NEW err \in BOOLEAN,
         NEW ev \in {"inquiry_complete", "inquiry_result", "conn_request", "conn_complete",
                     "remote_name", "disconn_complete", "adv_report", "le_conn_complete",
                     "encrypt_change"}
  PROVE  Event(ev, a, h, err) \in EventRec
BY DEF Event, EventRec
-----------------------------------------------------------------------------
(* Slots *)

(* Recording a retry or a handle keeps a slot's type. *)
LEMMA DevRecType ==
  ASSUME NEW r \in DevRec, NEW h \in Handles \cup {0}
  PROVE  /\ [r EXCEPT !.pkt_retry = @ + 1] \in DevRec
         /\ [r EXCEPT !.acl_handle = h, !.pkt_retry = 0] \in DevRec
         /\ [r EXCEPT !.acl_handle = h, !.pkt_retry = 0, !.ble = TRUE] \in DevRec
<1>1. [r EXCEPT !.pkt_retry = @ + 1] \in DevRec
  BY DEF DevRec
<1>2. [r EXCEPT !.acl_handle = h, !.pkt_retry = 0] \in DevRec
  BY DEF DevRec
<1>3. [r EXCEPT !.acl_handle = h, !.pkt_retry = 0, !.ble = TRUE] \in DevRec
  BY DEF DevRec
<1> QED
  BY <1>1, <1>2, <1>3

(* The slots a handler writes are well typed. *)
LEMMA SlotType ==
  ASSUME TypeOK, NEW i \in Dev
  PROVE  /\ \A a \in Peers :
              /\ [bt_dev EXCEPT ![i] = NewDev(a, FALSE)] \in [Dev -> DevRec]
              /\ [bt_dev EXCEPT ![i] = NewDev(a, TRUE)] \in [Dev -> DevRec]
         /\ ResetDev(i) \in [Dev -> DevRec]
         /\ [bt_dev EXCEPT ![i].pkt_retry = @ + 1] \in [Dev -> DevRec]
         /\ \A h \in Handles \cup {0} :
              [bt_dev EXCEPT ![i].acl_handle = h, ![i].pkt_retry = 0] \in [Dev -> DevRec]
         /\ \A h \in Handles \cup {0} :
              [bt_dev EXCEPT ![i].acl_handle = h, ![i].pkt_retry = 0, ![i].ble = TRUE]
                \in [Dev -> DevRec]
<1> DEFINE d == bt_dev[i]
<1>1. bt_dev \in [Dev -> DevRec] /\ d \in DevRec
  BY DEF TypeOK
<1>2. \A r \in DevRec : [bt_dev EXCEPT ![i] = r] \in [Dev -> DevRec]
  BY <1>1
<1>3. /\ FreeDev \in DevRec
      /\ \A a \in Peers : NewDev(a, FALSE) \in DevRec /\ NewDev(a, TRUE) \in DevRec
  BY DEF DevRec, FreeDev, NewDev
<1>4. \A h \in Handles \cup {0} :
        /\ [d EXCEPT !.pkt_retry = @ + 1] \in DevRec
        /\ [d EXCEPT !.acl_handle = h, !.pkt_retry = 0] \in DevRec
        /\ [d EXCEPT !.acl_handle = h, !.pkt_retry = 0, !.ble = TRUE] \in DevRec
  BY <1>1, DevRecType
<1>5. [bt_dev EXCEPT ![i].pkt_retry = @ + 1] \in [Dev -> DevRec]
  <2>1. [bt_dev EXCEPT ![i].pkt_retry = @ + 1]
          = [bt_dev EXCEPT ![i] = [d EXCEPT !.pkt_retry = @ + 1]]
    OBVIOUS
  <2>2. [d EXCEPT !.pkt_retry = @ + 1] \in DevRec
    BY <1>4
  <2> QED  BY <1>2, <2>1, <2>2
<1>8. ASSUME NEW h \in Handles \cup {0}
      PROVE  /\ [bt_dev EXCEPT ![i].acl_handle = h, ![i].pkt_retry = 0] \in [Dev -> DevRec]
             /\ [bt_dev EXCEPT ![i].acl_handle = h, ![i].pkt_retry = 0, ![i].ble = TRUE]
                   \in [Dev -> DevRec]
  <2>1. [bt_dev EXCEPT ![i].acl_handle = h, ![i].pkt_retry = 0]
          = [bt_dev EXCEPT ![i] = [d EXCEPT !.acl_handle = h, !.pkt_retry = 0]]
    BY <1>1
  <2>2. [bt_dev EXCEPT ![i].acl_handle = h, ![i].pkt_retry = 0, ![i].ble = TRUE]
          = [bt_dev EXCEPT ![i] = [d EXCEPT !.acl_handle = h, !.pkt_retry = 0, !.ble = TRUE]]
    BY <1>1
  <2>3. /\ [d EXCEPT !.acl_handle = h, !.pkt_retry = 0] \in DevRec
        /\ [d EXCEPT !.acl_handle = h, !.pkt_retry = 0, !.ble = TRUE] \in DevRec
    BY <1>4
  <2> QED  BY <1>2, <2>1, <2>2, <2>3
<1>6. \A a \in Peers : /\ [bt_dev EXCEPT ![i] = NewDev(a, FALSE)] \in [Dev -> DevRec]
                       /\ [bt_dev EXCEPT ![i] = NewDev(a, TRUE)] \in [Dev -> DevRec]
  BY <1>2, <1>3
<1>7. ResetDev(i) \in [Dev -> DevRec]
  BY <1>2, <1>3 DEF ResetDev
<1>9. \A h \in Handles \cup {0} :
              [bt_dev EXCEPT ![i].acl_handle = h, ![i].pkt_retry = 0] \in [Dev -> DevRec]
  BY <1>8
<1>10. \A h \in Handles \cup {0} :
              [bt_dev EXCEPT ![i].acl_handle = h, ![i].pkt_retry = 0, ![i].ble = TRUE]
                \in [Dev -> DevRec]
  BY <1>8
<1> HIDE DEF d
<1> QED
  BY <1>5, <1>6, <1>7, <1>9, <1>10

(* In every way the handlers write a slot, the slots stay well typed. *)
LEMMA SlotStepType ==
  ASSUME TypeOK, NEW i \in Dev,
         \/ UNCHANGED bt_dev
         \/ \E a \in Peers : \/ bt_dev' = [bt_dev EXCEPT ![i] = NewDev(a, FALSE)]
                            \/ bt_dev' = [bt_dev EXCEPT ![i] = NewDev(a, TRUE)]
         \/ bt_dev' = ResetDev(i)
         \/ bt_dev' = [bt_dev EXCEPT ![i].pkt_retry = @ + 1]
         \/ \E h \in Handles \cup {0} :
              \/ bt_dev' = [bt_dev EXCEPT ![i].acl_handle = h, ![i].pkt_retry = 0]
              \/ bt_dev' = [bt_dev EXCEPT ![i].acl_handle = h, ![i].pkt_retry = 0,
                                          ![i].ble = TRUE]
  PROVE  bt_dev' \in [Dev -> DevRec]
<1>1. CASE UNCHANGED bt_dev
  BY <1>1 DEF TypeOK
<1>2. CASE \E a \in Peers : \/ bt_dev' = [bt_dev EXCEPT ![i] = NewDev(a, FALSE)]
                            \/ bt_dev' = [bt_dev EXCEPT ![i] = NewDev(a, TRUE)]
  <2>1. PICK a \in Peers : \/ bt_dev' = [bt_dev EXCEPT ![i] = NewDev(a, FALSE)]
                           \/ bt_dev' = [bt_dev EXCEPT ![i] = NewDev(a, TRUE)]
    BY <1>2
  <2>2. /\ [bt_dev EXCEPT ![i] = NewDev(a, FALSE)] \in [Dev -> DevRec]
        /\ [bt_dev EXCEPT ![i] = NewDev(a, TRUE)] \in [Dev -> DevRec]
    BY SlotType
  <2> QED  BY <2>1, <2>2
<1>3. CASE bt_dev' = ResetDev(i)
  BY <1>3, SlotType
<1>4. CASE bt_dev' = [bt_dev EXCEPT ![i].pkt_retry = @ + 1]
  <2>1. [bt_dev EXCEPT ![i].pkt_retry = @ + 1] \in [Dev -> DevRec]
    BY SlotType
  <2> QED  BY <1>4, <2>1
<1>5. CASE \E h \in Handles \cup {0} :
             \/ bt_dev' = [bt_dev EXCEPT ![i].acl_handle = h, ![i].pkt_retry = 0]
             \/ bt_dev' = [bt_dev EXCEPT ![i].acl_handle = h, ![i].pkt_retry = 0,
                                         ![i].ble = TRUE]
  <2>1. PICK h \in Handles \cup {0} :
             \/ bt_dev' = [bt_dev EXCEPT ![i].acl_handle = h, ![i].pkt_retry = 0]
             \/ bt_dev' = [bt_dev EXCEPT ![i].acl_handle = h, ![i].pkt_retry = 0,
                                         ![i].ble = TRUE]
    BY <1>5
  <2>2. /\ [bt_dev EXCEPT ![i].acl_handle = h, ![i].pkt_retry = 0] \in [Dev -> DevRec]
        /\ [bt_dev EXCEPT ![i].acl_handle = h, ![i].pkt_retry = 0, ![i].ble = TRUE]
             \in [Dev -> DevRec]
    BY SlotType
  <2> QED  BY <2>1, <2>2
<1> QED
  BY <1>1, <1>2, <1>3, <1>4, <1>5, Zenon

(* A create connection command names a peer. *)
LEMMA CreateConnType ==
  ASSUME TypeOK, NEW a \in Peers, CreateConn(a)
  PROVE  paging' \subseteq Peers /\ refused' \subseteq Peers
BY DEF TypeOK, CreateConn

(* Inquiry started, stopped or left alone is well typed. *)
LEMMA InquiryType ==
  ASSUME TypeOK, StartInquiry \/ StopInquiry \/ UNCHANGED inqVars
  PROVE  InqType'
<1>1. bt_nb_inquiry' \in 0..(InquiryMax + 1)
  BY DevLinksAssumption DEF TypeOK, StartInquiry, StopInquiry, inqVars
<1>2. /\ inquiry_state' \in BOOLEAN /\ inquiring' \in BOOLEAN /\ userStop' \in BOOLEAN
      /\ scan' \in {"off", "active", "passive"}
  BY Zenon DEF TypeOK, StartInquiry, StopInquiry, inqVars
<1> QED
  BY <1>1, <1>2 DEF InqType
-----------------------------------------------------------------------------
(* Type correctness: one lemma per group of actions *)

(* The groups a step leaves alone stay well typed. *)
LEMMA TypeUnchanged ==
  ASSUME TypeOK
  PROVE  /\ UNCHANGED hostVars => HostType'
         /\ UNCHANGED inqVars => InqType'
         /\ UNCHANGED btnVars => BtnType'
         /\ UNCHANGED linkVars => LinkType'
BY TypeGroups
DEF HostType, InqType, BtnType, LinkType, hostVars, inqVars, btnVars, linkVars

(* The report of a peer that has no slot gives it one and connects it, or  *)
(* waits for its request to be accepted.                                   *)
LEMMA AnnounceType ==
  ASSUME TypeOK, NEW a \in Peers, InquiryResult(a) \/ ConnRequest(a) \/ AdvReport(a)
  PROVE  TypeOK'
<1>1. evtq' \in Seq(EventRec)
  BY ReceiveType DEF InquiryResult, ConnRequest, AdvReport
<1>2. bt_dev' \in [Dev -> DevRec]
  <2>1. \/ UNCHANGED bt_dev
        \/ \E i \in Dev : \/ bt_dev' = [bt_dev EXCEPT ![i] = NewDev(a, FALSE)]
                         \/ bt_dev' = [bt_dev EXCEPT ![i] = NewDev(a, TRUE)]
    BY DEF InquiryResult, ConnRequest, AdvReport
  <2>2. CASE UNCHANGED bt_dev
    BY <2>2 DEF TypeOK
  <2> QED
    BY <2>1, <2>2, SlotStepType
<1>3. UNCHANGED <<bt_dev_conf, btnVars, handle, offered, naming, closing, abandoned>>
  BY DEF InquiryResult, ConnRequest, AdvReport
<1>4. CASE InquiryResult(a)
  <2>1. UNCHANGED <<inqVars, accepted, adv>> /\ (CreateConn(a) \/ UNCHANGED <<paging, refused>>)
    BY <1>4 DEF InquiryResult
  <2>2. paging' \subseteq Peers /\ refused' \subseteq Peers
    BY <2>1, CreateConnType DEF TypeOK
  <2> QED
    BY <1>1, <1>2, <1>3, <2>1, <2>2, TypeGroups, TypeUnchanged DEF HostType, LinkType, RestType
<1>5. CASE ConnRequest(a)
  <2>1. UNCHANGED <<inqVars, paging, adv, refused>>
    BY <1>5 DEF ConnRequest
  <2>2. accepted' \subseteq Peers
    BY <1>5 DEF ConnRequest, TypeOK
  <2> QED
    BY <1>1, <1>2, <1>3, <2>1, <2>2, TypeGroups, TypeUnchanged DEF HostType, LinkType, RestType
<1>6. CASE AdvReport(a)
  <2>1. /\ UNCHANGED <<inquiry_state, bt_nb_inquiry, inquiring, userStop, accepted>>
        /\ CreateConn(a) \/ UNCHANGED <<paging, refused>>
        /\ scan' = "off" \/ scan' = scan
        /\ adv' = FALSE \/ adv' = adv
    BY <1>6 DEF AdvReport
  <2>2. paging' \subseteq Peers /\ refused' \subseteq Peers
    BY <2>1, CreateConnType DEF TypeOK
  <2>3. InqType'
    BY <2>1, TypeGroups DEF InqType
  <2> QED
    BY <1>1, <1>2, <1>3, <2>1, <2>2, <2>3, TypeGroups, TypeUnchanged
    DEF HostType, LinkType, RestType
<1> QED
  BY <1>4, <1>5, <1>6

(* A failed attempt is retried or given up; either way the types hold. *)
LEMMA FailureType ==
  ASSUME TypeOK, NEW a \in Peers, ConnFailed(a) \/ LeConnFailed(a) \/ NameFailed(a)
  PROVE  TypeOK'
<1>1. evtq' \in Seq(EventRec)
  BY ReceiveType DEF ConnFailed, LeConnFailed, NameFailed
<1>2. UNCHANGED <<bt_dev_conf, btnVars, handle, offered, accepted, closing, adv>>
  BY DEF ConnFailed, LeConnFailed, NameFailed
<1>3. /\ \/ UNCHANGED bt_dev
         \/ \E i \in Dev : \/ bt_dev' = ResetDev(i)
                          \/ bt_dev' = [bt_dev EXCEPT ![i].pkt_retry = @ + 1]
      /\ CreateConn(a) \/ UNCHANGED <<paging, refused>>
      /\ naming' = naming \/ naming' = naming \cup {a}
      /\ abandoned' \subseteq abandoned \cup {a}
  BY DEF ConnFailed, LeConnFailed, NameFailed, ConnRetry, GiveUp
<1>4. InqType'
  <2>1. \/ StartInquiry \/ UNCHANGED inqVars
        \/ scan' = "passive" /\ UNCHANGED <<inquiry_state, bt_nb_inquiry, inquiring, userStop>>
    BY DEF ConnFailed, LeConnFailed, NameFailed
  <2>2. CASE StartInquiry \/ UNCHANGED inqVars
    BY <2>2, InquiryType
  <2>3. CASE scan' = "passive" /\ UNCHANGED <<inquiry_state, bt_nb_inquiry, inquiring, userStop>>
    BY <2>3, TypeGroups DEF InqType
  <2> QED  BY <2>1, <2>2, <2>3
<1>5. bt_dev' \in [Dev -> DevRec]
  <2>1. CASE UNCHANGED bt_dev
    BY <2>1 DEF TypeOK
  <2> QED
    BY <1>3, <2>1, SlotStepType
<1>6. paging' \subseteq Peers /\ refused' \subseteq Peers
  BY <1>3, CreateConnType DEF TypeOK
<1>7. naming' \subseteq Peers /\ abandoned' \subseteq Peers
  BY <1>3 DEF TypeOK
<1> QED
  BY <1>1, <1>2, <1>4, <1>5, <1>6, <1>7, TypeGroups, TypeUnchanged
  DEF HostType, LinkType, RestType

(* A link that comes up gets its handle and the name of its peer is asked; *)
(* once the name is known inquiry stops.                                   *)
LEMMA LinkUpType ==
  ASSUME TypeOK, NEW a \in Addrs,
         (a \in ClassicPeers /\ (ConnDone(a) \/ NameDone(a))) \/ LeConnDone(a)
  PROVE  TypeOK'
<1>1. evtq' \in Seq(EventRec) /\ \E h \in Handles \cup {0} : Head(evtq).h = h
  BY ReceiveType DEF ConnDone, NameDone, LeConnDone
<1>2. bt_dev' \in [Dev -> DevRec]
  <2>1. \/ UNCHANGED bt_dev
        \/ \E i \in Dev : \E h \in Handles \cup {0} :
             \/ bt_dev' = [bt_dev EXCEPT ![i].acl_handle = h, ![i].pkt_retry = 0]
             \/ bt_dev' = [bt_dev EXCEPT ![i].acl_handle = h, ![i].pkt_retry = 0,
                                         ![i].ble = TRUE]
    BY <1>1 DEF ConnDone, NameDone, LeConnDone, hostVars
  <2>2. CASE UNCHANGED bt_dev
    BY <2>2 DEF TypeOK
  <2> QED
    BY <2>1, <2>2, SlotStepType
<1>3. CASE a \in ClassicPeers /\ ConnDone(a)
  <2>1. /\ bt_nb_inquiry' = InquiryMax \/ bt_nb_inquiry' = bt_nb_inquiry
        /\ adv' = FALSE \/ adv' = adv
        /\ naming' = naming \/ naming' = naming \cup {a}
        /\ UNCHANGED <<bt_dev_conf, inquiry_state, inquiring, scan, userStop, btnVars, handle,
                       paging, offered, accepted, closing, refused>>
        /\ abandoned' \subseteq abandoned
    BY <1>3 DEF ConnDone
  <2>2. bt_nb_inquiry' \in 0..(InquiryMax + 1)
    BY <2>1, DevLinksAssumption DEF TypeOK
  <2>3. InqType'
    BY <2>1, <2>2, TypeGroups DEF InqType
  <2>4. naming' \subseteq Peers
    BY <1>3, <2>1 DEF TypeOK, Peers
  <2> QED
    BY <1>1, <1>2, <2>1, <2>3, <2>4, TypeGroups, TypeUnchanged DEF HostType, LinkType, RestType
<1>4. CASE a \in ClassicPeers /\ NameDone(a)
  <2>1. /\ StopInquiry \/ UNCHANGED inqVars
        /\ UNCHANGED <<hostVars, btnVars, linkVars, adv, refused, abandoned>>
    BY <1>4 DEF NameDone
  <2> QED
    BY <1>1, <2>1, InquiryType, TypeGroups, TypeUnchanged DEF RestType
<1>5. CASE LeConnDone(a)
  <2>1. /\ bt_nb_inquiry' = InquiryMax \/ bt_nb_inquiry' = bt_nb_inquiry
        /\ scan' = "active" \/ scan' = scan
        /\ UNCHANGED <<inquiry_state, inquiring, userStop, btnVars, linkVars, adv, refused>>
        /\ abandoned' \subseteq abandoned
    BY <1>5 DEF LeConnDone
  <2>2. bt_nb_inquiry' \in 0..(InquiryMax + 1)
    BY <2>1, DevLinksAssumption DEF TypeOK
  <2>3. InqType'
    BY <2>1, <2>2, TypeGroups DEF InqType
  <2>4. bt_dev_conf' \in [found : BOOLEAN, acl_handle : Handles \cup {0}]
    <3>1. \/ bt_dev_conf' = bt_dev_conf
          \/ bt_dev_conf' = [found |-> TRUE, acl_handle |-> Head(evtq).h]
      BY <1>5 DEF LeConnDone
    <3>2. [found |-> TRUE, acl_handle |-> Head(evtq).h]
            \in [found : BOOLEAN, acl_handle : Handles \cup {0}]
      BY <1>1
    <3> QED  BY <3>1, <3>2 DEF TypeOK
  <2> QED
    BY <1>1, <1>2, <2>1, <2>3, <2>4, TypeGroups, TypeUnchanged DEF HostType, RestType
<1> QED
  BY <1>3, <1>4, <1>5

(* A disconnection frees the slot of its handle, or ends a config session. *)
LEMMA DisconnType ==
  ASSUME TypeOK, NEW h \in Handles, Disconn(h) \/ EncryptChange(h)
  PROVE  TypeOK'
<1>1. evtq' \in Seq(EventRec)
  BY ReceiveType DEF Disconn, EncryptChange
<1>2. CASE Disconn(h)
  <2>1. /\ UNCHANGED bt_dev \/ \E i \in Dev : bt_dev' = ResetDev(i)
        /\ adv' = TRUE \/ adv' = adv
        /\ StartInquiry \/ UNCHANGED inqVars
        /\ UNCHANGED <<bt_dev_conf, btnVars, linkVars, refused>>
        /\ abandoned' \subseteq abandoned \cup Peers
    BY <1>2 DEF Disconn
  <2>2. bt_dev' \in [Dev -> DevRec]
    <3>1. CASE UNCHANGED bt_dev
      BY <3>1 DEF TypeOK
    <3> QED  BY <2>1, <3>1, SlotStepType
  <2> QED
    BY <1>1, <2>1, <2>2, InquiryType, TypeGroups, TypeUnchanged DEF HostType, RestType
<1>3. CASE EncryptChange(h)
  <2>1. /\ closing' \subseteq closing \cup {h}
        /\ UNCHANGED <<hostVars, inqVars, btnVars, handle, paging, offered, accepted, naming,
                       adv, refused, abandoned>>
    BY <1>3 DEF EncryptChange
  <2>2. closing' \subseteq Handles
    BY <2>1 DEF TypeOK
  <2> QED
    BY <1>1, <2>1, <2>2, TypeGroups, TypeUnchanged DEF LinkType, RestType
<1> QED
  BY <1>2, <1>3

(* The end of an inquiry period counts it and may stop inquiry. *)
LEMMA InquiryCompleteType ==
  ASSUME TypeOK, InquiryComplete
  PROVE  TypeOK'
<1>1. evtq' \in Seq(EventRec)
  BY ReceiveType DEF InquiryComplete
<1>2. bt_nb_inquiry' \in 0..(InquiryMax + 1)
  BY DevLinksAssumption DEF InquiryComplete, TypeOK
<1>3. InqType'
  BY <1>2 DEF InquiryComplete, TypeOK, InqType
<1>4. UNCHANGED <<hostVars, btnVars, linkVars, adv, refused, abandoned>>
  BY DEF InquiryComplete
<1> QED
  BY <1>1, <1>3, <1>4, TypeGroups, TypeUnchanged DEF RestType

(* The button only touches inquiry, its own progress and the disconnects.  *)
LEMMA ButtonType ==
  ASSUME TypeOK, ButtonStep
  PROVE  TypeOK'
<1>1. UNCHANGED <<hostVars, handle, paging, offered, accepted, naming, adv, evtq,
                  refused, abandoned>>
  BY DEF ButtonStep, BtnStopInquiry, BtnStopInquiryEnd, BtnStartInquiry, BtnStartInquiryEnd,
         BtnDisconnectAll, DisconnectNext, linkVars
<1>2. InqType'
  <2>1. CASE BtnStopInquiry \/ BtnStopInquiryEnd
    BY <2>1, TypeGroups DEF BtnStopInquiry, BtnStopInquiryEnd, InqType
  <2>2. CASE BtnStartInquiry \/ BtnStartInquiryEnd
    <3>1. bt_nb_inquiry' \in 0..(InquiryMax + 1)
      BY <2>2, DevLinksAssumption DEF BtnStartInquiry, BtnStartInquiryEnd, TypeOK
    <3>2. /\ inquiry_state' \in BOOLEAN /\ inquiring' \in BOOLEAN /\ userStop' \in BOOLEAN
          /\ scan' \in {"off", "active", "passive"}
      BY <2>2, Zenon DEF BtnStartInquiry, BtnStartInquiryEnd, TypeOK
    <3> QED  BY <3>1, <3>2 DEF InqType
  <2>3. CASE UNCHANGED inqVars
    BY <2>3, TypeUnchanged
  <2> QED
    BY <2>1, <2>2, <2>3 DEF ButtonStep, BtnDisconnectAll, DisconnectNext
<1>3. BtnType'
  <2>1. button' \in {"idle", "stop", "start"}
    BY Zenon DEF ButtonStep, BtnStopInquiry, BtnStopInquiryEnd, BtnStartInquiry, BtnStartInquiryEnd,
       BtnDisconnectAll, DisconnectNext, btnVars, TypeOK
  <2>2. kick' \in 0..NDev
    BY DevLinksAssumption
    DEF ButtonStep, BtnStopInquiry, BtnStopInquiryEnd, BtnStartInquiry, BtnStartInquiryEnd,
        BtnDisconnectAll, DisconnectNext, NextKick, btnVars, TypeOK
  <2> QED  BY <2>1, <2>2 DEF BtnType
<1>4. closing' \subseteq Handles
  BY DEF ButtonStep, BtnStopInquiry, BtnStopInquiryEnd, BtnStartInquiry, BtnStartInquiryEnd,
         BtnDisconnectAll, DisconnectNext, linkVars, TypeOK
<1> QED
  BY <1>1, <1>2, <1>3, <1>4, TypeGroups, TypeUnchanged DEF LinkType, RestType

(* The controller writes its own variables and the queue.                  *)
LEMMA ControllerType ==
  ASSUME TypeOK, ControllerStep
  PROVE  TypeOK'
<1>1. ASSUME UNCHANGED <<hostVars, inqVars, btnVars, refused>>,
             handle' \in [Addrs -> Handles \cup {0}],
             paging' \subseteq paging, offered' \subseteq Peers, accepted' \subseteq accepted,
             naming' \subseteq naming, closing' \subseteq closing,
             abandoned' \subseteq abandoned,
             adv' = FALSE \/ adv' = adv,
             UNCHANGED evtq \/ \E e \in EventRec : Emit(e)
      PROVE  TypeOK'
  <2>1. evtq' \in Seq(EventRec)
    BY <1>1, EmitType DEF TypeOK
  <2>2. LinkType'
    BY <1>1 DEF TypeOK, LinkType
  <2>3. RestType'
    BY <1>1, <2>1, TypeGroups DEF RestType
  <2> QED  BY <1>1, <2>2, <2>3, TypeGroups, TypeUnchanged
<1>2. /\ \A a \in Peers : a \in Addrs /\ a \in Addrs \cup {NoAddr}
      /\ \A c \in Clients : c \in Addrs /\ c \in Addrs \cup {NoAddr}
      /\ ClassicPeers \subseteq Peers /\ LePeers \subseteq Peers
      /\ FreeHandles \subseteq Handles
      /\ 0 \in Handles \cup {0} /\ NoAddr \in Addrs \cup {NoAddr}
      /\ \A a \in Addrs : handle[a] \in Handles \cup {0}
  BY DEF Addrs, Peers, FreeHandles, TypeOK
<1>3. handle \in [Addrs -> Handles \cup {0}] /\ offered \subseteq Peers
  BY DEF TypeOK
<1>4. \A a \in Addrs, h \in Handles \cup {0} :
        [handle EXCEPT ![a] = h] \in [Addrs -> Handles \cup {0}]
  BY <1>3
<1>5. CASE CtlInquiryComplete
  <2>1. \E e \in EventRec : Emit(e)
    BY <1>2, <1>5, EventType DEF CtlInquiryComplete
  <2> QED  BY <1>1, <1>3, <1>5, <2>1 DEF CtlInquiryComplete, ctlRest, linkVars
<1>6. ASSUME NEW a \in ClassicPeers, CtlInquiryResult(a) \/ CtlConnRequest(a)
                                     \/ CtlPageFailed(a) \/ CtlRequestFailed(a)
      PROVE  TypeOK'
  <2>1. \E e \in EventRec : Emit(e)
    BY <1>2, <1>6, EventType DEF CtlInquiryResult, CtlConnRequest, CtlPageFailed, CtlRequestFailed
  <2>2. /\ offered' \subseteq Peers
        /\ UNCHANGED <<hostVars, inqVars, btnVars, refused, handle, naming, closing, adv,
                       abandoned>>
        /\ paging' \subseteq paging /\ accepted' \subseteq accepted
    BY <1>2, <1>3, <1>6
    DEF CtlInquiryResult, CtlConnRequest, CtlPageFailed, CtlRequestFailed, ctlRest, linkVars
  <2> QED  BY <1>1, <1>3, <2>1, <2>2
<1>7. ASSUME NEW a \in ClassicPeers, NEW h \in FreeHandles, CtlConnected(a, h)
      PROVE  TypeOK'
  <2>1. \E e \in EventRec : Emit(e)
    BY <1>2, <1>7, EventType DEF CtlConnected
  <2>2. handle' \in [Addrs -> Handles \cup {0}]
    BY <1>2, <1>4, <1>7 DEF CtlConnected
  <2> QED  BY <1>1, <1>3, <1>7, <2>1, <2>2 DEF CtlConnected, ctlRest
<1>8. ASSUME NEW a \in ClassicPeers, NEW err \in BOOLEAN, CtlName(a, err)
      PROVE  TypeOK'
  <2>1. \E e \in EventRec : Emit(e)
    BY <1>2, <1>8, EventType DEF CtlName
  <2> QED  BY <1>1, <1>3, <1>8, <2>1 DEF CtlName, ctlRest
<1>9. ASSUME NEW a \in LePeers, NEW err \in BOOLEAN, CtlAdvReport(a) \/ CtlEncrypt(a, err)
      PROVE  TypeOK'
  <2>1. \E e \in EventRec : Emit(e)
    BY <1>2, <1>9, EventType DEF CtlAdvReport, CtlEncrypt
  <2> QED  BY <1>1, <1>3, <1>9, <2>1 DEF CtlAdvReport, CtlEncrypt, ctlRest, linkVars
<1>10. ASSUME NEW a \in LePeers, NEW h \in FreeHandles, NEW err \in BOOLEAN, CtlLeConn(a, h, err)
       PROVE  TypeOK'
  <2>1. \E e \in EventRec : Emit(e)
    BY <1>2, <1>10, EventType DEF CtlLeConn
  <2>2. handle' \in [Addrs -> Handles \cup {0}]
    BY <1>2, <1>3, <1>4, <1>10 DEF CtlLeConn
  <2> QED  BY <1>1, <1>3, <1>10, <2>1, <2>2 DEF CtlLeConn, ctlRest
<1>11. ASSUME NEW c \in Clients, NEW h \in FreeHandles, CtlClientConn(c, h)
       PROVE  TypeOK'
  <2>1. \E e \in EventRec : Emit(e)
    BY <1>2, <1>11, EventType DEF CtlClientConn
  <2>2. handle' \in [Addrs -> Handles \cup {0}]
    BY <1>2, <1>4, <1>11 DEF CtlClientConn
  <2> QED  BY <1>1, <1>3, <1>11, <2>1, <2>2 DEF CtlClientConn, ctlRest
<1>12. ASSUME NEW a \in Addrs, LinkDown(a),
              UNCHANGED <<ctlRest, paging, offered, accepted, naming, adv>>,
              closing' \subseteq closing
       PROVE  TypeOK'
  <2>1. \E e \in EventRec : Emit(e)
    BY <1>2, <1>12, EventType DEF LinkDown
  <2>2. handle' \in [Addrs -> Handles \cup {0}] /\ abandoned' \subseteq abandoned
    BY <1>2, <1>4, <1>12 DEF LinkDown
  <2> QED  BY <1>1, <1>3, <1>12, <2>1, <2>2 DEF ctlRest
<1>13. ASSUME NEW a \in Addrs, CtlLinkLoss(a) PROVE TypeOK'
  BY <1>12, <1>13 DEF CtlLinkLoss
<1>14. ASSUME NEW h \in Handles, CtlDisconnect(h) PROVE TypeOK'
  <2>1. CASE \E a \in Addrs : handle[a] = h /\ LinkDown(a)
    BY <1>12, <1>14, <2>1 DEF CtlDisconnect
  <2>2. CASE UNCHANGED <<handle, evtq, abandoned>>
    BY <1>1, <1>3, <1>14, <2>2 DEF CtlDisconnect, ctlRest
  <2> QED  BY <1>14, <2>1, <2>2 DEF CtlDisconnect
<1> QED
  BY <1>5, <1>6, <1>7, <1>8, <1>9, <1>10, <1>11, <1>13, <1>14 DEF ControllerStep

(* Type correctness holds of every behaviour, for any number of slots,     *)
(* peers, handles and retries: no handler writes a value outside its field. *)
THEOREM TypeCorrect == Spec => []TypeOK
<1>1. Init => TypeOK
  <2> SUFFICES ASSUME Init PROVE TypeOK
    OBVIOUS
  <2>1. FreeDev \in DevRec
    BY DEF FreeDev, DevRec
  <2>2. bt_dev \in [Dev -> DevRec] /\ handle \in [Addrs -> Handles \cup {0}]
    BY <2>1 DEF Init
  <2>3. bt_dev_conf \in [found : BOOLEAN, acl_handle : Handles \cup {0}]
    BY DEF Init
  <2>4. /\ bt_nb_inquiry \in 0..(InquiryMax + 1) /\ kick \in 0..NDev
        /\ evtq \in Seq(EventRec) /\ closing \subseteq Handles
        /\ paging \subseteq Peers /\ offered \subseteq Peers /\ accepted \subseteq Peers
        /\ naming \subseteq Peers /\ refused \subseteq Peers /\ abandoned \subseteq Peers
    BY DevLinksAssumption DEF Init
  <2>5. /\ inquiry_state \in BOOLEAN /\ inquiring \in BOOLEAN
        /\ button \in {"idle", "stop", "start"}
        /\ adv \in BOOLEAN /\ userStop \in BOOLEAN
        /\ scan \in {"off", "active", "passive"}
    BY DevLinksAssumption, Zenon DEF Init, DevLinksAssumption
  <2> QED
    BY <2>2, <2>3, <2>4, <2>5, Zenon DEF TypeOK
<1>2. TypeOK /\ [Next]_vars => TypeOK'
  <2> SUFFICES ASSUME TypeOK, [Next]_vars PROVE TypeOK'
    OBVIOUS
  <2>1. CASE HostStep
    <3>1. ClassicPeers \subseteq Peers /\ LePeers \subseteq Peers
          /\ Peers \subseteq Addrs /\ Clients \subseteq Addrs
      BY DEF Peers, Addrs
    <3> QED
      BY <2>1, <3>1, InquiryCompleteType, AnnounceType, FailureType, LinkUpType, DisconnType
      DEF HostStep
  <2>2. CASE ButtonStep
    BY <2>2, ButtonType
  <2>3. CASE ControllerStep
    BY <2>3, ControllerType
  <2>4. CASE UNCHANGED vars
    <3>1. UNCHANGED <<hostVars, inqVars, btnVars, linkVars, adv, evtq, refused, abandoned>>
      BY <2>4 DEF vars
    <3> QED
      BY <3>1, TypeGroups, TypeUnchanged DEF RestType
  <2> QED
    BY <2>1, <2>2, <2>3, <2>4 DEF Next
<1> QED
  BY <1>1, <1>2, PTL DEF Spec
-----------------------------------------------------------------------------
(* One slot per peer *)

(* A step keeps the peer of every slot that is still in use ...            *)
Keeps == \A j \in Dev : bt_dev'[j].found => /\ bt_dev[j].found
                                           /\ bt_dev'[j].bdaddr = bt_dev[j].bdaddr

(* ... except that it may give one free slot to a peer that has none.      *)
Takes == \E i \in Dev, a \in Peers :
           /\ NoDevFromAddr(a)
           /\ bt_dev'[i].bdaddr = a
           /\ \A j \in Dev \ {i} : bt_dev'[j] = bt_dev[j]

(* No step does anything else to the peers of the slots. *)
LEMMA SlotUse == TypeOK /\ [Next]_vars => Keeps \/ Takes
<1> SUFFICES ASSUME TypeOK, [Next]_vars PROVE Keeps \/ Takes
  OBVIOUS
<1>1. CASE UNCHANGED bt_dev
  BY <1>1 DEF Keeps
<1>2. bt_dev \in [Dev -> DevRec]
  BY DEF TypeOK
<1>3. ASSUME NEW i \in Dev,
             bt_dev' = ResetDev(i) \/ bt_dev' = [bt_dev EXCEPT ![i].pkt_retry = @ + 1]
      PROVE  Keeps
  BY <1>2, <1>3 DEF Keeps, ResetDev, FreeDev, DevRec
<1>4. ASSUME NEW i \in Dev, NEW h,
             \/ bt_dev' = [bt_dev EXCEPT ![i].acl_handle = h, ![i].pkt_retry = 0]
             \/ bt_dev' = [bt_dev EXCEPT ![i].acl_handle = h, ![i].pkt_retry = 0, ![i].ble = TRUE]
      PROVE  Keeps
  BY <1>2, <1>4 DEF Keeps, DevRec
<1>5. ASSUME NEW a \in Peers, InquiryResult(a) \/ ConnRequest(a) \/ AdvReport(a)
      PROVE  Keeps \/ Takes
  <2>1. CASE NoDevFromAddr(a) /\ ~UNCHANGED bt_dev
    <3>1. PICK i \in Dev : \/ bt_dev' = [bt_dev EXCEPT ![i] = NewDev(a, FALSE)]
                           \/ bt_dev' = [bt_dev EXCEPT ![i] = NewDev(a, TRUE)]
      BY <1>5, <2>1 DEF InquiryResult, ConnRequest, AdvReport
    <3>2. bt_dev'[i].bdaddr = a /\ \A j \in Dev \ {i} : bt_dev'[j] = bt_dev[j]
      BY <1>2, <3>1 DEF NewDev
    <3> QED  BY <2>1, <3>2 DEF Takes
  <2> QED
    BY <1>1, <1>5, <2>1 DEF InquiryResult, ConnRequest, AdvReport
<1>6. ASSUME NEW a \in Peers, ConnFailed(a) \/ LeConnFailed(a) \/ NameFailed(a)
      PROVE  Keeps
  <2>1. \/ UNCHANGED bt_dev
        \/ \E i \in Dev : bt_dev' = ResetDev(i) \/ bt_dev' = [bt_dev EXCEPT ![i].pkt_retry = @ + 1]
    BY <1>6 DEF ConnFailed, LeConnFailed, NameFailed, ConnRetry, GiveUp
  <2>2. CASE UNCHANGED bt_dev
    BY <2>2 DEF Keeps
  <2> QED  BY <1>3, <2>1, <2>2
<1>7. ASSUME NEW a, ConnDone(a) \/ NameDone(a) \/ LeConnDone(a)
      PROVE  Keeps
  <2>1. \/ UNCHANGED bt_dev
        \/ \E i \in Dev : \E h :
             \/ bt_dev' = [bt_dev EXCEPT ![i].acl_handle = h, ![i].pkt_retry = 0]
             \/ bt_dev' = [bt_dev EXCEPT ![i].acl_handle = h, ![i].pkt_retry = 0, ![i].ble = TRUE]
    BY <1>7 DEF ConnDone, NameDone, LeConnDone, hostVars
  <2>2. CASE UNCHANGED bt_dev
    BY <2>2 DEF Keeps
  <2> QED  BY <1>4, <2>1, <2>2
<1>8. ASSUME NEW h, Disconn(h) \/ EncryptChange(h) PROVE Keeps
  <2>1. CASE UNCHANGED bt_dev
    BY <2>1 DEF Keeps
  <2> QED  BY <1>3, <1>8, <2>1 DEF Disconn, EncryptChange, hostVars
<1>9. CASE InquiryComplete \/ ButtonStep \/ ControllerStep \/ UNCHANGED vars
  <2>1. UNCHANGED bt_dev
    BY <1>9
    DEF InquiryComplete, ButtonStep, BtnStopInquiry, BtnStopInquiryEnd, BtnStartInquiry,
        BtnStartInquiryEnd, BtnDisconnectAll, DisconnectNext, ControllerStep,
        CtlInquiryComplete, CtlInquiryResult,
        CtlConnRequest, CtlConnected, CtlPageFailed, CtlRequestFailed, CtlName, CtlAdvReport,
        CtlLeConn, CtlEncrypt, CtlClientConn, CtlLinkLoss, CtlDisconnect, ctlRest, hostVars, vars
  <2> QED  BY <1>1, <2>1
<1> QED
  <2>1. ClassicPeers \subseteq Peers /\ LePeers \subseteq Peers
    BY DEF Peers
  <2> QED
    BY <1>5, <1>6, <1>7, <1>8, <1>9, <2>1 DEF Next, HostStep

(* Inquiry results, advertisements and incoming requests of one peer may   *)
(* cross in any order, and a slot may be freed and reused in between: no   *)
(* two slots ever stand for one peer.                                      *)
THEOREM OneSlotPerPeer == Spec => []UniqueBdaddr
<1>1. Init => UniqueBdaddr
  BY DEF Init, UniqueBdaddr, FreeDev
<1>2. TypeOK /\ UniqueBdaddr /\ [Next]_vars => UniqueBdaddr'
  <2> SUFFICES ASSUME TypeOK, UniqueBdaddr, [Next]_vars PROVE UniqueBdaddr'
    OBVIOUS
  <2>1. CASE Keeps
    BY <2>1 DEF Keeps, UniqueBdaddr
  <2>2. CASE Takes
    BY <2>2 DEF Takes, UniqueBdaddr, NoDevFromAddr, HasAddr
  <2> QED  BY <2>1, <2>2, SlotUse
<1> QED
  BY <1>1, <1>2, TypeCorrect, PTL DEF Spec

(* What a step does to a slot, as far as its peer and its link go.         *)
SameSlot(j) == /\ bt_dev'[j].found = bt_dev[j].found
               /\ bt_dev'[j].bdaddr = bt_dev[j].bdaddr
               /\ bt_dev'[j].acl_handle = bt_dev[j].acl_handle

SlotsSame   == \A j \in Dev : SameSlot(j)
OthersSame(i) == \A j \in Dev \ {i} : SameSlot(j)

SlotTaken(i, a) == /\ ~bt_dev[i].found
                   /\ bt_dev'[i].found /\ bt_dev'[i].bdaddr = a /\ bt_dev'[i].acl_handle = 0
                   /\ OthersSame(i)

SlotFreed(i) == ~bt_dev'[i].found /\ OthersSame(i)

SlotLinked(i, h) == /\ bt_dev'[i].found = bt_dev[i].found
                    /\ bt_dev'[i].bdaddr = bt_dev[i].bdaddr
                    /\ bt_dev'[i].acl_handle = h
                    /\ OthersSame(i)

(* The writes of the handlers have these effects. *)
LEMMA SlotEffects ==
  ASSUME TypeOK, NEW i \in Dev
  PROVE  /\ \A a : (\/ bt_dev' = [bt_dev EXCEPT ![i] = NewDev(a, FALSE)]
                    \/ bt_dev' = [bt_dev EXCEPT ![i] = NewDev(a, TRUE)])
                   /\ ~bt_dev[i].found => SlotTaken(i, a)
         /\ bt_dev' = ResetDev(i) => SlotFreed(i)
         /\ bt_dev' = [bt_dev EXCEPT ![i].pkt_retry = @ + 1] => SlotsSame
         /\ \A h : \/ bt_dev' = [bt_dev EXCEPT ![i].acl_handle = h, ![i].pkt_retry = 0]
                   \/ bt_dev' = [bt_dev EXCEPT ![i].acl_handle = h, ![i].pkt_retry = 0,
                                               ![i].ble = TRUE]
                   => SlotLinked(i, h)
<1>1. bt_dev \in [Dev -> DevRec]
  BY DEF TypeOK
<1>2. ASSUME NEW a, ~bt_dev[i].found,
             \/ bt_dev' = [bt_dev EXCEPT ![i] = NewDev(a, FALSE)]
             \/ bt_dev' = [bt_dev EXCEPT ![i] = NewDev(a, TRUE)]
      PROVE  SlotTaken(i, a)
  BY <1>1, <1>2 DEF SlotTaken, OthersSame, SameSlot, NewDev
<1>3. ASSUME bt_dev' = ResetDev(i) PROVE SlotFreed(i)
  BY <1>1, <1>3 DEF ResetDev, FreeDev, SlotFreed, OthersSame, SameSlot
<1>4. ASSUME bt_dev' = [bt_dev EXCEPT ![i].pkt_retry = @ + 1] PROVE SlotsSame
  BY <1>1, <1>4 DEF SlotsSame, SameSlot, DevRec
<1>5. ASSUME NEW h,
             \/ bt_dev' = [bt_dev EXCEPT ![i].acl_handle = h, ![i].pkt_retry = 0]
             \/ bt_dev' = [bt_dev EXCEPT ![i].acl_handle = h, ![i].pkt_retry = 0,
                                         ![i].ble = TRUE]
      PROVE  SlotLinked(i, h)
  BY <1>1, <1>5 DEF SlotLinked, OthersSame, SameSlot, DevRec
<1>6. \A a : (\/ bt_dev' = [bt_dev EXCEPT ![i] = NewDev(a, FALSE)]
                    \/ bt_dev' = [bt_dev EXCEPT ![i] = NewDev(a, TRUE)])
                   /\ ~bt_dev[i].found => SlotTaken(i, a)
  BY <1>2
<1>7. \A h : \/ bt_dev' = [bt_dev EXCEPT ![i].acl_handle = h, ![i].pkt_retry = 0]
                   \/ bt_dev' = [bt_dev EXCEPT ![i].acl_handle = h, ![i].pkt_retry = 0,
                                               ![i].ble = TRUE]
                   => SlotLinked(i, h)
  BY <1>5
<1>8. bt_dev' = [bt_dev EXCEPT ![i].pkt_retry = @ + 1] => SlotsSame
  <2> HAVE bt_dev' = [bt_dev EXCEPT ![i].pkt_retry = @ + 1]
  <2> QED  BY <1>4
<1> QED
  BY <1>3, <1>6, <1>7, <1>8

(* The report of a peer takes a free slot for a peer that has none.        *)
LEMMA AnnounceEffect ==
  ASSUME TypeOK, NEW a \in Peers, InquiryResult(a) \/ ConnRequest(a) \/ AdvReport(a)
  PROVE  \/ /\ NoDevFromAddr(a)
            /\ \E i \in Dev : SlotTaken(i, a)
            /\ ConnRequest(a) => accepted' = accepted \cup ({a} \cap offered)
            /\ ~ConnRequest(a) => CreateConn(a)
            /\ AdvReport(a) => scan' = "off" /\ adv' = FALSE
         \/ /\ bt_dev' = bt_dev
            /\ ConnRequest(a) => UNCHANGED <<paging, accepted, refused>>
            /\ UNCHANGED <<scan, adv, paging, accepted, refused>>
<1>1. \A i \in Dev : GetNewDev(i) => ~bt_dev[i].found
  BY DEF GetNewDev
<1> DEFINE Writes == \E i \in Dev : /\ ~bt_dev[i].found
                                    /\ \/ bt_dev' = [bt_dev EXCEPT ![i] = NewDev(a, FALSE)]
                                       \/ bt_dev' = [bt_dev EXCEPT ![i] = NewDev(a, TRUE)]
<1>2. Writes => \E i \in Dev : SlotTaken(i, a)
  <2>1. ASSUME NEW i \in Dev, ~bt_dev[i].found,
               \/ bt_dev' = [bt_dev EXCEPT ![i] = NewDev(a, FALSE)]
               \/ bt_dev' = [bt_dev EXCEPT ![i] = NewDev(a, TRUE)]
        PROVE  SlotTaken(i, a)
    BY <2>1, SlotEffects
  <2> QED  BY <2>1
<1>3. ~(InquiryResult(a) /\ ConnRequest(a)) /\ ~(AdvReport(a) /\ ConnRequest(a))
      /\ ~(InquiryResult(a) /\ AdvReport(a))
  BY DEF InquiryResult, ConnRequest, AdvReport, Receive
<1>4. CASE InquiryResult(a)
  <2>1. \/ NoDevFromAddr(a) /\ Writes /\ CreateConn(a)
        \/ UNCHANGED <<bt_dev, paging, refused>>
    BY <1>1, <1>4 DEF InquiryResult
  <2>2. UNCHANGED <<scan, adv, accepted>>
    BY <1>4 DEF InquiryResult, inqVars
  <2> HIDE DEF Writes
  <2> QED  BY <1>2, <1>3, <1>4, <2>1, <2>2
<1>5. CASE ConnRequest(a)
  <2>1. \/ NoDevFromAddr(a) /\ Writes /\ accepted' = accepted \cup ({a} \cap offered)
        \/ UNCHANGED <<bt_dev, accepted>>
    BY <1>1, <1>5 DEF ConnRequest
  <2>2. UNCHANGED <<scan, adv, paging, refused>>
    BY <1>5 DEF ConnRequest, inqVars
  <2> HIDE DEF Writes
  <2> QED  BY <1>2, <1>3, <1>5, <2>1, <2>2
<1>6. CASE AdvReport(a)
  <2>1. \/ NoDevFromAddr(a) /\ Writes /\ CreateConn(a) /\ scan' = "off" /\ adv' = FALSE
        \/ UNCHANGED <<bt_dev, scan, adv, paging, refused>>
    BY <1>1, <1>6 DEF AdvReport
  <2>2. UNCHANGED accepted
    BY <1>6 DEF AdvReport
  <2> HIDE DEF Writes
  <2> QED  BY <1>2, <1>3, <1>6, <2>1, <2>2
<1> QED
  BY <1>4, <1>5, <1>6

(* A failure leaves the slots' peers and links alone or frees the slot of  *)
(* its peer, and then an adapter without any device starts inquiry.        *)
LEMMA FailureEffect ==
  ASSUME TypeOK, NEW a \in Peers, ConnFailed(a) \/ LeConnFailed(a) \/ NameFailed(a)
  PROVE  \/ /\ SlotsSame
            /\ UNCHANGED inqVars
            /\ UNCHANGED abandoned
            /\ \/ UNCHANGED <<paging, refused>> /\ (NoDevFromAddr(a) \/ NameFailed(a))
               \/ CreateConn(a) /\ ~NoDevFromAddr(a)
         \/ /\ \E i \in Dev : DevFromAddr(i, a) /\ SlotFreed(i)
            /\ abandoned' = abandoned \cup {b \in {a} : handle[b] # 0 \/ OnItsWay(b)}
            /\ UNCHANGED <<paging, refused>>
            /\ \/ StartInquiry
               \/ /\ UNCHANGED <<inquiring, userStop>>
                  /\ scan' = scan \/ scan' = "passive"
                  /\ ~InqAuto \/ ~NoActive(bt_dev')
<1>1. UNCHANGED bt_dev => SlotsSame
  BY DEF SlotsSame, SameSlot
<1>2. /\ \A i \in Dev : DevFromAddr(i, a) => ~NoDevFromAddr(a)
      /\ UNCHANGED inqVars => UNCHANGED <<inquiring, userStop, scan>>
  BY DEF DevFromAddr, NoDevFromAddr, inqVars
<1>3. \A i \in Dev : bt_dev' = [bt_dev EXCEPT ![i].pkt_retry = @ + 1] => SlotsSame
  <2> TAKE i \in Dev
  <2> QED  BY SlotEffects
<1>4. \A i \in Dev : bt_dev' = ResetDev(i) => SlotFreed(i)
  BY SlotEffects
<1>5. CASE ConnFailed(a) \/ LeConnFailed(a)
  <2>1. CASE NoDevFromAddr(a)
    <3>1. UNCHANGED <<bt_dev, paging, refused, abandoned, naming, inqVars>>
      BY <1>2, <1>5, <2>1, Zenon DEF ConnFailed, LeConnFailed
    <3> QED  BY <1>1, <2>1, <3>1
  <2>2. ASSUME NEW i \in Dev, DevFromAddr(i, a), ConnRetry(i, a), UNCHANGED inqVars
        PROVE  SlotsSame /\ CreateConn(a) /\ ~NoDevFromAddr(a) /\ UNCHANGED abandoned
    BY <1>2, <1>3, <2>2 DEF ConnRetry
  <2>3. ASSUME NEW i \in Dev, DevFromAddr(i, a), GiveUp(i, a),
               IF InqAuto /\ NoActive(ResetDev(i)) THEN StartInquiry
               ELSE UNCHANGED inqVars
                    \/ (scan' = "passive" /\ UNCHANGED <<inquiry_state, bt_nb_inquiry,
                                                         inquiring, userStop>>)
        PROVE  /\ DevFromAddr(i, a) /\ SlotFreed(i)
               /\ abandoned' = abandoned \cup {b \in {a} : handle[b] # 0 \/ OnItsWay(b)}
               /\ UNCHANGED <<paging, refused>>
               /\ \/ StartInquiry
                  \/ /\ UNCHANGED <<inquiring, userStop>>
                     /\ scan' = scan \/ scan' = "passive"
                     /\ ~InqAuto \/ ~NoActive(bt_dev')
    <3>1. bt_dev' = ResetDev(i)
      BY <2>3 DEF GiveUp
    <3>2. \/ StartInquiry
          \/ /\ UNCHANGED <<inquiring, userStop>>
             /\ scan' = scan \/ scan' = "passive"
             /\ ~InqAuto \/ ~NoActive(bt_dev')
      BY <1>2, <2>3, <3>1, Zenon
    <3>3. /\ abandoned' = abandoned \cup {b \in {a} : handle[b] # 0 \/ OnItsWay(b)}
          /\ UNCHANGED <<paging, refused>>
      BY <2>3 DEF GiveUp
    <3> QED  BY <1>4, <2>3, <3>1, <3>2, <3>3
  <2>4. \/ NoDevFromAddr(a)
        \/ \E i \in Dev : DevFromAddr(i, a) /\ ConnRetry(i, a) /\ UNCHANGED inqVars
        \/ \E i \in Dev : /\ DevFromAddr(i, a) /\ GiveUp(i, a)
                          /\ IF InqAuto /\ NoActive(ResetDev(i)) THEN StartInquiry
                             ELSE UNCHANGED inqVars
                                  \/ (scan' = "passive" /\ UNCHANGED <<inquiry_state, bt_nb_inquiry,
                                                                       inquiring, userStop>>)
    BY <1>5, Zenon DEF ConnFailed, LeConnFailed
  <2>5. (\E i \in Dev : DevFromAddr(i, a) /\ ConnRetry(i, a) /\ UNCHANGED inqVars)
        => SlotsSame /\ CreateConn(a) /\ ~NoDevFromAddr(a) /\ UNCHANGED <<abandoned, inqVars>>
    BY <2>2
  <2> QED  BY <2>1, <2>3, <2>4, <2>5, Zenon
<1>6. CASE NameFailed(a)
  <2>1. CASE NoDevFromAddr(a)
    <3>1. UNCHANGED <<bt_dev, paging, refused, abandoned, naming, inqVars>>
      BY <1>2, <1>6, <2>1, Zenon DEF NameFailed
    <3> QED  BY <1>1, <2>1, <3>1
  <2>2. CASE \E i \in Dev : /\ bt_dev' = [bt_dev EXCEPT ![i].pkt_retry = @ + 1]
                            /\ UNCHANGED <<paging, refused, abandoned, inqVars>>
    BY <1>3, <1>6, <2>2
  <2>3. ASSUME NEW i \in Dev, DevFromAddr(i, a), GiveUp(i, a),
               IF InqAuto /\ NoActive(ResetDev(i)) THEN StartInquiry ELSE UNCHANGED inqVars
        PROVE  /\ DevFromAddr(i, a) /\ SlotFreed(i)
               /\ abandoned' = abandoned \cup {b \in {a} : handle[b] # 0 \/ OnItsWay(b)}
               /\ UNCHANGED <<paging, refused>>
               /\ \/ StartInquiry
                  \/ /\ UNCHANGED <<inquiring, userStop>>
                     /\ scan' = scan \/ scan' = "passive"
                     /\ ~InqAuto \/ ~NoActive(bt_dev')
    <3>1. bt_dev' = ResetDev(i)
      BY <2>3 DEF GiveUp
    <3>2. \/ StartInquiry
          \/ /\ UNCHANGED <<inquiring, userStop>>
             /\ scan' = scan \/ scan' = "passive"
             /\ ~InqAuto \/ ~NoActive(bt_dev')
      BY <1>2, <2>3, <3>1, Zenon
    <3>3. /\ abandoned' = abandoned \cup {b \in {a} : handle[b] # 0 \/ OnItsWay(b)}
          /\ UNCHANGED <<paging, refused>>
      BY <2>3 DEF GiveUp
    <3> QED  BY <1>4, <2>3, <3>1, <3>2, <3>3
  <2>4. \/ NoDevFromAddr(a)
        \/ \E i \in Dev : /\ bt_dev' = [bt_dev EXCEPT ![i].pkt_retry = @ + 1]
                          /\ UNCHANGED <<paging, refused, abandoned, inqVars>>
        \/ \E i \in Dev : /\ DevFromAddr(i, a) /\ GiveUp(i, a)
                          /\ IF InqAuto /\ NoActive(ResetDev(i)) THEN StartInquiry
                                                                 ELSE UNCHANGED inqVars
    BY <1>6, Zenon DEF NameFailed
  <2> QED  BY <2>1, <2>2, <2>3, <2>4, Zenon
<1> QED
  BY <1>5, <1>6

(* A link that comes up gives its handle to the slot of its peer, if any.  *)
LEMMA LinkUpEffect ==
  ASSUME TypeOK, NEW a \in Addrs, ConnDone(a) \/ LeConnDone(a)
  PROVE  /\ \/ NoDevFromAddr(a) /\ SlotsSame /\ UNCHANGED <<adv, scan, abandoned>>
            \/ /\ \E i \in Dev : DevFromAddr(i, a) /\ SlotLinked(i, Head(evtq).h)
               /\ abandoned' = abandoned \ {a}
               /\ ConnDone(a) => adv' = FALSE /\ UNCHANGED scan
               /\ LeConnDone(a) => scan' = "active" /\ UNCHANGED adv
         /\ UNCHANGED <<inquiring, userStop, handle, paging, offered, accepted, refused>>
<1>1. UNCHANGED bt_dev => SlotsSame
  BY DEF SlotsSame, SameSlot
<1>2. ~(ConnDone(a) /\ LeConnDone(a))
  BY DEF ConnDone, LeConnDone, Receive
<1>3. CASE ConnDone(a)
  <2>1. ASSUME NEW i \in Dev, DevFromAddr(i, a),
               bt_dev' = [bt_dev EXCEPT ![i].acl_handle = Head(evtq).h, ![i].pkt_retry = 0]
        PROVE  \E j \in Dev : DevFromAddr(j, a) /\ SlotLinked(j, Head(evtq).h)
    BY <2>1, SlotEffects
  <2>2. UNCHANGED <<inquiring, scan, userStop, handle, paging, offered, accepted, refused>>
    BY <1>3 DEF ConnDone
  <2>3. \/ NoDevFromAddr(a) /\ UNCHANGED <<bt_dev, adv, abandoned>>
        \/ /\ \E i \in Dev :
                /\ DevFromAddr(i, a)
                /\ bt_dev' = [bt_dev EXCEPT ![i].acl_handle = Head(evtq).h, ![i].pkt_retry = 0]
           /\ adv' = FALSE /\ abandoned' = abandoned \ {a}
    BY <1>3 DEF ConnDone
  <2> QED  BY <1>1, <1>2, <1>3, <2>1, <2>2, <2>3
<1>4. CASE LeConnDone(a)
  <2>1. ASSUME NEW i \in Dev, DevFromAddr(i, a),
               bt_dev' = [bt_dev EXCEPT ![i].acl_handle = Head(evtq).h,
                                        ![i].pkt_retry = 0, ![i].ble = TRUE]
        PROVE  \E j \in Dev : DevFromAddr(j, a) /\ SlotLinked(j, Head(evtq).h)
    BY <2>1, SlotEffects
  <2>2. UNCHANGED <<inquiring, userStop, handle, paging, offered, accepted, refused, adv>>
    BY <1>4 DEF LeConnDone, linkVars
  <2>3. \/ NoDevFromAddr(a) /\ UNCHANGED <<bt_dev, scan, abandoned>>
        \/ /\ \E i \in Dev :
                /\ DevFromAddr(i, a)
                /\ bt_dev' = [bt_dev EXCEPT ![i].acl_handle = Head(evtq).h,
                                            ![i].pkt_retry = 0, ![i].ble = TRUE]
           /\ scan' = "active" /\ abandoned' = abandoned \ {a}
    BY <1>4 DEF LeConnDone
  <2> QED  BY <1>1, <1>2, <1>4, <2>1, <2>2, <2>3
<1> QED
  BY <1>3, <1>4

(* The end of a link frees the slot that has its handle.                   *)
LEMMA DisconnEffect ==
  ASSUME TypeOK, NEW h \in Handles, Disconn(h)
  PROVE  /\ \/ /\ \E i \in Dev :
                    /\ DevFromHandle(i, h) /\ SlotFreed(i)
                    /\ abandoned' = abandoned \cup {a \in Peers : HasAddr(i, a) /\ OnItsWay(a)}
               /\ (adv' = adv /\ ~NoActive(bt_dev')) \/ (adv' = TRUE /\ NoActive(bt_dev'))
               /\ \/ StartInquiry
                  \/ UNCHANGED <<inquiring, userStop, scan>> /\ (~InqAuto \/ ~NoActive(bt_dev'))
            \/ /\ NoDevFromHandle(h) /\ SlotsSame
               /\ adv' = adv \/ (adv' = TRUE /\ NoActive(bt_dev'))
               /\ UNCHANGED <<inquiring, userStop, scan, abandoned>>
         /\ UNCHANGED <<handle, paging, offered, accepted, refused>>
<1>1. UNCHANGED linkVars /\ UNCHANGED refused
  BY DEF Disconn
<1>2. ASSUME NEW i \in Dev, DevFromHandle(i, h), bt_dev' = ResetDev(i),
             abandoned' = abandoned \cup {a \in Peers : HasAddr(i, a) /\ OnItsWay(a)},
             IF NoActive(ResetDev(i))
               THEN /\ adv' = TRUE
                    /\ IF InqAuto THEN StartInquiry ELSE UNCHANGED inqVars
               ELSE UNCHANGED <<adv, inqVars>>
      PROVE  /\ DevFromHandle(i, h) /\ SlotFreed(i)
             /\ abandoned' = abandoned \cup {a \in Peers : HasAddr(i, a) /\ OnItsWay(a)}
             /\ (adv' = adv /\ ~NoActive(bt_dev')) \/ (adv' = TRUE /\ NoActive(bt_dev'))
             /\ \/ StartInquiry
                \/ UNCHANGED <<inquiring, userStop, scan>> /\ (~InqAuto \/ ~NoActive(bt_dev'))
  <2>1. SlotFreed(i)
    BY <1>2, SlotEffects
  <2>2. /\ (adv' = adv /\ ~NoActive(bt_dev')) \/ (adv' = TRUE /\ NoActive(bt_dev'))
        /\ \/ StartInquiry
           \/ UNCHANGED inqVars /\ (~InqAuto \/ ~NoActive(bt_dev'))
    BY <1>2, Zenon
  <2>3. UNCHANGED inqVars => UNCHANGED <<inquiring, userStop, scan>>
    BY DEF inqVars
  <2> QED  BY <1>2, <2>1, <2>2, <2>3
<1>3. CASE NoDevFromHandle(h) /\ UNCHANGED <<bt_dev, inqVars, abandoned>>
           /\ (adv' = adv \/ (adv' = TRUE /\ NoActive(bt_dev)))
  <2>1. SlotsSame /\ UNCHANGED <<inquiring, userStop, scan, abandoned>>
        /\ (adv' = adv \/ (adv' = TRUE /\ NoActive(bt_dev')))
    BY <1>3 DEF SlotsSame, SameSlot, inqVars
  <2> QED  BY <1>1, <1>3, <2>1 DEF linkVars
<1>4. \/ \E i \in Dev :
           /\ DevFromHandle(i, h) /\ bt_dev' = ResetDev(i)
           /\ abandoned' = abandoned \cup {a \in Peers : HasAddr(i, a) /\ OnItsWay(a)}
           /\ IF NoActive(ResetDev(i))
                THEN /\ adv' = TRUE
                     /\ IF InqAuto THEN StartInquiry ELSE UNCHANGED inqVars
                ELSE UNCHANGED <<adv, inqVars>>
      \/ /\ NoDevFromHandle(h) /\ UNCHANGED <<bt_dev, inqVars, abandoned>>
         /\ (adv' = adv \/ (adv' = TRUE /\ NoActive(bt_dev)))
  BY DEF Disconn
<1>5. UNCHANGED <<handle, paging, offered, accepted, refused>>
  BY <1>1 DEF linkVars
<1> QED
  BY <1>2, <1>3, <1>4, <1>5, Zenon

(* Every other step leaves the slots alone.                                *)
LEMMA OtherEffect ==
  ASSUME \/ InquiryComplete
         \/ \E a \in ClassicPeers : NameDone(a)
         \/ \E h \in Handles : EncryptChange(h)
         \/ ButtonStep \/ ControllerStep \/ UNCHANGED vars
  PROVE  bt_dev' = bt_dev
BY DEF InquiryComplete, NameDone, EncryptChange, ButtonStep, BtnStopInquiry, BtnStopInquiryEnd,
       BtnStartInquiry, BtnStartInquiryEnd, BtnDisconnectAll, DisconnectNext, ControllerStep,
       CtlInquiryComplete, CtlInquiryResult, CtlConnRequest, CtlConnected, CtlPageFailed,
       CtlRequestFailed, CtlName, CtlAdvReport, CtlLeConn, CtlEncrypt, CtlClientConn, CtlLinkLoss,
       CtlDisconnect, ctlRest, hostVars, vars

-----------------------------------------------------------------------------
(* Inquiry, scanning and advertising follow the slots *)

(* A slot that some step leaves in use, or that a found slot turned into.  *)
LEMMA ActiveSlots ==
  ASSUME NEW i \in Dev
  PROVE  /\ \A a : SlotTaken(i, a) => ~NoActive(bt_dev')
         /\ DevFromAddr(i, bt_dev[i].bdaddr) => ~NoActive(bt_dev)
         /\ \A h : SlotLinked(i, h) /\ bt_dev[i].found => ~NoActive(bt_dev')
         /\ SlotsSame => (NoActive(bt_dev') <=> NoActive(bt_dev))
BY DEF SlotTaken, SlotLinked, SlotsSame, SameSlot, NoActive, DevFromAddr, HasAddr

(* Every step keeps an inquiry running while no slot is in use: one that   *)
(* frees the last slot starts it, one that stops it has a slot or is the   *)
(* user's.                                                                 *)
LEMMA IdleStep == TypeOK /\ AutoInquiryWhenIdle /\ [Next]_vars => AutoInquiryWhenIdle'
<1> SUFFICES ASSUME TypeOK, AutoInquiryWhenIdle, [Next]_vars,
                    InqAuto, NoActive(bt_dev'), ~userStop'
             PROVE  inquiring'
  BY DEF AutoInquiryWhenIdle
<1>1. ASSUME SlotsSame \/ bt_dev' = bt_dev, UNCHANGED <<inquiring, userStop>>
      PROVE  inquiring'
  <2>1. NoActive(bt_dev)
    BY <1>1 DEF SlotsSame, SameSlot, NoActive
  <2> QED  BY <1>1, <2>1 DEF AutoInquiryWhenIdle
<1>2. UNCHANGED inqVars => UNCHANGED <<inquiring, userStop>>
  BY DEF inqVars
<1>3. StartInquiry => inquiring'
  BY DEF StartInquiry
<1>4. ASSUME NEW a \in Peers, InquiryResult(a) \/ ConnRequest(a) \/ AdvReport(a)
      PROVE  inquiring'
  <2>1. UNCHANGED <<inquiring, userStop>>
    BY <1>4 DEF InquiryResult, ConnRequest, AdvReport, inqVars
  <2>2. CASE \E i \in Dev : SlotTaken(i, a)
    BY <2>2, ActiveSlots
  <2> QED  BY <1>1, <1>4, <2>1, <2>2, AnnounceEffect
<1>5. ASSUME NEW a \in Peers, ConnFailed(a) \/ LeConnFailed(a) \/ NameFailed(a)
      PROVE  inquiring'
  BY <1>1, <1>2, <1>3, <1>5, FailureEffect
<1>6. ASSUME NEW a \in Addrs, ConnDone(a) \/ LeConnDone(a)
      PROVE  inquiring'
  <2>1. UNCHANGED <<inquiring, userStop>>
    BY <1>6, LinkUpEffect
  <2>2. ASSUME NEW i \in Dev, DevFromAddr(i, a), SlotLinked(i, Head(evtq).h)
        PROVE  FALSE
    BY <2>2 DEF DevFromAddr, HasAddr, SlotLinked, NoActive
  <2> QED  BY <1>1, <1>6, <2>1, <2>2, LinkUpEffect
<1>7. ASSUME NEW h \in Handles, Disconn(h)
      PROVE  inquiring'
  BY <1>1, <1>3, <1>7, DisconnEffect
<1>8. CASE InquiryComplete
  <2>1. bt_dev' = bt_dev /\ userStop' = userStop
    BY <1>8 DEF InquiryComplete, hostVars
  <2>2. inquiring' = inquiring
    BY <1>8, <2>1 DEF InquiryComplete
  <2> QED  BY <1>1, <2>1, <2>2
<1>9. ASSUME NEW a \in ClassicPeers, NameDone(a) PROVE inquiring'
  <2>1. bt_dev' = bt_dev
    BY <1>9, OtherEffect
  <2>2. NoDevFromAddr(a)
    BY <2>1 DEF NoDevFromAddr, NoActive, HasAddr
  <2> QED  BY <1>1, <1>2, <1>9, <2>1, <2>2 DEF NameDone
<1>10. ASSUME NEW h \in Handles, EncryptChange(h) PROVE inquiring'
  <2>1. bt_dev' = bt_dev
    BY <1>10, OtherEffect
  <2> QED  BY <1>1, <1>2, <1>10, <2>1 DEF EncryptChange
<1>11. CASE ButtonStep
  <2>1. bt_dev' = bt_dev
    BY <1>11, OtherEffect
  <2>2. \/ userStop' \/ inquiring' \/ UNCHANGED <<inquiring, userStop>>
    BY <1>11 DEF ButtonStep, BtnStopInquiry, BtnStopInquiryEnd, BtnStartInquiry,
                 BtnStartInquiryEnd, BtnDisconnectAll, DisconnectNext, inqVars
  <2> QED  BY <1>1, <2>1, <2>2
<1>12. CASE ControllerStep
  <2>1. bt_dev' = bt_dev
    BY <1>12, OtherEffect
  <2>2. UNCHANGED inqVars
    BY <1>12
    DEF ControllerStep, CtlInquiryComplete, CtlInquiryResult, CtlConnRequest, CtlConnected,
        CtlPageFailed, CtlRequestFailed, CtlName, CtlAdvReport, CtlLeConn, CtlEncrypt,
        CtlClientConn, CtlLinkLoss, CtlDisconnect, ctlRest
  <2> QED  BY <1>1, <1>2, <2>1, <2>2
<1>13. CASE UNCHANGED vars
  <2>1. bt_dev' = bt_dev /\ UNCHANGED inqVars
    BY <1>13 DEF vars, hostVars
  <2> QED  BY <1>1, <1>2, <2>1
<1> QED
  <2>1. ClassicPeers \subseteq Peers /\ LePeers \subseteq Peers
        /\ Peers \subseteq Addrs /\ Clients \subseteq Addrs
    BY DEF Peers, Addrs
  <2> QED
    BY <1>4, <1>5, <1>6, <1>7, <1>8, <1>9, <1>10, <1>11, <1>12, <1>13, <2>1 DEF Next, HostStep

(* Whatever way its last device went - a failed page, a name that was never *)
(* told, a lost link, the button - an idle adapter in INQ_AUTO mode is      *)
(* looking for one.                                                         *)
THEOREM IdleLooks == Spec => []AutoInquiryWhenIdle
<1>1. Init => AutoInquiryWhenIdle
  BY DEF Init, AutoInquiryWhenIdle
<1> QED
  BY <1>1, IdleStep, TypeCorrect, PTL DEF Spec

(* Advertising on means more than RadioDuties says: the end of an LE page  *)
(* does not turn it off, so it must be off from the report that starts the *)
(* page.                                                                   *)
AdvOffInTime == adv => \A i \in Dev : bt_dev[i].found => /\ bt_dev[i].acl_handle = 0
                                                        /\ bt_dev[i].bdaddr \notin LePeers

RadioIInv == RadioDuties /\ AdvOffInTime

(* Giving up an LE peer turns LE scanning on again.                        *)
LEMMA LeFailureScan ==
  ASSUME TypeOK, NEW a \in LePeers, LeConnFailed(a)
  PROVE  scan' # "off" \/ (SlotsSame /\ UNCHANGED inqVars)
<1>1. ASSUME NEW i \in Dev, ConnRetry(i, a) PROVE SlotsSame
  <2>1. bt_dev' = [bt_dev EXCEPT ![i].pkt_retry = @ + 1]
    BY <1>1 DEF ConnRetry
  <2> QED  BY <2>1, SlotEffects
<1>2. bt_dev' = bt_dev => SlotsSame
  BY DEF SlotsSame, SameSlot
<1>3. \/ UNCHANGED <<bt_dev, inqVars>>
      \/ \E i \in Dev : ConnRetry(i, a) /\ UNCHANGED inqVars
      \/ StartInquiry \/ scan' = "passive"
  BY DEF LeConnFailed
<1>4. StartInquiry \/ scan' = "passive" => scan' # "off"
  BY DEF StartInquiry
<1> QED
  BY <1>1, <1>2, <1>3, <1>4

(* Every step keeps the duties of the radio: LE scanning is off only while *)
(* an LE peer is paged, advertising on only while nothing is connected.    *)
LEMMA RadioStep == TypeOK /\ RadioIInv /\ [Next]_vars => RadioIInv'
<1> DEFINE LePaged(d) == \E i \in Dev : /\ d[i].found /\ d[i].acl_handle = 0
                                       /\ d[i].bdaddr \in LePeers
           AdvMay(d) == \A i \in Dev : d[i].found => /\ d[i].acl_handle = 0
                                                     /\ d[i].bdaddr \notin LePeers
<1> SUFFICES ASSUME TypeOK, RadioIInv, [Next]_vars
             PROVE  (scan' = "off" => LePaged(bt_dev')) /\ (adv' => AdvMay(bt_dev'))
  BY DEF RadioIInv, RadioDuties, AdvOffInTime
<1>a. (scan = "off" => LePaged(bt_dev)) /\ (adv => AdvMay(bt_dev))
  BY DEF RadioIInv, RadioDuties, AdvOffInTime
<1>b. ClassicPeers \cap LePeers = {}
  BY DevLinksAssumption
<1>1. ASSUME SlotsSame \/ bt_dev' = bt_dev, scan' = scan \/ scan' # "off",
             adv' = adv \/ ~adv' \/ NoActive(bt_dev')
      PROVE  (scan' = "off" => LePaged(bt_dev')) /\ (adv' => AdvMay(bt_dev'))
  <2>1. \A j \in Dev : SameSlot(j)
    BY <1>1 DEF SlotsSame, SameSlot
  <2>2. LePaged(bt_dev) => LePaged(bt_dev')
    BY <2>1 DEF SameSlot
  <2>3. AdvMay(bt_dev) => AdvMay(bt_dev')
    BY <2>1 DEF SameSlot
  <2>4. NoActive(bt_dev') => AdvMay(bt_dev')
    BY DEF NoActive
  <2> QED  BY <1>1, <1>a, <2>2, <2>3, <2>4
<1>2. ASSUME NEW i \in Dev, SlotFreed(i),
             scan' = scan \/ scan' # "off",
             scan' = "off" => ~(bt_dev[i].acl_handle = 0 /\ bt_dev[i].bdaddr \in LePeers),
             adv' = adv \/ NoActive(bt_dev')
      PROVE  (scan' = "off" => LePaged(bt_dev')) /\ (adv' => AdvMay(bt_dev'))
  <2>1. ASSUME scan' = "off" PROVE LePaged(bt_dev')
    <3>1. PICK j \in Dev : bt_dev[j].found /\ bt_dev[j].acl_handle = 0
                           /\ bt_dev[j].bdaddr \in LePeers
      BY <1>2, <1>a, <2>1
    <3>2. j # i
      BY <1>2, <2>1, <3>1
    <3> QED  BY <1>2, <3>1, <3>2 DEF SlotFreed, OthersSame, SameSlot
  <2>2. AdvMay(bt_dev) => AdvMay(bt_dev')
    BY <1>2 DEF SlotFreed, OthersSame, SameSlot
  <2>3. NoActive(bt_dev') => AdvMay(bt_dev')
    BY DEF NoActive
  <2> QED  BY <1>2, <1>a, <2>1, <2>2, <2>3
<1>3. UNCHANGED inqVars => scan' = scan
  BY DEF inqVars
<1>4. StartInquiry \/ StopInquiry => scan' # "off"
  BY DEF StartInquiry, StopInquiry
<1>5. ASSUME NEW a \in ClassicPeers, InquiryResult(a) \/ ConnRequest(a)
      PROVE  (scan' = "off" => LePaged(bt_dev')) /\ (adv' => AdvMay(bt_dev'))
  <2>1. UNCHANGED <<scan, adv>>
    BY <1>5 DEF InquiryResult, ConnRequest, inqVars
  <2>2. CASE bt_dev' = bt_dev
    BY <1>1, <2>1, <2>2
  <2>3. ASSUME NEW i \in Dev, SlotTaken(i, a)
        PROVE  (scan' = "off" => LePaged(bt_dev')) /\ (adv' => AdvMay(bt_dev'))
    <3>1. LePaged(bt_dev) => LePaged(bt_dev')
      BY <2>3 DEF SlotTaken, OthersSame, SameSlot
    <3>2. AdvMay(bt_dev) => AdvMay(bt_dev')
      BY <1>b, <2>3 DEF SlotTaken, OthersSame, SameSlot
    <3> QED  BY <1>a, <2>1, <3>1, <3>2
  <2>4. a \in Peers
    BY DEF Peers
  <2> QED  BY <1>5, <2>2, <2>3, <2>4, AnnounceEffect
<1>6. ASSUME NEW a \in LePeers, AdvReport(a)
      PROVE  (scan' = "off" => LePaged(bt_dev')) /\ (adv' => AdvMay(bt_dev'))
  <2>1. a \in Peers
    BY DEF Peers
  <2>2. CASE bt_dev' = bt_dev /\ UNCHANGED <<scan, adv>>
    BY <1>1, <2>2
  <2>3. CASE (\E i \in Dev : SlotTaken(i, a)) /\ adv' = FALSE
    BY <2>3 DEF SlotTaken
  <2> QED  BY <1>6, <2>1, <2>2, <2>3, AnnounceEffect
<1>7. ASSUME NEW a \in Peers, ConnFailed(a) \/ LeConnFailed(a) \/ NameFailed(a),
             LeConnFailed(a) => a \in LePeers, ~LeConnFailed(a) => a \in ClassicPeers
      PROVE  (scan' = "off" => LePaged(bt_dev')) /\ (adv' => AdvMay(bt_dev'))
  <2>1. UNCHANGED adv
    BY <1>7 DEF ConnFailed, LeConnFailed, NameFailed
  <2>2. CASE SlotsSame /\ UNCHANGED inqVars
    BY <1>1, <1>3, <2>1, <2>2
  <2>3. ASSUME NEW i \in Dev, DevFromAddr(i, a), SlotFreed(i),
               scan' = scan \/ scan' # "off"
        PROVE  (scan' = "off" => LePaged(bt_dev')) /\ (adv' => AdvMay(bt_dev'))
    <3>1. bt_dev[i].bdaddr = a
      BY <2>3 DEF DevFromAddr, HasAddr
    <3>2. CASE LeConnFailed(a)
      <4>1. CASE scan' # "off"
        BY <1>2, <2>1, <2>3, <4>1
      <4>2. CASE SlotsSame /\ UNCHANGED inqVars
        BY <2>2, <4>2
      <4>3. a \in LePeers
        BY <1>7, <3>2
      <4> QED  BY <3>2, <4>1, <4>2, <4>3, LeFailureScan
    <3>3. CASE ~LeConnFailed(a)
      <4>1. bt_dev[i].bdaddr \notin LePeers
        BY <1>7, <1>b, <3>1, <3>3
      <4> QED  BY <1>2, <2>1, <2>3, <4>1
    <3> QED  BY <3>2, <3>3
  <2>4. \/ SlotsSame /\ UNCHANGED inqVars
        \/ /\ \E i \in Dev : DevFromAddr(i, a) /\ SlotFreed(i)
           /\ scan' = scan \/ scan' # "off"
    <3>1. scan' = "passive" => scan' # "off"
      OBVIOUS
    <3> QED  BY <1>4, <1>7, <3>1, FailureEffect
  <2> QED  BY <2>2, <2>3, <2>4
<1>8. ASSUME NEW a \in Addrs, ConnDone(a) \/ LeConnDone(a), ConnDone(a) => a \in ClassicPeers,
             LeConnDone(a) => a \in LePeers \cup Clients
      PROVE  (scan' = "off" => LePaged(bt_dev')) /\ (adv' => AdvMay(bt_dev'))
  <2>1. CASE SlotsSame /\ UNCHANGED <<adv, scan>>
    BY <1>1, <2>1
  <2>2. ASSUME NEW i \in Dev, DevFromAddr(i, a), SlotLinked(i, Head(evtq).h), ConnDone(a),
               adv' = FALSE, UNCHANGED scan
        PROVE  (scan' = "off" => LePaged(bt_dev')) /\ (adv' => AdvMay(bt_dev'))
    <3>1. bt_dev[i].bdaddr \notin LePeers
      BY <1>8, <1>b, <2>2 DEF DevFromAddr, HasAddr
    <3>2. LePaged(bt_dev) => LePaged(bt_dev')
      BY <2>2, <3>1 DEF SlotLinked, OthersSame, SameSlot
    <3> QED  BY <1>a, <2>2, <3>2
  <2>3. ASSUME NEW i \in Dev, DevFromAddr(i, a), SlotLinked(i, Head(evtq).h), LeConnDone(a),
               scan' = "active", UNCHANGED adv
        PROVE  (scan' = "off" => LePaged(bt_dev')) /\ (adv' => AdvMay(bt_dev'))
    <3>1. ~adv
      <4>1. SUFFICES ASSUME adv PROVE FALSE
        OBVIOUS
      <4>2. a \notin LePeers
        BY <1>a, <2>3, <4>1 DEF DevFromAddr, HasAddr
      <4>3. a \in Peers
        <5>1. bt_dev[i].bdaddr \in Peers \cup {NoAddr}
          BY DEF TypeOK, DevRec
        <5>2. a # NoAddr
          BY DevLinksAssumption
        <5> QED  BY <2>3, <5>1, <5>2 DEF DevFromAddr, HasAddr
      <4>4. a \in Clients
        BY <1>8, <2>3, <4>2
      <4> QED  BY <4>3, <4>4, DevLinksAssumption
    <3> QED  BY <2>3, <3>1
  <2>5. \/ SlotsSame /\ UNCHANGED <<adv, scan>>
        \/ /\ \E i \in Dev : DevFromAddr(i, a) /\ SlotLinked(i, Head(evtq).h)
           /\ ConnDone(a) => adv' = FALSE /\ UNCHANGED scan
           /\ LeConnDone(a) => scan' = "active" /\ UNCHANGED adv
    BY <1>8, LinkUpEffect
  <2> HIDE DEF LePaged, AdvMay
  <2> QED  BY <1>8, <2>1, <2>2, <2>3, <2>5
<1>9. ASSUME NEW h \in Handles, Disconn(h)
      PROVE  (scan' = "off" => LePaged(bt_dev')) /\ (adv' => AdvMay(bt_dev'))
  <2>1. CASE /\ SlotsSame
             /\ adv' = adv \/ (adv' = TRUE /\ NoActive(bt_dev'))
             /\ UNCHANGED scan
    BY <1>1, <2>1
  <2>2. ASSUME NEW i \in Dev, DevFromHandle(i, h), SlotFreed(i),
               scan' = scan \/ scan' # "off", adv' = adv \/ NoActive(bt_dev')
        PROVE  (scan' = "off" => LePaged(bt_dev')) /\ (adv' => AdvMay(bt_dev'))
    <3>1. bt_dev[i].acl_handle # 0
      BY <2>2, DevLinksAssumption DEF DevFromHandle, HasHandle
    <3> QED  BY <1>2, <2>2, <3>1
  <2>3. StartInquiry => scan' # "off"
    BY <1>4
  <2> QED  BY <1>9, <2>1, <2>2, <2>3, DisconnEffect
<1>10. CASE InquiryComplete
  <2>1. bt_dev' = bt_dev /\ adv' = adv
    BY <1>10 DEF InquiryComplete, hostVars
  <2>2. scan' = scan \/ scan' = "passive"
    BY <1>10 DEF InquiryComplete
  <2> QED  BY <1>1, <2>1, <2>2
<1>11. ASSUME NEW a \in ClassicPeers, NameDone(a)
       PROVE  (scan' = "off" => LePaged(bt_dev')) /\ (adv' => AdvMay(bt_dev'))
  <2>1. bt_dev' = bt_dev /\ adv' = adv
    BY <1>11 DEF NameDone, hostVars
  <2>2. scan' = scan \/ scan' # "off"
    BY <1>3, <1>4, <1>11 DEF NameDone
  <2> QED  BY <1>1, <2>1, <2>2
<1>12. ASSUME NEW h \in Handles, EncryptChange(h)
       PROVE  (scan' = "off" => LePaged(bt_dev')) /\ (adv' => AdvMay(bt_dev'))
  <2>1. bt_dev' = bt_dev /\ adv' = adv /\ scan' = scan
    BY <1>12 DEF EncryptChange, hostVars, inqVars
  <2> QED  BY <1>1, <2>1
<1>13. CASE ButtonStep
  <2>1. bt_dev' = bt_dev
    BY <1>13, OtherEffect
  <2>2. adv' = adv /\ (scan' = scan \/ scan' = "passive" \/ scan' = "active")
    BY <1>13 DEF ButtonStep, BtnStopInquiry, BtnStopInquiryEnd, BtnStartInquiry,
                 BtnStartInquiryEnd, BtnDisconnectAll, DisconnectNext, inqVars
  <2> QED  BY <1>1, <2>1, <2>2
<1>14. CASE ControllerStep
  <2>1. bt_dev' = bt_dev
    BY <1>14, OtherEffect
  <2>2. UNCHANGED inqVars /\ (adv' = adv \/ adv' = FALSE)
    BY <1>14
    DEF ControllerStep, CtlInquiryComplete, CtlInquiryResult, CtlConnRequest, CtlConnected,
        CtlPageFailed, CtlRequestFailed, CtlName, CtlAdvReport, CtlLeConn, CtlEncrypt,
        CtlClientConn, CtlLinkLoss, CtlDisconnect, ctlRest
  <2> QED  BY <1>1, <1>3, <2>1, <2>2
<1>15. CASE UNCHANGED vars
  <2>1. bt_dev' = bt_dev /\ adv' = adv /\ scan' = scan
    BY <1>15 DEF vars, hostVars, inqVars
  <2> QED  BY <1>1, <2>1
<1> QED
  <2>1. /\ ClassicPeers \subseteq Peers /\ LePeers \subseteq Peers
        /\ Peers \subseteq Addrs /\ Clients \subseteq Addrs
    BY DEF Peers, Addrs
  <2>2. \A a : /\ ~(LeConnFailed(a) /\ (ConnFailed(a) \/ NameFailed(a)))
               /\ ~(ConnDone(a) /\ LeConnDone(a))
    BY DEF ConnFailed, NameFailed, LeConnFailed, ConnDone, LeConnDone, Receive
  <2>3. ASSUME HostStep PROVE (scan' = "off" => LePaged(bt_dev')) /\ (adv' => AdvMay(bt_dev'))
    <3>1. ASSUME NEW a \in ClassicPeers,
                 \/ InquiryResult(a) \/ ConnRequest(a) \/ ConnFailed(a)
                 \/ ConnDone(a) \/ NameFailed(a) \/ NameDone(a)
          PROVE  (scan' = "off" => LePaged(bt_dev')) /\ (adv' => AdvMay(bt_dev'))
      BY <1>5, <1>7, <1>8, <1>11, <2>1, <2>2, <3>1
    <3>2. ASSUME NEW a \in LePeers, AdvReport(a) \/ LeConnFailed(a)
          PROVE  (scan' = "off" => LePaged(bt_dev')) /\ (adv' => AdvMay(bt_dev'))
      BY <1>6, <1>7, <2>1, <2>2, <3>2
    <3>3. ASSUME NEW a \in LePeers \cup Clients, LeConnDone(a)
          PROVE  (scan' = "off" => LePaged(bt_dev')) /\ (adv' => AdvMay(bt_dev'))
      BY <1>8, <2>1, <2>2, <3>3
    <3> QED  BY <1>9, <1>10, <1>12, <2>3, <3>1, <3>2, <3>3 DEF HostStep
  <2> QED
    BY <1>13, <1>14, <1>15, <2>3 DEF Next

(* LE scanning is off only while an LE peer is being connected, and the     *)
(* config interface is not advertised while a controller is connected,      *)
(* through every crossing of reports, failures and disconnections.          *)
THEOREM RadioFollows == Spec => []RadioDuties
<1>1. Init => RadioIInv
  BY DEF Init, RadioIInv, RadioDuties, AdvOffInTime, FreeDev
<1>2. RadioIInv => RadioDuties
  BY DEF RadioIInv
<1> QED
  BY <1>1, <1>2, RadioStep, TypeCorrect, PTL DEF Spec

-----------------------------------------------------------------------------
(* The queue of events *)

ConnEvents == {"conn_complete", "le_conn_complete"}

(* The controller adds at the end of the queue, the host takes the head.   *)
LEMMA EmitFacts ==
  ASSUME TypeOK, NEW e \in EventRec, Emit(e)
  PROVE  /\ Len(evtq) \in Nat /\ Len(evtq') = Len(evtq) + 1
         /\ \A n \in 1..Len(evtq) : evtq'[n] = evtq[n]
         /\ evtq'[Len(evtq) + 1] = e
BY AppendProperties, LenProperties DEF TypeOK, Emit

(* Taking an event shifts the others forward by one place. *)
LEMMA ReceiveFacts ==
  ASSUME TypeOK, NEW ev, Receive(ev)
  PROVE  /\ Len(evtq) \in Nat /\ Len(evtq) >= 1 /\ Len(evtq') = Len(evtq) - 1
         /\ \A n \in 1..Len(evtq') : evtq'[n] = evtq[n + 1]
         /\ evtq[1] = Head(evtq) /\ evtq[1].ev = ev
<1>1. evtq \in Seq(EventRec) /\ evtq # <<>> /\ evtq' = Tail(evtq)
  BY DEF TypeOK, Receive
<1>2. Len(evtq) \in Nat /\ Len(evtq) # 0 /\ evtq[1] = Head(evtq) /\ evtq[1].ev = ev
  BY <1>1, HeadTailProperties, LenProperties, EmptySeq DEF Receive
<1>3. /\ Len(Tail(evtq)) = Len(evtq) - 1
      /\ \A n \in 1..Len(Tail(evtq)) : Tail(evtq)[n] = evtq[n + 1]
  BY <1>1, HeadTailProperties
<1> QED
  BY <1>1, <1>2, <1>3

(* What the controller may queue, and what it changes with it.             *)
Request(e) == /\ e.ev = "conn_request" /\ e.a \in offered'
              /\ offered \subseteq offered' /\ UNCHANGED <<paging, accepted, handle, abandoned>>

Ends(e) == /\ e.ev \in ConnEvents
           /\ paging \ {e.a} \subseteq paging' /\ paging' \subseteq paging
           /\ accepted \ {e.a} \subseteq accepted' /\ accepted' \subseteq accepted
           /\ offered \ {e.a} \subseteq offered'
           /\ e.ev # "conn_complete" => offered' = offered
           /\ UNCHANGED abandoned

LinkMade(e) == /\ Ends(e) /\ ~e.err
               /\ e.a \in Addrs /\ e.h \in FreeHandles
               /\ handle[e.a] = 0 \/ e.a \in paging \cap LePeers
               /\ e.a \in paging \cup accepted \cup Clients /\ e.a \notin paging'
               /\ handle' = [handle EXCEPT ![e.a] = e.h]

NotMade(e) == Ends(e) /\ e.err /\ UNCHANGED handle

LinkLost(a, e) == /\ e.ev = "disconn_complete" /\ e.h = handle[a] /\ handle[a] # 0
                  /\ handle' = [handle EXCEPT ![a] = 0]
                  /\ UNCHANGED <<paging, accepted, offered>>
                  /\ abandoned' = IF a \in paging \cup accepted THEN abandoned ELSE abandoned \ {a}

Chatter(e) == /\ e.ev \in {"inquiry_complete", "inquiry_result", "remote_name", "adv_report",
                          "encrypt_change"}
              /\ UNCHANGED <<paging, accepted, offered, handle, abandoned>>

Moves(e) == Emit(e) /\ (\/ Request(e) \/ LinkMade(e) \/ NotMade(e) \/ Chatter(e)
                        \/ \E a \in Addrs : LinkLost(a, e))

(* A step of the controller leaves the slots alone, and queues one event   *)
(* of the kinds above or changes neither links nor queue.                  *)
LEMMA ControllerMoves ==
  ASSUME TypeOK, ControllerStep
  PROVE  /\ UNCHANGED <<bt_dev, refused>>
         /\ \/ UNCHANGED <<paging, accepted, offered, handle, abandoned, evtq>>
            \/ \E e \in EventRec : Moves(e)
<1>1. UNCHANGED <<bt_dev, refused>>
  BY DEF ControllerStep, CtlInquiryComplete, CtlInquiryResult, CtlConnRequest, CtlConnected,
         CtlPageFailed, CtlRequestFailed, CtlName, CtlAdvReport, CtlLeConn, CtlEncrypt,
         CtlClientConn, CtlLinkLoss, CtlDisconnect, ctlRest, hostVars
<1>2. /\ \A a \in Peers : a \in Addrs /\ a \in Addrs \cup {NoAddr}
      /\ \A c \in Clients : c \in Addrs /\ c \in Addrs \cup {NoAddr}
      /\ ClassicPeers \subseteq Peers /\ LePeers \subseteq Peers
      /\ FreeHandles \subseteq Handles
      /\ 0 \in Handles \cup {0} /\ NoAddr \in Addrs \cup {NoAddr}
      /\ \A a \in Addrs : handle[a] \in Handles \cup {0}
  BY DEF Addrs, Peers, FreeHandles, TypeOK
<1>3. CASE CtlInquiryComplete
  <2> DEFINE e == Event("inquiry_complete", NoAddr, 0, FALSE)
  <2>1. e \in EventRec
    BY <1>2, EventType
  <2>2. Emit(e) /\ Chatter(e)
    BY <1>3 DEF CtlInquiryComplete, Chatter, Event, linkVars
  <2> QED  BY <1>1, <2>1, <2>2 DEF Moves
<1>4. ASSUME NEW a \in ClassicPeers, CtlInquiryResult(a)
      PROVE  \E e \in EventRec : Moves(e)
  <2> DEFINE e == Event("inquiry_result", a, 0, FALSE)
  <2>1. e \in EventRec
    BY <1>2, EventType
  <2>2. Emit(e) /\ Chatter(e)
    BY <1>4 DEF CtlInquiryResult, Chatter, Event, linkVars
  <2> QED  BY <2>1, <2>2 DEF Moves
<1>5. ASSUME NEW a \in ClassicPeers, CtlConnRequest(a)
      PROVE  \E e \in EventRec : Moves(e)
  <2> DEFINE e == Event("conn_request", a, 0, FALSE)
  <2>1. e \in EventRec
    BY <1>2, EventType
  <2>2. Emit(e) /\ Request(e)
    BY <1>5 DEF CtlConnRequest, Request, Event
  <2> QED  BY <2>1, <2>2 DEF Moves
<1>6. ASSUME NEW a \in ClassicPeers, CtlPageFailed(a) \/ CtlRequestFailed(a)
      PROVE  \E e \in EventRec : Moves(e)
  <2> DEFINE e == Event("conn_complete", a, 0, TRUE)
  <2>1. e \in EventRec
    BY <1>2, EventType
  <2>2. Emit(e) /\ NotMade(e)
    BY <1>6 DEF CtlPageFailed, CtlRequestFailed, NotMade, Ends, ConnEvents, Event
  <2> QED  BY <2>1, <2>2 DEF Moves
<1>7. ASSUME NEW a \in ClassicPeers, NEW h \in FreeHandles, CtlConnected(a, h)
      PROVE  \E e \in EventRec : Moves(e)
  <2> DEFINE e == Event("conn_complete", a, h, FALSE)
  <2>1. e \in EventRec
    BY <1>2, EventType
  <2>2. Emit(e) /\ LinkMade(e)
    BY <1>2, <1>7 DEF CtlConnected, LinkMade, Ends, ConnEvents, Event
  <2> QED  BY <2>1, <2>2 DEF Moves
<1>8. ASSUME NEW a \in ClassicPeers, NEW err \in BOOLEAN, CtlName(a, err)
      PROVE  \E e \in EventRec : Moves(e)
  <2> DEFINE e == Event("remote_name", a, 0, err)
  <2>1. e \in EventRec
    BY <1>2, EventType
  <2>2. Emit(e) /\ Chatter(e)
    BY <1>8 DEF CtlName, Chatter, Event
  <2> QED  BY <2>1, <2>2 DEF Moves
<1>9. ASSUME NEW a \in LePeers, CtlAdvReport(a)
      PROVE  \E e \in EventRec : Moves(e)
  <2> DEFINE e == Event("adv_report", a, 0, FALSE)
  <2>1. e \in EventRec
    BY <1>2, EventType
  <2>2. Emit(e) /\ Chatter(e)
    BY <1>9 DEF CtlAdvReport, Chatter, Event, linkVars
  <2> QED  BY <2>1, <2>2 DEF Moves
<1>10. ASSUME NEW a \in LePeers, NEW err \in BOOLEAN, CtlEncrypt(a, err)
       PROVE  \E e \in EventRec : Moves(e)
  <2> DEFINE e == Event("encrypt_change", a, handle[a], err)
  <2>1. e \in EventRec
    BY <1>2, EventType
  <2>2. Emit(e) /\ Chatter(e)
    BY <1>10 DEF CtlEncrypt, Chatter, Event, linkVars
  <2> QED  BY <2>1, <2>2 DEF Moves
<1>11. ASSUME NEW a \in LePeers, NEW h \in FreeHandles, NEW err \in BOOLEAN, CtlLeConn(a, h, err)
       PROVE  \E e \in EventRec : Moves(e)
  <2>1. CASE err
    <3> DEFINE e == Event("le_conn_complete", a, 0, TRUE)
    <3>1. e \in EventRec
      BY <1>2, EventType
    <3>2. Emit(e)
      BY <1>11, <2>1, Zenon DEF CtlLeConn
    <3>3. NotMade(e)
      BY <1>11, <2>1 DEF CtlLeConn, NotMade, Ends, ConnEvents, Event
    <3> QED  BY <3>1, <3>2, <3>3 DEF Moves
  <2>2. CASE ~err
    <3> DEFINE e == Event("le_conn_complete", a, h, FALSE)
    <3>1. e \in EventRec
      BY <1>2, EventType
    <3>2. Emit(e)
      BY <1>11, <2>2, Zenon DEF CtlLeConn
    <3>3. LinkMade(e)
      BY <1>2, <1>11, <2>2 DEF CtlLeConn, LinkMade, Ends, ConnEvents, Event
    <3> QED  BY <3>1, <3>2, <3>3 DEF Moves
  <2> QED  BY <2>1, <2>2
<1>12. ASSUME NEW c \in Clients, NEW h \in FreeHandles, CtlClientConn(c, h)
       PROVE  \E e \in EventRec : Moves(e)
  <2> DEFINE e == Event("le_conn_complete", c, h, FALSE)
  <2>1. e \in EventRec
    BY <1>2, EventType
  <2>2. Emit(e) /\ LinkMade(e)
    <3>1. c \notin paging
      BY DevLinksAssumption DEF TypeOK
    <3> QED  BY <1>2, <1>12, <3>1 DEF CtlClientConn, LinkMade, Ends, ConnEvents, Event
  <2> QED  BY <2>1, <2>2 DEF Moves
<1>13. ASSUME NEW a \in Addrs, handle[a] # 0, LinkDown(a), UNCHANGED <<paging, accepted, offered>>
       PROVE  \E e \in EventRec : Moves(e)
  <2> DEFINE e == Event("disconn_complete", NoAddr, handle[a], FALSE)
  <2>1. e \in EventRec
    BY <1>2, EventType
  <2>2. Emit(e) /\ LinkLost(a, e)
    BY <1>13 DEF LinkDown, LinkLost, Event
  <2> QED  BY <2>1, <2>2 DEF Moves
<1>14. ASSUME NEW a \in Addrs, CtlLinkLoss(a)
       PROVE  \E e \in EventRec : Moves(e)
  BY <1>13, <1>14 DEF CtlLinkLoss
<1>15. ASSUME NEW h \in Handles, CtlDisconnect(h)
       PROVE  \/ UNCHANGED <<paging, accepted, offered, handle, abandoned, evtq>>
              \/ \E e \in EventRec : Moves(e)
  <2>1. h # 0
    BY DevLinksAssumption
  <2>2. UNCHANGED <<paging, accepted, offered>>
    BY <1>15 DEF CtlDisconnect
  <2>3. CASE \E a \in Addrs : handle[a] = h /\ LinkDown(a)
    BY <1>13, <2>1, <2>2, <2>3
  <2>4. CASE UNCHANGED <<handle, evtq, abandoned>>
    BY <2>2, <2>4
  <2> QED  BY <1>15, <2>3, <2>4 DEF CtlDisconnect
<1> QED
  BY <1>1, <1>3, <1>4, <1>5, <1>6, <1>7, <1>8, <1>9, <1>10, <1>11, <1>12, <1>14, <1>15
  DEF ControllerStep
-----------------------------------------------------------------------------
(* A slot without a handle is waiting for something that will come *)

(* The end of a connection attempt for a is under way to the host.         *)
EndComing(a) == \E n \in 1..Len(evtq) : evtq[n].ev \in ConnEvents /\ evtq[n].a = a

Waiting(a) == a \in paging \cup accepted \cup refused \/ EndComing(a)

(* A request the host has not seen yet can still be accepted, or its end   *)
(* comes right behind it.                                                  *)
RequestStands ==
  \A n \in 1..Len(evtq) :
    evtq[n].ev = "conn_request" =>
      \/ evtq[n].a \in offered
      \/ \E m \in 1..Len(evtq) : m > n /\ evtq[m].ev = "conn_complete" /\ evtq[m].a = evtq[n].a

(* A link that came up has a handle. *)
LinkHasHandle ==
  \A n \in 1..Len(evtq) : evtq[n].ev \in ConnEvents /\ ~evtq[n].err => evtq[n].h # 0

SlotIInv == SlotBacked /\ RequestStands /\ LinkHasHandle

(* SlotBacked in terms of Waiting, in a state and in the next. *)
LEMMA BackedIsWaiting ==
  SlotBacked <=> \A i \in Dev : bt_dev[i].found /\ bt_dev[i].acl_handle = 0
                                  => Waiting(bt_dev[i].bdaddr)
BY DEF SlotBacked, Waiting, EndComing, ConnEvents

LEMMA BackedIsWaitingNext ==
  SlotBacked' <=> \A i \in Dev : bt_dev'[i].found /\ bt_dev'[i].acl_handle = 0
                                  => Waiting(bt_dev[i].bdaddr)'
BY DEF SlotBacked, Waiting, EndComing, ConnEvents

(* What the controller queues leaves every peer that is waited for waited  *)
(* for.                                                                    *)
LEMMA EmitKeeps ==
  ASSUME TypeOK, SlotIInv, NEW e \in EventRec, Moves(e), UNCHANGED refused
  PROVE  /\ \A b : Waiting(b) => Waiting(b)'
         /\ RequestStands' /\ LinkHasHandle'
<1>1. /\ Len(evtq) \in Nat /\ Len(evtq') = Len(evtq) + 1
      /\ \A n \in 1..Len(evtq) : evtq'[n] = evtq[n]
      /\ evtq'[Len(evtq) + 1] = e
  BY EmitFacts DEF Moves
<1>2. \A n \in 1..Len(evtq) : n \in 1..Len(evtq')
  BY <1>1
<1>3. Len(evtq) + 1 \in 1..Len(evtq')
  BY <1>1
<1>4. \/ Request(e) \/ Ends(e)
      \/ Chatter(e) \/ \E a \in Addrs : LinkLost(a, e)
  BY DEF Moves, LinkMade, NotMade
<1>5. ASSUME NEW b, Waiting(b) PROVE Waiting(b)'
  <2>1. CASE EndComing(b)
    <3>1. PICK n \in 1..Len(evtq) : evtq[n].ev \in ConnEvents /\ evtq[n].a = b
      BY <2>1 DEF EndComing
    <3>2. n \in 1..Len(evtq') /\ evtq'[n] = evtq[n]
      BY <1>1, <1>2, <3>1
    <3>3. EndComing(b)'
      BY <3>1, <3>2 DEF EndComing
    <3> QED  BY <3>3 DEF Waiting
  <2>2. CASE b \in refused
    BY <2>2 DEF Waiting
  <2>3. CASE b \in paging \cup accepted /\ ~(Ends(e) /\ b = e.a)
    <3>1. b \in paging' \cup accepted'
      BY <1>4, <2>3 DEF Request, Ends, Chatter, LinkLost
    <3> QED  BY <3>1 DEF Waiting
  <2>4. CASE Ends(e) /\ b = e.a
    <3>1. EndComing(b)'
      BY <1>1, <1>3, <2>4 DEF EndComing, Ends
    <3> QED  BY <3>1 DEF Waiting
  <2> QED  BY <1>5, <2>1, <2>2, <2>3, <2>4 DEF Waiting
<1>6. ASSUME NEW n \in 1..Len(evtq'), evtq'[n].ev = "conn_request"
      PROVE  \/ evtq'[n].a \in offered'
             \/ \E m \in 1..Len(evtq') : m > n /\ evtq'[m].ev = "conn_complete"
                                         /\ evtq'[m].a = evtq'[n].a
  <2>1. CASE n \in 1..Len(evtq)
    <3>1. evtq'[n] = evtq[n]
      BY <1>1, <2>1
    <3>2. CASE evtq[n].a \in offered /\ evtq[n].a \notin offered'
      <4>1. e.ev = "conn_complete" /\ e.a = evtq[n].a
        BY <1>4, <3>2 DEF Request, Ends, Chatter, LinkLost
      <4>2. Len(evtq) + 1 > n
        BY <1>1, <2>1
      <4> QED  BY <1>1, <1>3, <3>1, <4>1, <4>2
    <3>3. CASE evtq[n].a \notin offered
      <4>1. PICK m \in 1..Len(evtq) : m > n /\ evtq[m].ev = "conn_complete" /\ evtq[m].a = evtq[n].a
        BY <1>6, <2>1, <3>1, <3>3 DEF SlotIInv, RequestStands
      <4>2. m \in 1..Len(evtq') /\ evtq'[m] = evtq[m]
        BY <1>1, <1>2
      <4> QED  BY <3>1, <4>1, <4>2
    <3> QED  BY <3>1, <3>2, <3>3
  <2>2. CASE n = Len(evtq) + 1
    BY <1>1, <1>4, <1>6, <2>2 DEF Request, Ends, ConnEvents, Chatter, LinkLost
  <2> QED  BY <1>1, <2>1, <2>2
<1>7. ASSUME NEW n \in 1..Len(evtq'), evtq'[n].ev \in ConnEvents, ~evtq'[n].err
      PROVE  evtq'[n].h # 0
  <2>1. CASE n \in 1..Len(evtq)
    BY <1>1, <1>7, <2>1 DEF SlotIInv, LinkHasHandle
  <2>2. CASE n = Len(evtq) + 1
    <3>1. LinkMade(e)
      BY <1>1, <1>7, <2>2 DEF Moves, Request, NotMade, Chatter, LinkLost, ConnEvents
    <3> QED  BY <1>1, <2>2, <3>1, DevLinksAssumption DEF LinkMade, FreeHandles
  <2> QED  BY <1>1, <2>1, <2>2
<1>8. RequestStands'
  BY <1>6 DEF RequestStands
<1>9. LinkHasHandle'
  BY <1>7 DEF LinkHasHandle
<1> QED
  BY <1>5, <1>8, <1>9

(* Taking an event takes away what is to come only for the peer whose      *)
(* connection event it is.                                                 *)
LEMMA ReceiveKeeps ==
  ASSUME TypeOK, SlotIInv, NEW ev, Receive(ev), UNCHANGED offered
  PROVE  /\ \A b : EndComing(b) /\ ~(ev \in ConnEvents /\ Head(evtq).a = b) => EndComing(b)'
         /\ RequestStands' /\ LinkHasHandle'
<1>1. /\ Len(evtq) \in Nat /\ Len(evtq) >= 1 /\ Len(evtq') = Len(evtq) - 1
      /\ \A n \in 1..Len(evtq') : evtq'[n] = evtq[n + 1]
      /\ evtq[1] = Head(evtq) /\ evtq[1].ev = ev
  BY ReceiveFacts
<1>2. ASSUME NEW n \in 1..Len(evtq), n # 1
      PROVE  /\ n - 1 \in 1..Len(evtq') /\ evtq'[n - 1] = evtq[n]
             /\ n \in Int
  <2>1. n - 1 \in 1..Len(evtq') /\ (n - 1) + 1 = n
    BY <1>1, <1>2
  <2> QED  BY <1>1, <2>1
<1>3. ASSUME NEW n \in 1..Len(evtq') PROVE n + 1 \in 1..Len(evtq) /\ n + 1 # 1
  BY <1>1
<1>4. ASSUME NEW b, EndComing(b), ~(ev \in ConnEvents /\ Head(evtq).a = b)
      PROVE  EndComing(b)'
  <2>1. PICK n \in 1..Len(evtq) : evtq[n].ev \in ConnEvents /\ evtq[n].a = b
    BY <1>4 DEF EndComing
  <2>2. n # 1
    BY <1>1, <1>4, <2>1
  <2> QED  BY <1>2, <2>1, <2>2 DEF EndComing
<1>5. ASSUME NEW n \in 1..Len(evtq'), evtq'[n].ev = "conn_request", evtq'[n].a \notin offered'
      PROVE  \E m \in 1..Len(evtq') : m > n /\ evtq'[m].ev = "conn_complete"
                                      /\ evtq'[m].a = evtq'[n].a
  <2>1. evtq'[n] = evtq[n + 1] /\ n + 1 \in 1..Len(evtq)
    BY <1>1, <1>3
  <2>2. PICK m \in 1..Len(evtq) : /\ m > n + 1 /\ evtq[m].ev = "conn_complete"
                                  /\ evtq[m].a = evtq[n + 1].a
    BY <1>5, <2>1 DEF SlotIInv, RequestStands
  <2>3. m - 1 > n /\ m # 1
    BY <1>1, <2>2
  <2>4. m - 1 \in 1..Len(evtq') /\ evtq'[m - 1] = evtq[m]
    BY <1>2, <2>3
  <2> QED  BY <2>1, <2>2, <2>3, <2>4
<1>6. RequestStands'
  BY <1>5 DEF RequestStands
<1>7. LinkHasHandle'
  BY <1>1, <1>3 DEF SlotIInv, LinkHasHandle
<1> QED
  BY <1>4, <1>6, <1>7

(* A create connection command is under way, or known to be refused. *)
LEMMA CreateConnWaits ==
  ASSUME NEW a, CreateConn(a)
  PROVE  /\ a \in paging' \cup refused'
         /\ \A b : b \in paging \cup refused => b \in paging' \cup refused'
BY DEF CreateConn, Refuses

(* Every event handler takes one event and leaves the requests offered.    *)
LEMMA HandlerReceives ==
  /\ \A a : /\ InquiryResult(a) => Receive("inquiry_result") /\ UNCHANGED <<offered, handle>>
            /\ ConnRequest(a) => Receive("conn_request") /\ UNCHANGED <<offered, handle>>
            /\ AdvReport(a) => Receive("adv_report") /\ UNCHANGED <<offered, handle>>
            /\ ConnFailed(a) => Receive("conn_complete") /\ UNCHANGED <<offered, accepted, handle>>
            /\ LeConnFailed(a) => Receive("le_conn_complete")
                                  /\ UNCHANGED <<offered, accepted, handle>>
            /\ NameFailed(a) => Receive("remote_name") /\ UNCHANGED <<offered, accepted, handle>>
            /\ NameDone(a) => Receive("remote_name")
            /\ ConnDone(a) => Receive("conn_complete") /\ UNCHANGED <<offered, accepted, handle>>
            /\ LeConnDone(a) => Receive("le_conn_complete")
                                /\ UNCHANGED <<offered, accepted, handle>>
            /\ \/ InquiryResult(a) \/ ConnRequest(a) \/ AdvReport(a) \/ ConnFailed(a)
               \/ LeConnFailed(a) \/ NameFailed(a) \/ NameDone(a) \/ ConnDone(a) \/ LeConnDone(a)
               => Head(evtq).a = a
            /\ ConnFailed(a) \/ LeConnFailed(a) \/ NameFailed(a) => Head(evtq).err
            /\ ConnDone(a) \/ LeConnDone(a) \/ NameDone(a) => ~Head(evtq).err
  /\ \A h : /\ Disconn(h) => Receive("disconn_complete")
            /\ EncryptChange(h) => Receive("encrypt_change")
            /\ Disconn(h) \/ EncryptChange(h) => Head(evtq).h = h
  /\ InquiryComplete => Receive("inquiry_complete")
BY DEF InquiryResult, ConnRequest, AdvReport, ConnFailed, LeConnFailed, NameFailed, NameDone,
       ConnDone, LeConnDone, Disconn, EncryptChange, InquiryComplete, linkVars

(* Every step keeps SlotIInv: one line per kind of step. *)
LEMMA BackedStep == TypeOK /\ UniqueBdaddr /\ SlotIInv /\ [Next]_vars => SlotIInv'
<1> SUFFICES ASSUME TypeOK, UniqueBdaddr, SlotIInv, [Next]_vars PROVE SlotIInv'
  OBVIOUS
<1>a. \A i \in Dev : bt_dev[i].found /\ bt_dev[i].acl_handle = 0 => Waiting(bt_dev[i].bdaddr)
  BY BackedIsWaiting DEF SlotIInv
<1>1. ASSUME \A i \in Dev : bt_dev'[i].found /\ bt_dev'[i].acl_handle = 0
                              => /\ bt_dev[i].found /\ bt_dev[i].acl_handle = 0
                                 /\ bt_dev'[i].bdaddr = bt_dev[i].bdaddr,
             \A b : Waiting(b) => Waiting(b)'
      PROVE  SlotBacked'
  <2>1. ASSUME NEW i \in Dev, bt_dev'[i].found, bt_dev'[i].acl_handle = 0
        PROVE  Waiting(bt_dev[i].bdaddr)'
    <3> DEFINE b == bt_dev[i].bdaddr
    <3>1. PICK c : c = b
      OBVIOUS
    <3>2. Waiting(c) /\ bt_dev'[i].bdaddr = c
      BY <1>1, <1>a, <2>1, <3>1
    <3>3. Waiting(c)'
      BY <1>1, <3>2
    <3> QED  BY <3>2, <3>3
  <2> QED  BY <2>1, BackedIsWaitingNext
<1>2. ASSUME SlotsSame \/ bt_dev' = bt_dev, \A b : Waiting(b) => Waiting(b)'
      PROVE  SlotBacked'
  BY <1>1, <1>2 DEF SlotsSame, SameSlot
<1>3. CASE ControllerStep
  <2>1. UNCHANGED <<bt_dev, refused>>
    BY <1>3, ControllerMoves
  <2>2. ASSUME UNCHANGED <<paging, accepted, offered, evtq>> PROVE SlotIInv'
    BY <2>1, <2>2 DEF SlotIInv, SlotBacked, RequestStands, LinkHasHandle
  <2>3. ASSUME NEW e \in EventRec, Moves(e) PROVE SlotIInv'
    BY <1>2, <2>1, <2>3, EmitKeeps DEF SlotIInv
  <2> QED  BY <1>3, <2>2, <2>3, ControllerMoves
<1>4. CASE ButtonStep \/ UNCHANGED vars
  <2>1. bt_dev' = bt_dev
    BY <1>4, OtherEffect
  <2>2. UNCHANGED <<paging, accepted, offered, evtq, refused>>
    BY <1>4 DEF ButtonStep, BtnStopInquiry, BtnStopInquiryEnd, BtnStartInquiry,
                BtnStartInquiryEnd, BtnDisconnectAll, DisconnectNext, linkVars, vars
  <2> QED  BY <2>1, <2>2 DEF SlotIInv, SlotBacked, RequestStands, LinkHasHandle
<1>5. ASSUME NEW ev, Receive(ev), UNCHANGED offered, ev \notin ConnEvents,
             \A b : b \in paging \cup accepted \cup refused
                      => b \in paging' \cup accepted' \cup refused'
      PROVE  (\A b : Waiting(b) => Waiting(b)') /\ RequestStands' /\ LinkHasHandle'
  <2>1. /\ \A b : EndComing(b) => EndComing(b)'
        /\ RequestStands' /\ LinkHasHandle'
    BY <1>5, ReceiveKeeps
  <2> QED  BY <1>5, <2>1 DEF Waiting
<1>6. ASSUME NEW a \in Peers, InquiryResult(a) \/ ConnRequest(a) \/ AdvReport(a)
      PROVE  SlotIInv'
  <2>1. PICK ev : Receive(ev) /\ ev \in {"inquiry_result", "conn_request", "adv_report"}
                  /\ (ConnRequest(a) => ev = "conn_request")
    BY <1>6, HandlerReceives
  <2>2. UNCHANGED offered /\ ev \notin ConnEvents /\ Head(evtq).a = a
    BY <1>6, <2>1, HandlerReceives DEF ConnEvents
  <2>3. accepted \subseteq accepted' /\ (~ConnRequest(a) => accepted' = accepted)
        /\ (ConnRequest(a) => UNCHANGED <<paging, refused>>)
        /\ (CreateConn(a) \/ UNCHANGED <<paging, refused>>)
    BY <1>6 DEF InquiryResult, ConnRequest, AdvReport
  <2>4. \A b : b \in paging \cup accepted \cup refused
                 => b \in paging' \cup accepted' \cup refused'
    BY <2>3, CreateConnWaits
  <2>5. (\A b : Waiting(b) => Waiting(b)') /\ RequestStands' /\ LinkHasHandle'
    BY <1>5, <2>1, <2>2, <2>4
  <2>6. CASE bt_dev' = bt_dev
    BY <1>2, <2>5, <2>6 DEF SlotIInv
  <2>7. ASSUME NEW i \in Dev, SlotTaken(i, a),
               ConnRequest(a) => accepted' = accepted \cup ({a} \cap offered),
               ~ConnRequest(a) => CreateConn(a)
        PROVE  SlotBacked'
    <3>1. Waiting(a)'
      <4>1. CASE ~ConnRequest(a)
        <5>1. a \in paging' \cup refused'
          BY <2>7, <4>1, CreateConnWaits
        <5> QED  BY <5>1 DEF Waiting
      <4>2. CASE ConnRequest(a) /\ a \in offered
        BY <2>7, <4>2 DEF Waiting
      <4>3. CASE ConnRequest(a) /\ a \notin offered
        <5>1. /\ Len(evtq) \in Nat /\ Len(evtq) >= 1 /\ Len(evtq') = Len(evtq) - 1
              /\ \A n \in 1..Len(evtq') : evtq'[n] = evtq[n + 1]
              /\ evtq[1] = Head(evtq) /\ evtq[1].ev = "conn_request"
          BY <2>1, <4>3, ReceiveFacts
        <5>2. 1 \in 1..Len(evtq) /\ evtq[1].a = a
          BY <2>2, <5>1
        <5>3. PICK m \in 1..Len(evtq) : m > 1 /\ evtq[m].ev = "conn_complete" /\ evtq[m].a = a
          BY <4>3, <5>1, <5>2 DEF SlotIInv, RequestStands
        <5>4. m - 1 \in 1..Len(evtq') /\ (m - 1) + 1 = m
          BY <5>1, <5>3
        <5>5. evtq'[m - 1] = evtq[m]
          BY <5>1, <5>4
        <5>6. EndComing(a)'
          BY <5>3, <5>4, <5>5 DEF EndComing, ConnEvents
        <5> QED  BY <5>6 DEF Waiting
      <4> QED  BY <4>1, <4>2, <4>3
    <3>2. ASSUME NEW j \in Dev, bt_dev'[j].found, bt_dev'[j].acl_handle = 0
          PROVE  Waiting(bt_dev[j].bdaddr)'
      <4>1. CASE j = i
        <5>1. bt_dev'[j].bdaddr = a
          BY <2>7, <4>1 DEF SlotTaken
        <5> QED  BY <3>1, <5>1
      <4>2. CASE j # i
        <5>1. PICK c : c = bt_dev[j].bdaddr
          OBVIOUS
        <5>2. bt_dev[j].found /\ bt_dev[j].acl_handle = 0 /\ bt_dev'[j].bdaddr = c
          BY <2>7, <3>2, <4>2, <5>1 DEF SlotTaken, OthersSame, SameSlot
        <5>3. Waiting(c)'
          BY <1>a, <2>5, <5>1, <5>2
        <5> QED  BY <5>2, <5>3
      <4> QED  BY <4>1, <4>2
    <3> QED  BY <3>2, BackedIsWaitingNext
  <2>8. \/ bt_dev' = bt_dev
        \/ /\ \E i \in Dev : SlotTaken(i, a)
           /\ ConnRequest(a) => accepted' = accepted \cup ({a} \cap offered)
           /\ ~ConnRequest(a) => CreateConn(a)
    BY <1>6, AnnounceEffect
  <2>9. SlotBacked'
    <3>1. CASE bt_dev' = bt_dev
      BY <1>2, <2>5, <3>1
    <3> QED  BY <2>7, <2>8, <3>1
  <2> QED  BY <2>5, <2>9 DEF SlotIInv
<1>7. ASSUME NEW a \in Peers, ConnFailed(a) \/ LeConnFailed(a) \/ NameFailed(a)
      PROVE  SlotIInv'
  <2>1. PICK ev : /\ Receive(ev) /\ ev \in ConnEvents \cup {"remote_name"}
                  /\ NameFailed(a) => ev = "remote_name"
    BY <1>7, HandlerReceives DEF ConnEvents
  <2>2. UNCHANGED <<offered, accepted>> /\ Head(evtq).a = a
    BY <1>7, HandlerReceives
  <2>3. /\ \A b : EndComing(b) /\ ~(ev \in ConnEvents /\ b = a) => EndComing(b)'
        /\ RequestStands' /\ LinkHasHandle'
    BY <2>1, <2>2, ReceiveKeeps
  <2>4. \A b : b \in paging \cup refused => b \in paging' \cup refused'
    BY <1>7, CreateConnWaits, FailureEffect
  <2>5. \A b : Waiting(b) /\ ~(ev \in ConnEvents /\ b = a) => Waiting(b)'
    BY <2>2, <2>3, <2>4 DEF Waiting
  <2>6. ASSUME \A j \in Dev : bt_dev'[j].found => SameSlot(j),
               \A j \in Dev : bt_dev'[j].found /\ bt_dev[j].bdaddr = a /\ ev \in ConnEvents
                              => a \in paging' \cup refused'
        PROVE  SlotBacked'
    <3>1. ASSUME NEW j \in Dev, bt_dev'[j].found, bt_dev'[j].acl_handle = 0
          PROVE  Waiting(bt_dev[j].bdaddr)'
      <4>1. PICK c : c = bt_dev[j].bdaddr
        OBVIOUS
      <4>2. bt_dev[j].found /\ bt_dev[j].acl_handle = 0 /\ bt_dev'[j].bdaddr = c
        BY <2>6, <3>1, <4>1 DEF SameSlot
      <4>3. CASE ev \in ConnEvents /\ c = a
        <5>1. a \in paging' \cup refused'
          BY <2>6, <3>1, <4>1, <4>3
        <5>2. Waiting(c)'
          BY <4>3, <5>1 DEF Waiting
        <5> QED  BY <4>2, <5>2
      <4>4. CASE ~(ev \in ConnEvents /\ c = a)
        <5>1. Waiting(c)'
          BY <1>a, <2>5, <4>1, <4>2, <4>4
        <5> QED  BY <4>2, <5>1
      <4> QED  BY <4>3, <4>4
    <3> QED  BY <3>1, BackedIsWaitingNext
  <2>7. ASSUME SlotsSame, NoDevFromAddr(a) \/ NameFailed(a) \/ CreateConn(a)
        PROVE  SlotBacked'
    <3>1. \A j \in Dev : SameSlot(j)
      BY <2>7 DEF SlotsSame
    <3>2. ASSUME NEW j \in Dev, bt_dev'[j].found, bt_dev[j].bdaddr = a, ev \in ConnEvents
          PROVE  a \in paging' \cup refused'
      <4>1. ~NoDevFromAddr(a)
        BY <3>1, <3>2 DEF NoDevFromAddr, HasAddr, SameSlot
      <4>2. ~NameFailed(a)
        BY <2>1, <3>2 DEF ConnEvents
      <4> QED  BY <2>7, <4>1, <4>2, CreateConnWaits
    <3> QED  BY <2>6, <3>1, <3>2
  <2>8. ASSUME NEW i \in Dev, DevFromAddr(i, a), SlotFreed(i)
        PROVE  SlotBacked'
    <3>1. \A j \in Dev : bt_dev'[j].found => j # i /\ SameSlot(j)
      BY <2>8 DEF SlotFreed, OthersSame
    <3>2. \A j \in Dev : bt_dev'[j].found => bt_dev[j].bdaddr # a
      BY <2>8, <3>1 DEF DevFromAddr, HasAddr, SameSlot, UniqueBdaddr
    <3> QED  BY <2>6, <3>1, <3>2
  <2>9. SlotBacked'
    BY <1>7, <2>7, <2>8, FailureEffect
  <2> QED  BY <2>3, <2>9 DEF SlotIInv
<1>8. ASSUME NEW a \in Addrs, ConnDone(a) \/ LeConnDone(a)
      PROVE  SlotIInv'
  <2>1. PICK ev : Receive(ev) /\ ev \in ConnEvents
    BY <1>8, HandlerReceives DEF ConnEvents
  <2>2. UNCHANGED <<offered, accepted, paging, refused>>
    BY <1>8, LinkUpEffect
  <2>3. Head(evtq).a = a /\ ~Head(evtq).err
    BY <1>8, HandlerReceives
  <2>4. /\ \A b : EndComing(b) /\ b # a => EndComing(b)'
        /\ RequestStands' /\ LinkHasHandle'
    BY <2>1, <2>2, <2>3, ReceiveKeeps
  <2>5. \A b : Waiting(b) /\ b # a => Waiting(b)'
    BY <2>2, <2>4 DEF Waiting
  <2>6. Head(evtq).h # 0
    <3>1. Len(evtq) \in Nat /\ Len(evtq) >= 1 /\ evtq[1] = Head(evtq) /\ evtq[1].ev = ev
      BY <2>1, ReceiveFacts
    <3>2. 1 \in 1..Len(evtq)
      BY <3>1
    <3> QED  BY <2>1, <2>3, <3>1, <3>2 DEF SlotIInv, LinkHasHandle
  <2>7. ASSUME \A j \in Dev : bt_dev'[j].found /\ bt_dev'[j].acl_handle = 0
                              => SameSlot(j) /\ bt_dev[j].bdaddr # a
        PROVE  SlotBacked'
    <3>1. ASSUME NEW j \in Dev, bt_dev'[j].found, bt_dev'[j].acl_handle = 0
          PROVE  Waiting(bt_dev[j].bdaddr)'
      <4>1. PICK c : c = bt_dev[j].bdaddr
        OBVIOUS
      <4>2. bt_dev[j].found /\ bt_dev[j].acl_handle = 0 /\ bt_dev'[j].bdaddr = c /\ c # a
        BY <2>7, <3>1, <4>1 DEF SameSlot
      <4>3. Waiting(c)'
        BY <1>a, <2>5, <4>1, <4>2
      <4> QED  BY <4>2, <4>3
    <3> QED  BY <3>1, BackedIsWaitingNext
  <2>8. ASSUME NoDevFromAddr(a), SlotsSame PROVE SlotBacked'
    BY <2>7, <2>8 DEF NoDevFromAddr, HasAddr, SlotsSame, SameSlot
  <2>9. ASSUME NEW i \in Dev, DevFromAddr(i, a), SlotLinked(i, Head(evtq).h)
        PROVE  SlotBacked'
    <3>1. \A j \in Dev : bt_dev'[j].found /\ bt_dev'[j].acl_handle = 0 => j # i /\ SameSlot(j)
      BY <2>6, <2>9 DEF SlotLinked, OthersSame
    <3>2. \A j \in Dev : bt_dev'[j].found /\ bt_dev'[j].acl_handle = 0 => bt_dev[j].bdaddr # a
      BY <2>9, <3>1 DEF DevFromAddr, HasAddr, SameSlot, UniqueBdaddr
    <3> QED  BY <2>7, <3>1, <3>2
  <2>10. SlotBacked'
    BY <1>8, <2>8, <2>9, LinkUpEffect
  <2> QED  BY <2>4, <2>10 DEF SlotIInv
<1>9. ASSUME NEW h \in Handles, Disconn(h) PROVE SlotIInv'
  <2>1. Receive("disconn_complete") /\ UNCHANGED <<offered, accepted, paging, refused>>
    BY <1>9, HandlerReceives, DisconnEffect
  <2>2. "disconn_complete" \notin ConnEvents
    BY DEF ConnEvents
  <2>3. (\A b : Waiting(b) => Waiting(b)') /\ RequestStands' /\ LinkHasHandle'
    BY <1>5, <2>1, <2>2
  <2>4. CASE SlotsSame
    BY <1>2, <2>3, <2>4 DEF SlotIInv
  <2>5. ASSUME NEW i \in Dev, SlotFreed(i) PROVE SlotBacked'
    <3>1. \A j \in Dev : bt_dev'[j].found => SameSlot(j)
      BY <2>5 DEF SlotFreed, OthersSame
    <3> QED  BY <1>1, <2>3, <3>1 DEF SameSlot
  <2> QED  BY <1>9, <2>3, <2>4, <2>5, DisconnEffect DEF SlotIInv
<1>10. ASSUME InquiryComplete \/ (\E a \in ClassicPeers : NameDone(a))
              \/ (\E h \in Handles : EncryptChange(h))
       PROVE  SlotIInv'
  <2>1. PICK ev : Receive(ev) /\ ev \notin ConnEvents
    BY <1>10, HandlerReceives DEF ConnEvents
  <2>2. UNCHANGED <<offered, accepted, paging, refused>>
    BY <1>10 DEF InquiryComplete, NameDone, EncryptChange, linkVars
  <2>3. (\A b : Waiting(b) => Waiting(b)') /\ RequestStands' /\ LinkHasHandle'
    BY <1>5, <2>1, <2>2
  <2>4. bt_dev' = bt_dev
    BY <1>10, OtherEffect
  <2> QED  BY <1>2, <2>3, <2>4 DEF SlotIInv
<1> QED
  <2>1. /\ ClassicPeers \subseteq Peers /\ LePeers \subseteq Peers
        /\ Peers \subseteq Addrs /\ Clients \subseteq Addrs
    BY DEF Peers, Addrs
  <2> QED
    BY <1>3, <1>4, <1>6, <1>7, <1>8, <1>9, <1>10, <2>1 DEF Next, HostStep

(* A slot that has no handle yet is waiting for something that will come,  *)
(* unless its create connection command was refused: no order of requests, *)
(* retries and failures leaves a slot taken for nothing.                   *)
THEOREM SlotsBacked == Spec => []SlotBacked
<1>1. Init => SlotIInv
  BY DEF Init, SlotIInv, SlotBacked, RequestStands, LinkHasHandle, FreeDev
<1>2. SlotIInv => SlotBacked
  BY DEF SlotIInv
<1> QED
  BY <1>1, <1>2, BackedStep, TypeCorrect, OneSlotPerPeer, PTL DEF Spec

-----------------------------------------------------------------------------
(* The order of events.  A handle is reused, so what keeps a slot and its  *)
(* link together is the order in which the ends and the beginnings of      *)
(* links with that handle, and with that peer, reach the host.             *)

(* The n-th event under way says that a has a link h, or that link h ended. *)
Up(n, a, h) == /\ evtq[n].ev \in ConnEvents /\ ~evtq[n].err
               /\ evtq[n].a = a /\ evtq[n].h = h

Down(n, h) == evtq[n].ev = "disconn_complete" /\ evtq[n].h = h

Pos == 1..Len(evtq)

UpAfter(n, a, h) == \E m \in Pos : m > n /\ Up(m, a, h)
DownAfter(n, h)  == \E m \in Pos : m > n /\ Down(m, h)
DownBefore(n, h) == \E m \in Pos : m < n /\ Down(m, h)

(* The controller has one link per handle, and pages no LE peer it has a   *)
(* link with.                                                              *)
OneLinkPerHandle == \A a, b \in Addrs : handle[a] = handle[b] /\ handle[a] # 0 => a = b
LePagedIsDown    == \A a \in paging \cap LePeers : handle[a] = 0

(* A link that is announced is up, or its end is announced behind it.      *)
UpOrEnded == \A n \in Pos, a \in Addrs, h \in Handles :
               Up(n, a, h) => handle[a] = h \/ DownAfter(n, h)

(* Between two links with one peer, or two links with one handle, the end  *)
(* of the first is announced.                                              *)
UpsSeparated == \A n, m \in Pos, a, b \in Addrs, h, g \in Handles :
                  n < m /\ Up(n, a, h) /\ Up(m, b, g) /\ (a = b \/ h = g)
                    => \E k \in Pos : n < k /\ k < m /\ Down(k, h)

(* What the queue says of an earlier link is followed by the current one.  *)
DownIsOld == \A n \in Pos, a \in Addrs :
               handle[a] # 0 /\ Down(n, handle[a]) => UpAfter(n, a, handle[a])
UpIsOld   == \A n \in Pos, a \in Addrs, h \in Handles :
               Up(n, a, h) /\ handle[a] # 0 /\ handle[a] # h => UpAfter(n, a, handle[a])

QueueIInv == /\ OneLinkPerHandle /\ LePagedIsDown /\ UpOrEnded /\ UpsSeparated
             /\ DownIsOld /\ UpIsOld

(* An event of the controller, at the end of the queue, keeps the order. *)
LEMMA QueueEmit ==
  ASSUME TypeOK, QueueIInv, NEW e \in EventRec, Moves(e)
  PROVE  QueueIInv'
<1>0. PICK L : L = Len(evtq)
  OBVIOUS
<1>a. /\ OneLinkPerHandle /\ LePagedIsDown /\ UpOrEnded /\ UpsSeparated
      /\ DownIsOld /\ UpIsOld
  BY DEF QueueIInv
<1>1. /\ L \in Nat /\ Len(evtq') = L + 1
      /\ \A n \in 1..L : evtq'[n] = evtq[n]
      /\ evtq'[L + 1] = e
  BY <1>0, EmitFacts DEF Moves
<1>2. /\ \A n \in Pos : n \in Pos' /\ n < L + 1 /\ n \in Int
      /\ L + 1 \in Pos' /\ \A n \in Pos' : n \in Pos \/ n = L + 1
      /\ L + 1 \in Int
  BY <1>0, <1>1 DEF Pos
<1>3. /\ \A n \in Pos : \A a, h : (Up(n, a, h)' <=> Up(n, a, h)) /\ (Down(n, h)' <=> Down(n, h))
      /\ \A a, h : Up(L + 1, a, h)' <=> e.ev \in ConnEvents /\ ~e.err /\ e.a = a /\ e.h = h
      /\ \A h : Down(L + 1, h)' <=> e.ev = "disconn_complete" /\ e.h = h
  <2>1. ASSUME NEW n \in Pos
        PROVE  \A a, h : (Up(n, a, h)' <=> Up(n, a, h)) /\ (Down(n, h)' <=> Down(n, h))
    BY <1>0, <1>1 DEF Up, Down, Pos
  <2>2. \A a, h : Up(L + 1, a, h)' <=> e.ev \in ConnEvents /\ ~e.err /\ e.a = a /\ e.h = h
    BY <1>1 DEF Up, ConnEvents
  <2>3. \A h : Down(L + 1, h)' <=> e.ev = "disconn_complete" /\ e.h = h
    BY <1>1 DEF Down
  <2> QED  BY <2>1, <2>2, <2>3
<1>4. \A n \in Pos : \A a, h : /\ UpAfter(n, a, h) => UpAfter(n, a, h)'
                               /\ DownAfter(n, h) => DownAfter(n, h)'
  BY <1>2, <1>3 DEF UpAfter, DownAfter
<1>5. \/ LinkMade(e)
      \/ \E b \in Addrs : LinkLost(b, e)
      \/ e.ev # "disconn_complete" /\ ~(e.ev \in ConnEvents /\ ~e.err) /\ UNCHANGED handle
  <2>1. Request(e) => e.ev = "conn_request" /\ UNCHANGED handle
    BY DEF Request
  <2>2. NotMade(e) => e.ev # "disconn_complete" /\ e.err /\ UNCHANGED handle
    BY DEF NotMade, Ends, ConnEvents
  <2>3. Chatter(e) => e.ev # "disconn_complete" /\ e.ev \notin ConnEvents /\ UNCHANGED handle
    BY DEF Chatter, ConnEvents
  <2> QED  BY <2>1, <2>2, <2>3 DEF Moves, ConnEvents
<1>6. /\ LinkMade(e) => /\ e.a \in Addrs /\ handle[e.a] = 0 /\ handle'[e.a] = e.h
                        /\ e.h \in Handles /\ e.h # 0 /\ e.ev \in ConnEvents /\ ~e.err
                        /\ \A b \in Addrs : handle[b] # e.h
                        /\ \A b \in Addrs : b # e.a => handle'[b] = handle[b]
      /\ \A c \in Addrs : LinkLost(c, e) =>
            /\ handle'[c] = 0 /\ e.ev = "disconn_complete" /\ e.h = handle[c] /\ handle[c] # 0
            /\ \A b \in Addrs : b # c => handle'[b] = handle[b]
      /\ LinkMade(e) => e.ev # "disconn_complete"
      /\ \A c \in Addrs : LinkLost(c, e) => e.ev \notin ConnEvents
  <2>1. handle \in [Addrs -> Handles \cup {0}]
    BY DEF TypeOK
  <2>2. ASSUME LinkMade(e)
        PROVE  /\ e.a \in Addrs /\ handle[e.a] = 0 /\ handle'[e.a] = e.h
               /\ e.h \in Handles /\ e.h # 0 /\ e.ev \in ConnEvents /\ ~e.err
               /\ \A b \in Addrs : handle[b] # e.h
               /\ \A b \in Addrs : b # e.a => handle'[b] = handle[b]
               /\ e.ev # "disconn_complete"
    BY <1>a, <2>1, <2>2, DevLinksAssumption
    DEF LinkMade, Ends, ConnEvents, FreeHandles, LePagedIsDown
  <2>3. ASSUME NEW c \in Addrs, LinkLost(c, e)
        PROVE  /\ handle'[c] = 0 /\ e.ev = "disconn_complete" /\ e.h = handle[c] /\ handle[c] # 0
               /\ \A b \in Addrs : b # c => handle'[b] = handle[b]
               /\ e.ev \notin ConnEvents
    BY <2>1, <2>3 DEF LinkLost, ConnEvents
  <2> QED  BY <2>2, <2>3
<1>7. \A h \in Handles : h # 0
  BY DevLinksAssumption
<1>8. OneLinkPerHandle'
  <2>1. ASSUME NEW a \in Addrs, NEW b \in Addrs, handle'[a] = handle'[b], handle'[a] # 0
        PROVE  a = b
    BY <1>5, <1>6, <1>a, <2>1 DEF OneLinkPerHandle
  <2> QED  BY <2>1 DEF OneLinkPerHandle
<1>9. LePagedIsDown'
  <2>1. paging' \subseteq paging /\ (LinkMade(e) => e.a \notin paging')
    BY DEF Moves, Request, LinkMade, NotMade, Ends, Chatter, LinkLost
  <2>2. ASSUME NEW a \in paging' \cap LePeers PROVE handle'[a] = 0
    <3>1. handle[a] = 0 /\ a \in Addrs
      BY <1>a, <2>1, <2>2 DEF LePagedIsDown, Peers, Addrs
    <3> QED  BY <1>5, <1>6, <2>1, <2>2, <3>1
  <2> QED  BY <2>2 DEF LePagedIsDown
<1>10. UpOrEnded'
  <2>1. ASSUME NEW n \in Pos', NEW a \in Addrs, NEW h \in Handles, Up(n, a, h)', handle'[a] # h
        PROVE  DownAfter(n, h)'
    <3>1. CASE n \in Pos
      <4>1. Up(n, a, h)
        BY <1>3, <2>1, <3>1
      <4>2. CASE DownAfter(n, h)
        BY <1>4, <3>1, <4>2
      <4>3. CASE handle[a] = h
        <5>1. LinkLost(a, e)
          BY <1>5, <1>6, <1>7, <2>1, <4>3
        <5>2. Down(L + 1, h)'
          BY <1>3, <1>6, <4>3, <5>1
        <5> QED  BY <1>2, <3>1, <5>2 DEF DownAfter
      <4> QED  BY <1>a, <3>1, <4>1, <4>2, <4>3 DEF UpOrEnded
    <3>2. CASE n = L + 1
      <4>1. e.ev \in ConnEvents /\ ~e.err /\ e.a = a /\ e.h = h
        BY <1>3, <2>1, <3>2
      <4>2. LinkMade(e)
        BY <1>5, <1>6, <4>1
      <4> QED  BY <1>6, <2>1, <4>1, <4>2
    <3> QED  BY <1>2, <3>1, <3>2
  <2> QED  BY <2>1 DEF UpOrEnded
<1>11. UpsSeparated'
  <2>1. ASSUME NEW n \in Pos', NEW m \in Pos', NEW a \in Addrs, NEW b \in Addrs,
               NEW h \in Handles, NEW g \in Handles,
               n < m, Up(n, a, h)', Up(m, b, g)', a = b \/ h = g
        PROVE  \E k \in Pos' : n < k /\ k < m /\ Down(k, h)'
    <3>1. n \in Pos
      BY <1>1, <1>2, <2>1 DEF Pos
    <3>2. Up(n, a, h)
      BY <1>3, <2>1, <3>1
    <3>3. CASE m \in Pos
      <4>1. Up(m, b, g)
        BY <1>3, <2>1, <3>3
      <4>2. PICK k \in Pos : n < k /\ k < m /\ Down(k, h)
        BY <1>a, <2>1, <3>1, <3>2, <3>3, <4>1 DEF UpsSeparated
      <4> QED  BY <1>2, <1>3, <4>2
    <3>4. CASE m = L + 1
      <4>1. e.ev \in ConnEvents /\ ~e.err /\ e.a = b /\ e.h = g
        BY <1>3, <2>1, <3>4
      <4>2. LinkMade(e)
        BY <1>5, <1>6, <4>1
      <4>3. handle[a] # h
        BY <1>6, <1>7, <2>1, <4>1, <4>2
      <4>4. DownAfter(n, h)
        BY <1>a, <3>1, <3>2, <4>3 DEF UpOrEnded
      <4>5. PICK k \in Pos : k > n /\ Down(k, h)
        BY <4>4 DEF DownAfter
      <4>6. n < k /\ k < m
        BY <1>2, <3>1, <3>4, <4>5
      <4> QED  BY <1>2, <1>3, <4>5, <4>6
    <3> QED  BY <1>2, <3>3, <3>4
  <2> QED  BY <2>1 DEF UpsSeparated
<1>12. DownIsOld'
  <2>1. ASSUME NEW n \in Pos', NEW a \in Addrs, NEW h, h = handle'[a], h # 0, Down(n, h)'
        PROVE  UpAfter(n, a, h)'
    <3>1. CASE n \in Pos
      <4>1. Down(n, h)
        BY <1>3, <2>1, <3>1
      <4>2. CASE handle[a] = h
        <5>1. UpAfter(n, a, h)
          BY <1>a, <2>1, <3>1, <4>1, <4>2 DEF DownIsOld
        <5> QED  BY <1>4, <3>1, <5>1
      <4>3. CASE handle[a] # h
        <5>1. LinkMade(e) /\ e.a = a /\ e.h = h
          BY <1>5, <1>6, <2>1, <4>3
        <5>2. Up(L + 1, a, h)'
          BY <1>3, <1>6, <5>1
        <5> QED  BY <1>2, <3>1, <5>2 DEF UpAfter
      <4> QED  BY <4>2, <4>3
    <3>2. CASE n = L + 1
      <4>1. e.ev = "disconn_complete" /\ e.h = h
        BY <1>3, <2>1, <3>2
      <4>2. PICK c \in Addrs : LinkLost(c, e)
        BY <1>5, <1>6, <4>1
      <4>3. c # a /\ handle[a] = handle[c]
        BY <1>6, <2>1, <4>1, <4>2
      <4> QED  BY <1>a, <1>6, <4>2, <4>3 DEF OneLinkPerHandle
    <3> QED  BY <1>2, <3>1, <3>2
  <2>2. ASSUME NEW n \in Pos', NEW a \in Addrs, handle'[a] # 0, Down(n, handle[a])'
        PROVE  UpAfter(n, a, handle[a])'
    <3>1. PICK h : h = handle'[a]
      OBVIOUS
    <3>2. Down(n, h)'
      BY <2>2, <3>1 DEF Down
    <3>3. UpAfter(n, a, h)'
      BY <2>1, <2>2, <3>1, <3>2
    <3> QED  BY <3>1, <3>3 DEF UpAfter, Up
  <2> QED  BY <2>2 DEF DownIsOld
<1>13. UpIsOld'
  <2>1. ASSUME NEW n \in Pos', NEW a \in Addrs, NEW h \in Handles, NEW g,
               Up(n, a, h)', g = handle'[a], g # 0, g # h
        PROVE  UpAfter(n, a, g)'
    <3>1. CASE n \in Pos
      <4>1. Up(n, a, h)
        BY <1>3, <2>1, <3>1
      <4>2. CASE handle[a] = g
        <5>1. UpAfter(n, a, g)
          BY <1>a, <2>1, <3>1, <4>1, <4>2 DEF UpIsOld
        <5> QED  BY <1>4, <3>1, <5>1
      <4>3. CASE handle[a] # g
        <5>1. LinkMade(e) /\ e.a = a /\ e.h = g
          BY <1>5, <1>6, <2>1, <4>3
        <5>2. Up(L + 1, a, g)'
          BY <1>3, <1>6, <5>1
        <5> QED  BY <1>2, <3>1, <5>2 DEF UpAfter
      <4> QED  BY <4>2, <4>3
    <3>2. CASE n = L + 1
      <4>1. e.ev \in ConnEvents /\ ~e.err /\ e.a = a /\ e.h = h
        BY <1>3, <2>1, <3>2
      <4>2. LinkMade(e)
        BY <1>5, <1>6, <4>1
      <4> QED  BY <1>6, <2>1, <4>1, <4>2
    <3> QED  BY <1>2, <3>1, <3>2
  <2>2. ASSUME NEW n \in Pos', NEW a \in Addrs, NEW h \in Handles,
               Up(n, a, h)', handle'[a] # 0, handle'[a] # h
        PROVE  UpAfter(n, a, handle[a])'
    <3>1. PICK g : g = handle'[a]
      OBVIOUS
    <3>2. UpAfter(n, a, g)'
      BY <2>1, <2>2, <3>1
    <3> QED  BY <3>1, <3>2 DEF UpAfter, Up
  <2> QED  BY <2>2 DEF UpIsOld
<1> QED
  BY <1>8, <1>9, <1>10, <1>11, <1>12, <1>13 DEF QueueIInv

(* Taking the head shifts the rest of the queue. *)
LEMMA ReceiveShifts ==
  ASSUME TypeOK, NEW ev, Receive(ev)
  PROVE  /\ 1 \in Pos /\ evtq[1] = Head(evtq) /\ evtq[1].ev = ev
         /\ \A n \in Pos' : n \in Int /\ n + 1 \in Pos /\ n + 1 > 1 /\ n >= 1
         /\ \A n \in Pos : n \in Int /\ n >= 1 /\ (n # 1 => n - 1 \in Pos' /\ n > 1)
         /\ \A n \in Pos' : \A a, h : Up(n, a, h)' <=> Up(n + 1, a, h)
         /\ \A n \in Pos' : \A h : Down(n, h)' <=> Down(n + 1, h)
<1>1. /\ Len(evtq) \in Nat /\ Len(evtq) >= 1 /\ Len(evtq') = Len(evtq) - 1
      /\ \A n \in 1..Len(evtq') : evtq'[n] = evtq[n + 1]
      /\ evtq[1] = Head(evtq) /\ evtq[1].ev = ev
  BY ReceiveFacts
<1>2. /\ \A n \in Pos' : n \in Int /\ n + 1 \in Pos /\ n + 1 > 1 /\ n >= 1
      /\ \A n \in Pos : n \in Int /\ n >= 1 /\ (n # 1 => n - 1 \in Pos' /\ n > 1)
      /\ 1 \in Pos
  BY <1>1 DEF Pos
<1>3. \A n \in Pos' : \A a, h : Up(n, a, h)' <=> Up(n + 1, a, h)
  BY <1>1 DEF Pos, Up
<1>4. \A n \in Pos' : \A h : Down(n, h)' <=> Down(n + 1, h)
  BY <1>1 DEF Pos, Down
<1> QED
  BY <1>1, <1>2, <1>3, <1>4

(* So an event of the rest of the queue is still there, one place earlier. *)
LEMMA ReceiveBack ==
  ASSUME TypeOK, NEW ev, Receive(ev)
  PROVE  /\ \A n \in Pos : \A a, h : n > 1 /\ Up(n, a, h)
                                   => n - 1 \in Pos' /\ Up(n - 1, a, h)'
         /\ \A n \in Pos : \A h : n > 1 /\ Down(n, h) => n - 1 \in Pos' /\ Down(n - 1, h)'
<1>1. /\ \A n \in Pos : n \in Int /\ n >= 1 /\ (n # 1 => n - 1 \in Pos' /\ n > 1)
      /\ \A n \in Pos' : \A a, h : Up(n, a, h)' <=> Up(n + 1, a, h)
      /\ \A n \in Pos' : \A h : Down(n, h)' <=> Down(n + 1, h)
  BY ReceiveShifts
<1>2. ASSUME NEW n \in Pos, n > 1 PROVE n - 1 \in Pos' /\ (n - 1) + 1 = n
  BY <1>1, <1>2
<1>3. ASSUME NEW n \in Pos, NEW a, NEW h, n > 1, Up(n, a, h)
      PROVE  n - 1 \in Pos' /\ Up(n - 1, a, h)'
  <2>1. PICK k : k = n - 1
    OBVIOUS
  <2>2. k \in Pos' /\ k + 1 = n
    BY <1>2, <1>3, <2>1
  <2>3. Up(k, a, h)'
    BY <1>1, <1>3, <2>2
  <2> QED  BY <2>1, <2>2, <2>3
<1>4. ASSUME NEW n \in Pos, NEW h, n > 1, Down(n, h)
      PROVE  n - 1 \in Pos' /\ Down(n - 1, h)'
  <2>1. PICK k : k = n - 1
    OBVIOUS
  <2>2. k \in Pos' /\ k + 1 = n
    BY <1>2, <1>4, <2>1
  <2>3. Down(k, h)'
    BY <1>1, <1>4, <2>2
  <2> QED  BY <2>1, <2>2, <2>3
<1> QED
  BY <1>3, <1>4

(* Taking the first event keeps the order. *)
LEMMA QueueReceive ==
  ASSUME TypeOK, QueueIInv, NEW ev, Receive(ev), UNCHANGED handle,
         \A a \in paging' : a \in paging \/ handle[a] = 0
  PROVE  QueueIInv'
<1>a. /\ OneLinkPerHandle /\ LePagedIsDown /\ UpOrEnded /\ UpsSeparated
      /\ DownIsOld /\ UpIsOld
  BY DEF QueueIInv
<1>1. /\ \A n \in Pos' : n \in Int /\ n + 1 \in Pos /\ n + 1 > 1 /\ n >= 1
      /\ \A n \in Pos : n \in Int /\ n >= 1 /\ (n # 1 => n - 1 \in Pos' /\ n > 1)
      /\ \A n \in Pos' : \A a, h : Up(n, a, h)' <=> Up(n + 1, a, h)
      /\ \A n \in Pos' : \A h : Down(n, h)' <=> Down(n + 1, h)
  BY ReceiveShifts
<1>2. /\ \A n \in Pos : \A a, h : n > 1 /\ Up(n, a, h) => n - 1 \in Pos' /\ Up(n - 1, a, h)'
      /\ \A n \in Pos : \A h : n > 1 /\ Down(n, h) => n - 1 \in Pos' /\ Down(n - 1, h)'
  BY ReceiveBack
<1>3. ASSUME NEW n \in Pos', NEW a, NEW h, UpAfter(n + 1, a, h)
      PROVE  UpAfter(n, a, h)'
  <2>1. PICK m \in Pos : m > n + 1 /\ Up(m, a, h)
    BY <1>3 DEF UpAfter
  <2>2. m > 1 /\ m - 1 > n
    BY <1>1, <2>1
  <2>3. PICK k : k = m - 1
    OBVIOUS
  <2>4. k \in Pos' /\ Up(k, a, h)' /\ k > n
    BY <1>2, <2>1, <2>2, <2>3
  <2> QED  BY <2>4 DEF UpAfter
<1>4. ASSUME NEW n \in Pos', NEW h, DownAfter(n + 1, h)
      PROVE  DownAfter(n, h)'
  <2>1. PICK m \in Pos : m > n + 1 /\ Down(m, h)
    BY <1>4 DEF DownAfter
  <2>2. m > 1 /\ m - 1 > n
    BY <1>1, <2>1
  <2>3. PICK k : k = m - 1
    OBVIOUS
  <2>4. k \in Pos' /\ Down(k, h)' /\ k > n
    BY <1>2, <2>1, <2>2, <2>3
  <2> QED  BY <2>4 DEF DownAfter
<1>5. OneLinkPerHandle'
  BY <1>a DEF OneLinkPerHandle
<1>6. LePagedIsDown'
  BY <1>a DEF LePagedIsDown
<1>7. UpOrEnded'
  <2>1. ASSUME NEW n \in Pos', NEW a \in Addrs, NEW h \in Handles, Up(n, a, h)', handle[a] # h
        PROVE  DownAfter(n, h)'
    <3>1. n + 1 \in Pos /\ Up(n + 1, a, h)
      BY <1>1, <2>1
    <3>2. DownAfter(n + 1, h)
      BY <1>a, <2>1, <3>1 DEF UpOrEnded
    <3> QED  BY <1>4, <3>2
  <2> QED  BY <2>1 DEF UpOrEnded
<1>8. UpsSeparated'
  <2>1. ASSUME NEW n \in Pos', NEW m \in Pos', NEW a \in Addrs, NEW b \in Addrs,
               NEW h \in Handles, NEW g \in Handles,
               n < m, Up(n, a, h)', Up(m, b, g)', a = b \/ h = g
        PROVE  \E k \in Pos' : n < k /\ k < m /\ Down(k, h)'
    <3>1. /\ n + 1 \in Pos /\ m + 1 \in Pos /\ n + 1 < m + 1
          /\ Up(n + 1, a, h) /\ Up(m + 1, b, g)
      BY <1>1, <2>1
    <3>2. PICK k \in Pos : n + 1 < k /\ k < m + 1 /\ Down(k, h)
      BY <1>a, <2>1, <3>1 DEF UpsSeparated
    <3>3. k > 1 /\ n < k - 1 /\ k - 1 < m
      BY <1>1, <3>2
    <3>4. PICK l : l = k - 1
      OBVIOUS
    <3>5. l \in Pos' /\ Down(l, h)' /\ n < l /\ l < m
      BY <1>2, <3>2, <3>3, <3>4
    <3> QED  BY <3>5
  <2> QED  BY <2>1 DEF UpsSeparated
<1>9. DownIsOld'
  <2>1. ASSUME NEW n \in Pos', NEW a \in Addrs, NEW h, h = handle[a], h # 0, Down(n, h)'
        PROVE  UpAfter(n, a, h)'
    <3>1. n + 1 \in Pos /\ Down(n + 1, h)
      BY <1>1, <2>1
    <3>2. UpAfter(n + 1, a, h)
      BY <1>a, <2>1, <3>1 DEF DownIsOld
    <3> QED  BY <1>3, <3>2
  <2>2. ASSUME NEW n \in Pos', NEW a \in Addrs, handle'[a] # 0, Down(n, handle[a])'
        PROVE  UpAfter(n, a, handle[a])'
    <3>1. PICK h : h = handle'[a]
      OBVIOUS
    <3>2. Down(n, h)'
      BY <2>2, <3>1 DEF Down
    <3>3. UpAfter(n, a, h)'
      BY <2>1, <2>2, <3>1, <3>2
    <3> QED  BY <3>1, <3>3 DEF UpAfter, Up
  <2> QED  BY <2>2 DEF DownIsOld
<1>10. UpIsOld'
  <2>1. ASSUME NEW n \in Pos', NEW a \in Addrs, NEW h \in Handles, NEW g,
               Up(n, a, h)', g = handle[a], g # 0, g # h
        PROVE  UpAfter(n, a, g)'
    <3>1. n + 1 \in Pos /\ Up(n + 1, a, h)
      BY <1>1, <2>1
    <3>2. UpAfter(n + 1, a, g)
      BY <1>a, <2>1, <3>1 DEF UpIsOld
    <3> QED  BY <1>3, <3>2
  <2>2. ASSUME NEW n \in Pos', NEW a \in Addrs, NEW h \in Handles,
               Up(n, a, h)', handle'[a] # 0, handle'[a] # h
        PROVE  UpAfter(n, a, handle[a])'
    <3>1. PICK g : g = handle'[a]
      OBVIOUS
    <3>2. UpAfter(n, a, g)'
      BY <2>1, <2>2, <3>1
    <3> QED  BY <3>1, <3>2 DEF UpAfter, Up
  <2> QED  BY <2>2 DEF UpIsOld
<1> QED
  BY <1>5, <1>6, <1>7, <1>8, <1>9, <1>10 DEF QueueIInv

(* The event handlers, as far as slots and links go: one event is taken,   *)
(* and the slots change with it.                                           *)
NotesLink(a) == /\ Receive("conn_complete") \/ Receive("le_conn_complete")
                /\ a \in Addrs /\ Head(evtq).a = a /\ ~Head(evtq).err
                /\ \/ NoDevFromAddr(a) /\ SlotsSame /\ UNCHANGED abandoned
                   \/ /\ \E i \in Dev : DevFromAddr(i, a) /\ SlotLinked(i, Head(evtq).h)
                      /\ abandoned' = abandoned \ {a}
                /\ UNCHANGED <<paging, accepted>>

NotesEnd(h) == /\ Receive("disconn_complete") /\ Head(evtq).h = h /\ h \in Handles
               /\ \/ NoDevFromHandle(h) /\ SlotsSame /\ UNCHANGED abandoned
                  \/ \E i \in Dev :
                       /\ DevFromHandle(i, h) /\ SlotFreed(i)
                       /\ abandoned' = abandoned \cup {a \in Peers : HasAddr(i, a) /\ OnItsWay(a)}
               /\ UNCHANGED <<paging, accepted>>

NotesRest == /\ \E ev : /\ Receive(ev) /\ ev # "disconn_complete"
                        /\ ev \notin ConnEvents \/ Head(evtq).err
             /\ \/ /\ SlotsSame /\ UNCHANGED <<abandoned, accepted>>
                   /\ \/ UNCHANGED paging
                      \/ \E a \in Peers : paging' \subseteq paging \cup {a} /\ ~NoDevFromAddr(a)
                \/ /\ \E i \in Dev, a \in Peers :
                        /\ SlotTaken(i, a)
                        /\ paging' \subseteq paging \cup {a}
                        /\ accepted' \subseteq accepted \cup {a}
                   /\ UNCHANGED abandoned
                \/ \E i \in Dev, a \in Peers :
                     /\ DevFromAddr(i, a) /\ SlotFreed(i)
                     /\ abandoned' = abandoned \cup {b \in {a} : handle[b] # 0 \/ OnItsWay(b)}
                     /\ UNCHANGED <<paging, accepted>>

(* Every handler of the host does to the slots one of the three things     *)
(* above.                                                                  *)
LEMMA HostMoves ==
  ASSUME TypeOK, HostStep
  PROVE  /\ UNCHANGED handle
         /\ \A a \in paging' : a \in paging \/ handle[a] = 0
         /\ \/ \E a \in Addrs : NotesLink(a)
            \/ \E h \in Handles : NotesEnd(h)
            \/ NotesRest
<1>a. /\ ClassicPeers \subseteq Peers /\ LePeers \subseteq Peers
      /\ Peers \subseteq Addrs /\ Clients \subseteq Addrs
  BY DEF Peers, Addrs
<1>b. \A a : CreateConn(a) => /\ paging' \subseteq paging \cup {a}
                              /\ \A b \in paging' : b \in paging \/ handle[b] = 0
  BY DEF CreateConn, Refuses
<1>c. bt_dev' = bt_dev => SlotsSame
  BY DEF SlotsSame, SameSlot
<1>1. ASSUME NEW a \in Peers, InquiryResult(a) \/ ConnRequest(a) \/ AdvReport(a)
      PROVE  /\ UNCHANGED handle /\ NotesRest
             /\ \A b \in paging' : b \in paging \/ handle[b] = 0
  <2>1. UNCHANGED <<handle, abandoned>>
    BY <1>1 DEF InquiryResult, ConnRequest, AdvReport
  <2>2. /\ accepted' = accepted \/ accepted' = accepted \cup ({a} \cap offered)
        /\ CreateConn(a) \/ UNCHANGED paging
    BY <1>1 DEF InquiryResult, ConnRequest, AdvReport
  <2>3. \E ev : /\ Receive(ev) /\ ev # "disconn_complete"
                /\ ev \notin ConnEvents \/ Head(evtq).err
    BY <1>1, HandlerReceives DEF ConnEvents
  <2>4. \/ bt_dev' = bt_dev /\ UNCHANGED <<paging, accepted>>
        \/ \E i \in Dev : SlotTaken(i, a)
    BY <1>1, AnnounceEffect
  <2> QED  BY <1>b, <1>c, <2>1, <2>2, <2>3, <2>4 DEF NotesRest
<1>2. ASSUME NEW a \in Peers, ConnFailed(a) \/ LeConnFailed(a) \/ NameFailed(a)
      PROVE  /\ UNCHANGED handle /\ NotesRest
             /\ \A b \in paging' : b \in paging \/ handle[b] = 0
  <2>1. UNCHANGED <<handle, accepted>> /\ Head(evtq).err
    BY <1>2, HandlerReceives
  <2>2. \E ev : /\ Receive(ev) /\ ev # "disconn_complete"
                /\ ev \notin ConnEvents \/ Head(evtq).err
    BY <1>2, HandlerReceives DEF ConnEvents
  <2>3. \/ /\ SlotsSame /\ UNCHANGED abandoned
           /\ UNCHANGED paging \/ (CreateConn(a) /\ ~NoDevFromAddr(a))
        \/ /\ \E i \in Dev : DevFromAddr(i, a) /\ SlotFreed(i)
           /\ abandoned' = abandoned \cup {b \in {a} : handle[b] # 0 \/ OnItsWay(b)}
           /\ UNCHANGED paging
    BY <1>2, FailureEffect
  <2>4. \A b \in paging' : b \in paging \/ handle[b] = 0
    BY <1>b, <2>3
  <2>5. NotesRest
    BY <1>b, <2>1, <2>2, <2>3 DEF NotesRest
  <2> QED  BY <2>1, <2>4, <2>5
<1>3. ASSUME NEW a \in Addrs, ConnDone(a) \/ LeConnDone(a)
      PROVE  UNCHANGED <<handle, paging>> /\ NotesLink(a)
  <2>1. \/ NoDevFromAddr(a) /\ SlotsSame /\ UNCHANGED abandoned
        \/ /\ \E i \in Dev : DevFromAddr(i, a) /\ SlotLinked(i, Head(evtq).h)
           /\ abandoned' = abandoned \ {a}
    BY <1>3, LinkUpEffect
  <2>2. UNCHANGED <<handle, paging, accepted>>
    BY <1>3, LinkUpEffect
  <2>3. /\ Receive("conn_complete") \/ Receive("le_conn_complete")
        /\ Head(evtq).a = a /\ ~Head(evtq).err
    BY <1>3, HandlerReceives
  <2> QED  BY <2>1, <2>2, <2>3 DEF NotesLink
<1>4. ASSUME NEW h \in Handles, Disconn(h)
      PROVE  UNCHANGED <<handle, paging>> /\ NotesEnd(h)
  <2>1. \/ NoDevFromHandle(h) /\ SlotsSame /\ UNCHANGED abandoned
        \/ \E i \in Dev :
             /\ DevFromHandle(i, h) /\ SlotFreed(i)
             /\ abandoned' = abandoned \cup {a \in Peers : HasAddr(i, a) /\ OnItsWay(a)}
    BY <1>4, DisconnEffect
  <2>2. UNCHANGED <<handle, paging, accepted>>
    BY <1>4, DisconnEffect
  <2>3. Receive("disconn_complete") /\ Head(evtq).h = h
    BY <1>4, HandlerReceives
  <2> QED  BY <2>1, <2>2, <2>3 DEF NotesEnd
<1>5. ASSUME InquiryComplete \/ (\E a \in ClassicPeers : NameDone(a))
             \/ (\E h \in Handles : EncryptChange(h))
      PROVE  UNCHANGED <<handle, paging>> /\ NotesRest
  <2>1. UNCHANGED <<handle, paging, accepted, abandoned>>
    BY <1>5 DEF InquiryComplete, NameDone, EncryptChange, linkVars
  <2>2. SlotsSame
    BY <1>5, <1>c, OtherEffect
  <2>3. \E ev : Receive(ev) /\ ev # "disconn_complete" /\ ev \notin ConnEvents
    BY <1>5, HandlerReceives DEF ConnEvents
  <2> QED  BY <2>1, <2>2, <2>3 DEF NotesRest
<1> QED
  BY <1>a, <1>1, <1>2, <1>3, <1>4, <1>5 DEF HostStep

-----------------------------------------------------------------------------
(* Slots and links *)

(* A slot in use stands for a peer, no two slots have one handle, and the  *)
(* handle of a slot is that of its peer's link or its end is under way.    *)
SlotHasPeer   == \A i \in Dev : bt_dev[i].found => bt_dev[i].bdaddr \in Peers
SlotOwnsLink  == \A i, j \in Dev :
                   /\ bt_dev[i].found /\ bt_dev[j].found
                   /\ bt_dev[i].acl_handle = bt_dev[j].acl_handle /\ bt_dev[i].acl_handle # 0
                   => i = j
SlotUpOrEnded == \A i \in Dev :
                   bt_dev[i].found /\ bt_dev[i].acl_handle # 0 =>
                     \/ handle[bt_dev[i].bdaddr] = bt_dev[i].acl_handle
                     \/ \E n \in Pos : Down(n, bt_dev[i].acl_handle)

(* The end of a slot's link reaches the host before any other link of its  *)
(* peer, and before any other link with its handle.                        *)
EndsFirst == \A i \in Dev, n \in Pos, a \in Addrs, h \in Handles :
               /\ bt_dev[i].found /\ bt_dev[i].acl_handle # 0
               /\ Up(n, a, h) /\ (a = bt_dev[i].bdaddr \/ h = bt_dev[i].acl_handle)
               => DownBefore(n, bt_dev[i].acl_handle)

LinkIInv == SlotHasPeer /\ SlotOwnsLink /\ SlotUpOrEnded /\ EndsFirst

(* The same facts about one slot, its peer and its handle. *)
Linked(i, a, h) == bt_dev[i].found /\ bt_dev[i].bdaddr = a /\ bt_dev[i].acl_handle = h /\ h # 0

(* LinkIInv with the peer and the handle of a slot named, in a state and,  *)
(* as what suffices for it, in the next.                                   *)
LEMMA LinkFacts ==
  LinkIInv <=>
    /\ \A i \in Dev : bt_dev[i].found => bt_dev[i].bdaddr \in Peers
    /\ \A i, j \in Dev : \A a, b, h : Linked(i, a, h) /\ Linked(j, b, h) => i = j
    /\ \A i \in Dev : \A a, h : Linked(i, a, h) => handle[a] = h \/ \E n \in Pos : Down(n, h)
    /\ \A i \in Dev, n \in Pos, a \in Addrs, h \in Handles : \A b, g :
         Linked(i, b, g) /\ Up(n, a, h) /\ (a = b \/ h = g) => DownBefore(n, g)
BY DEF LinkIInv, SlotHasPeer, SlotOwnsLink, SlotUpOrEnded, EndsFirst, Linked

LEMMA LinkFactsNext ==
  ASSUME \A i \in Dev : bt_dev'[i].found => bt_dev'[i].bdaddr \in Peers,
         \A i, j \in Dev : \A a, b, h : Linked(i, a, h)' /\ Linked(j, b, h)' => i = j,
         \A i \in Dev : \A a, h : Linked(i, a, h)' => handle'[a] = h \/ \E n \in Pos' : Down(n, h)',
         \A i \in Dev, n \in Pos', a \in Addrs, h \in Handles : \A b, g :
           Linked(i, b, g)' /\ Up(n, a, h)' /\ (a = b \/ h = g) => DownBefore(n, g)'
  PROVE  LinkIInv'
<1>1. SlotHasPeer'
  BY DEF SlotHasPeer
<1>2. SlotOwnsLink'
  BY DEF SlotOwnsLink, Linked
<1>3. SlotUpOrEnded'
  <2>1. ASSUME NEW i \in Dev, bt_dev'[i].found, bt_dev'[i].acl_handle # 0
        PROVE  \/ handle'[bt_dev'[i].bdaddr] = bt_dev'[i].acl_handle
               \/ \E n \in Pos' : Down(n, bt_dev[i].acl_handle)'
    <3>1. PICK a, h : a = bt_dev'[i].bdaddr /\ h = bt_dev'[i].acl_handle
      OBVIOUS
    <3>2. Linked(i, a, h)'
      BY <2>1, <3>1 DEF Linked
    <3>3. handle'[a] = h \/ \E n \in Pos' : Down(n, h)'
      BY <3>2
    <3> QED  BY <3>1, <3>3 DEF Down
  <2> QED  BY <2>1 DEF SlotUpOrEnded
<1>4. EndsFirst'
  <2>1. ASSUME NEW i \in Dev, NEW n \in Pos', NEW a \in Addrs, NEW h \in Handles,
               bt_dev'[i].found, bt_dev'[i].acl_handle # 0, Up(n, a, h)',
               a = bt_dev'[i].bdaddr \/ h = bt_dev'[i].acl_handle
        PROVE  DownBefore(n, bt_dev[i].acl_handle)'
    <3>1. PICK b, g : b = bt_dev'[i].bdaddr /\ g = bt_dev'[i].acl_handle
      OBVIOUS
    <3>2. Linked(i, b, g)' /\ (a = b \/ h = g)
      BY <2>1, <3>1 DEF Linked
    <3>3. DownBefore(n, g)'
      BY <2>1, <3>2
    <3> QED  BY <3>1, <3>3 DEF DownBefore, Down
  <2> QED  BY <2>1 DEF EndsFirst
<1> QED
  BY <1>1, <1>2, <1>3, <1>4 DEF LinkIInv

(* A link made or lost, announced at the end of the queue. *)
LEMMA LinkEmit ==
  ASSUME TypeOK, QueueIInv, LinkIInv, NEW e \in EventRec, Moves(e), UNCHANGED bt_dev
  PROVE  LinkIInv'
<1>a. /\ \A i \in Dev : bt_dev[i].found => bt_dev[i].bdaddr \in Peers
      /\ \A i, j \in Dev : \A a, b, h : Linked(i, a, h) /\ Linked(j, b, h) => i = j
      /\ \A i \in Dev : \A a, h : Linked(i, a, h) => handle[a] = h \/ \E n \in Pos : Down(n, h)
      /\ \A i \in Dev, n \in Pos, a \in Addrs, h \in Handles : \A b, g :
           Linked(i, b, g) /\ Up(n, a, h) /\ (a = b \/ h = g) => DownBefore(n, g)
  BY LinkFacts
<1>0. PICK L : L = Len(evtq)
  OBVIOUS
<1>1. /\ L \in Nat /\ Len(evtq') = L + 1
      /\ \A n \in 1..L : evtq'[n] = evtq[n]
      /\ evtq'[L + 1] = e
  BY <1>0, EmitFacts DEF Moves
<1>2. /\ \A n \in Pos : n \in Pos' /\ n < L + 1 /\ n \in Int
      /\ L + 1 \in Pos' /\ \A n \in Pos' : n \in Pos \/ n = L + 1
      /\ L + 1 \in Int
  BY <1>0, <1>1 DEF Pos
<1>3. /\ \A n \in Pos : \A a, h : (Up(n, a, h)' <=> Up(n, a, h)) /\ (Down(n, h)' <=> Down(n, h))
      /\ \A a, h : Up(L + 1, a, h)' <=> e.ev \in ConnEvents /\ ~e.err /\ e.a = a /\ e.h = h
      /\ \A h : Down(L + 1, h)' <=> e.ev = "disconn_complete" /\ e.h = h
  <2>1. ASSUME NEW n \in Pos
        PROVE  \A a, h : (Up(n, a, h)' <=> Up(n, a, h)) /\ (Down(n, h)' <=> Down(n, h))
    BY <1>0, <1>1 DEF Up, Down, Pos
  <2>2. \A a, h : Up(L + 1, a, h)' <=> e.ev \in ConnEvents /\ ~e.err /\ e.a = a /\ e.h = h
    BY <1>1 DEF Up, ConnEvents
  <2>3. \A h : Down(L + 1, h)' <=> e.ev = "disconn_complete" /\ e.h = h
    BY <1>1 DEF Down
  <2> QED  BY <2>1, <2>2, <2>3
<1>4. \A i, a, h : Linked(i, a, h)' <=> Linked(i, a, h)
  BY DEF Linked
<1>5. handle \in [Addrs -> Handles \cup {0}] /\ Peers \subseteq Addrs
  BY DEF TypeOK, Addrs
<1>6. ASSUME NEW i \in Dev, NEW a, NEW h, Linked(i, a, h)
      PROVE  handle'[a] = h \/ \E n \in Pos' : Down(n, h)'
  <2>1. a \in Addrs /\ h # 0
    BY <1>a, <1>5, <1>6 DEF Linked
  <2>2. CASE \E n \in Pos : Down(n, h)
    BY <1>2, <1>3, <2>2
  <2>3. CASE handle[a] = h
    <3>1. CASE LinkMade(e)
      <4>1. e.a # a
        BY <2>1, <2>3, <3>1 DEF LinkMade, QueueIInv, LePagedIsDown
      <4> QED  BY <1>5, <2>1, <2>3, <3>1, <4>1 DEF LinkMade
    <3>2. CASE \E c \in Addrs : LinkLost(c, e)
      <4>1. PICK c \in Addrs : LinkLost(c, e)
        BY <3>2
      <4>2. CASE c = a
        BY <1>2, <1>3, <2>3, <4>1, <4>2 DEF LinkLost
      <4>3. CASE c # a
        BY <1>5, <2>1, <2>3, <4>1, <4>3 DEF LinkLost
      <4> QED  BY <4>2, <4>3
    <3>3. CASE UNCHANGED handle
      BY <2>3, <3>3
    <3> QED  BY <3>1, <3>2, <3>3 DEF Moves, Request, NotMade, Chatter
  <2> QED  BY <1>a, <1>6, <2>2, <2>3
<1>7. ASSUME NEW i \in Dev, NEW n \in Pos', NEW b, NEW g, NEW a \in Addrs, NEW h \in Handles,
             Linked(i, b, g), Up(n, a, h)', a = b \/ h = g
      PROVE  DownBefore(n, g)'
  <2>1. CASE n \in Pos
    <3>1. Up(n, a, h)
      BY <1>3, <1>7, <2>1
    <3>2. DownBefore(n, g)
      BY <1>a, <1>7, <2>1, <3>1
    <3> QED  BY <1>2, <1>3, <3>2 DEF DownBefore
  <2>2. CASE n = L + 1
    <3>1. e.ev \in ConnEvents /\ ~e.err /\ e.a = a /\ e.h = h
      BY <1>3, <1>7, <2>2
    <3>2. LinkMade(e)
      BY <3>1 DEF Moves, Request, NotMade, Chatter, LinkLost, ConnEvents
    <3>3. b \in Addrs /\ g # 0
      BY <1>a, <1>5, <1>7 DEF Linked
    <3>4. handle[b] # g
      <4>1. CASE a = b
        BY <3>1, <3>2, <3>3, <4>1 DEF LinkMade, QueueIInv, LePagedIsDown
      <4>2. CASE h = g
        BY <3>1, <3>2, <3>3, <4>2 DEF LinkMade, FreeHandles
      <4> QED  BY <1>7, <4>1, <4>2
    <3>5. PICK k \in Pos : Down(k, g)
      BY <1>a, <1>7, <3>4
    <3>6. k \in Pos' /\ k < n /\ Down(k, g)'
      BY <1>2, <1>3, <2>2, <3>5
    <3> QED  BY <3>6 DEF DownBefore
  <2> QED  BY <1>2, <2>1, <2>2
<1> QED
  BY <1>a, <1>4, <1>6, <1>7, LinkFactsNext

(* An event handled: a slot that has a link had it before and the event is *)
(* not its end, or it has just got the link the event announces.           *)
LEMMA LinkReceive ==
  ASSUME TypeOK, QueueIInv, LinkIInv, NEW ev, Receive(ev), UNCHANGED handle,
         \A i \in Dev : bt_dev'[i].found => bt_dev'[i].bdaddr \in Peers,
         \A i \in Dev : \A a, h : Linked(i, a, h)' =>
           \/ Linked(i, a, h) /\ ~Down(1, h)
           \/ Up(1, a, h) /\ h \in Handles /\ \A j \in Dev \ {i} : \A b : ~Linked(j, b, h)'
  PROVE  LinkIInv'
<1>a. /\ \A i \in Dev : bt_dev[i].found => bt_dev[i].bdaddr \in Peers
      /\ \A i, j \in Dev : \A a, b, h : Linked(i, a, h) /\ Linked(j, b, h) => i = j
      /\ \A i \in Dev : \A a, h : Linked(i, a, h) => handle[a] = h \/ \E n \in Pos : Down(n, h)
      /\ \A i \in Dev, n \in Pos, a \in Addrs, h \in Handles : \A b, g :
           Linked(i, b, g) /\ Up(n, a, h) /\ (a = b \/ h = g) => DownBefore(n, g)
  BY LinkFacts
<1>1. /\ 1 \in Pos
      /\ \A n \in Pos' : n \in Int /\ n + 1 \in Pos /\ n + 1 > 1 /\ n >= 1
      /\ \A n \in Pos : n \in Int /\ n >= 1 /\ (n # 1 => n - 1 \in Pos' /\ n > 1)
      /\ \A n \in Pos' : \A a, h : Up(n, a, h)' <=> Up(n + 1, a, h)
  BY ReceiveShifts
<1>2. \A n \in Pos : \A h : n > 1 /\ Down(n, h) => n - 1 \in Pos' /\ Down(n - 1, h)'
  BY ReceiveBack
<1>3. \A i \in Dev : \A a, h : Linked(i, a, h)' => a \in Addrs
  BY DEF Linked, Addrs
<1>4. ASSUME NEW i \in Dev, NEW j \in Dev, NEW a, NEW b, NEW h, Linked(i, a, h)', Linked(j, b, h)'
      PROVE  i = j
  BY <1>a, <1>4
<1>5. ASSUME NEW i \in Dev, NEW a, NEW h, Linked(i, a, h)'
      PROVE  handle'[a] = h \/ \E n \in Pos' : Down(n, h)'
  <2>1. ASSUME NEW n \in Pos, n # 1, Down(n, h)
        PROVE  \E m \in Pos' : Down(m, h)'
    <3>1. n > 1
      BY <1>1, <2>1
    <3>2. PICK m : m = n - 1
      OBVIOUS
    <3>3. m \in Pos' /\ Down(m, h)'
      BY <1>2, <2>1, <3>1, <3>2
    <3> QED  BY <3>3
  <2>2. CASE Linked(i, a, h) /\ ~Down(1, h)
    BY <1>a, <2>1, <2>2
  <2>3. CASE Up(1, a, h) /\ h \in Handles
    <3>1. handle[a] = h \/ DownAfter(1, h)
      BY <1>1, <1>3, <1>5, <2>3 DEF QueueIInv, UpOrEnded
    <3> QED  BY <2>1, <3>1 DEF DownAfter
  <2> QED  BY <1>5, <2>2, <2>3
<1>6. ASSUME NEW i \in Dev, NEW n \in Pos', NEW b, NEW g, NEW a \in Addrs, NEW h \in Handles,
             Linked(i, b, g)', Up(n, a, h)', a = b \/ h = g
      PROVE  DownBefore(n, g)'
  <2>1. n + 1 \in Pos /\ Up(n + 1, a, h) /\ n \in Int /\ 1 < n + 1
    BY <1>1, <1>6
  <2>2. ASSUME NEW k \in Pos, k # 1, k < n + 1, Down(k, g)
        PROVE  DownBefore(n, g)'
    <3>1. k > 1 /\ k - 1 < n
      BY <1>1, <2>1, <2>2
    <3>2. PICK m : m = k - 1
      OBVIOUS
    <3>3. m \in Pos' /\ Down(m, g)' /\ m < n
      BY <1>2, <2>2, <3>1, <3>2
    <3> QED  BY <3>3 DEF DownBefore
  <2>3. CASE Linked(i, b, g) /\ ~Down(1, g)
    <3>1. DownBefore(n + 1, g)
      BY <1>a, <1>6, <2>1, <2>3
    <3>2. PICK k \in Pos : k < n + 1 /\ Down(k, g)
      BY <3>1 DEF DownBefore
    <3> QED  BY <2>2, <2>3, <3>2
  <2>4. CASE Up(1, b, g) /\ g \in Handles
    <3>1. b \in Addrs
      BY <1>3, <1>6
    <3>2. PICK k \in Pos : 1 < k /\ k < n + 1 /\ Down(k, g)
      BY <1>1, <1>6, <2>1, <2>4, <3>1 DEF QueueIInv, UpsSeparated
    <3> QED  BY <1>1, <2>2, <3>2
  <2> QED  BY <1>6, <2>3, <2>4
<1> QED
  BY <1>4, <1>5, <1>6, LinkFactsNext

(* What SlotStable says of a step. *)
Stable == \A i \in Dev :
            bt_dev[i].found /\ bt_dev'[i].found =>
              /\ bt_dev'[i].bdaddr = bt_dev[i].bdaddr
              /\ bt_dev[i].acl_handle # 0 => bt_dev'[i].acl_handle = bt_dev[i].acl_handle

(* Every handler takes its event from the queue and leaves slots and links *)
(* in order; a slot that is told of a link had none.                       *)
LEMMA LinkHost ==
  ASSUME TypeOK, SlotIInv, QueueIInv, LinkIInv, HostStep
  PROVE  QueueIInv' /\ LinkIInv' /\ Stable
<1>a. /\ \A i \in Dev : bt_dev[i].found => bt_dev[i].bdaddr \in Peers
      /\ \A i, j \in Dev : \A a, b, h : Linked(i, a, h) /\ Linked(j, b, h) => i = j
      /\ \A i \in Dev, n \in Pos, a \in Addrs, h \in Handles : \A b, g :
           Linked(i, b, g) /\ Up(n, a, h) /\ (a = b \/ h = g) => DownBefore(n, g)
  BY LinkFacts
<1>b. /\ UNCHANGED handle
      /\ \A a \in paging' : a \in paging \/ handle[a] = 0
      /\ \/ \E a \in Addrs : NotesLink(a)
         \/ \E h \in Handles : NotesEnd(h)
         \/ NotesRest
  BY HostMoves
<1>1. ASSUME NEW ev, Receive(ev),
             \A i \in Dev : bt_dev'[i].found => bt_dev'[i].bdaddr \in Peers,
             \A i \in Dev : \A a, h : Linked(i, a, h)' =>
               \/ Linked(i, a, h) /\ ~Down(1, h)
               \/ Up(1, a, h) /\ h \in Handles /\ \A j \in Dev \ {i} : \A b : ~Linked(j, b, h)'
      PROVE  QueueIInv' /\ LinkIInv'
  <2>1. QueueIInv'
    BY <1>b, <1>1, QueueReceive
  <2>2. LinkIInv'
    BY <1>b, <1>1, LinkReceive
  <2> QED  BY <2>1, <2>2
<1>2. ASSUME NEW i \in Dev, SlotFreed(i)
      PROVE  /\ Stable
             /\ \A j \in Dev : bt_dev'[j].found => j # i /\ SameSlot(j)
  BY <1>2 DEF SlotFreed, OthersSame, SameSlot, Stable
<1>3. ASSUME SlotsSame
      PROVE  Stable /\ \A j \in Dev : SameSlot(j)
  BY <1>3 DEF SlotsSame, SameSlot, Stable
<1>4. \A j \in Dev : SameSlot(j) =>
        /\ bt_dev'[j].found => bt_dev'[j].bdaddr \in Peers
        /\ \A a, h : Linked(j, a, h)' <=> Linked(j, a, h)
  BY <1>a DEF SameSlot, Linked
<1>5. ASSUME NotesRest PROVE QueueIInv' /\ LinkIInv' /\ Stable
  <2>1. PICK ev : Receive(ev) /\ ev # "disconn_complete"
    BY <1>5 DEF NotesRest
  <2>2. \A h : ~Down(1, h)
    BY <2>1, ReceiveFacts DEF Down
  <2>3. CASE SlotsSame
    BY <1>1, <1>3, <1>4, <2>1, <2>2, <2>3
  <2>4. ASSUME NEW i \in Dev, SlotFreed(i) PROVE QueueIInv' /\ LinkIInv' /\ Stable
    <3>1. \A j \in Dev : \A a, h : Linked(j, a, h)' => SameSlot(j)
      BY <1>2, <2>4 DEF Linked
    <3> QED  BY <1>1, <1>2, <1>4, <2>1, <2>2, <2>4, <3>1
  <2>5. ASSUME NEW i \in Dev, NEW a \in Peers, SlotTaken(i, a)
        PROVE  QueueIInv' /\ LinkIInv' /\ Stable
    <3>1. \A j \in Dev : j # i => SameSlot(j)
      BY <2>5 DEF SlotTaken, OthersSame
    <3>2. \A b, h : ~Linked(i, b, h)'
      BY <2>5 DEF SlotTaken, Linked
    <3>3. bt_dev'[i].bdaddr \in Peers /\ ~bt_dev[i].found
      BY <2>5 DEF SlotTaken
    <3>4. Stable
      BY <3>1, <3>3 DEF Stable, SameSlot
    <3>5. \A j \in Dev : bt_dev'[j].found => bt_dev'[j].bdaddr \in Peers
      BY <1>4, <3>1, <3>3
    <3>6. \A j \in Dev : \A b, h : Linked(j, b, h)' => Linked(j, b, h) /\ ~Down(1, h)
      BY <1>4, <2>2, <3>1, <3>2
    <3> QED  BY <1>1, <2>1, <3>4, <3>5, <3>6
  <2> QED  BY <1>5, <2>3, <2>4, <2>5 DEF NotesRest
<1>6. ASSUME NEW h \in Handles, NotesEnd(h) PROVE QueueIInv' /\ LinkIInv' /\ Stable
  <2>1. Receive("disconn_complete") /\ Down(1, h) /\ \A g : Down(1, g) => g = h
    BY <1>6, ReceiveFacts DEF NotesEnd, Down
  <2>2. h # 0
    BY DevLinksAssumption
  <2>3. CASE NoDevFromHandle(h) /\ SlotsSame
    <3>1. \A j \in Dev : \A a, g : Linked(j, a, g) => g # h
      BY <2>3 DEF NoDevFromHandle, HasHandle, Linked
    <3> QED  BY <1>1, <1>3, <1>4, <2>1, <2>3, <3>1
  <2>4. ASSUME NEW i \in Dev, DevFromHandle(i, h), SlotFreed(i)
        PROVE  QueueIInv' /\ LinkIInv' /\ Stable
    <3>1. \A j \in Dev : \A a, g : Linked(j, a, g) /\ j # i => g # h
      BY <1>a, <2>2, <2>4 DEF DevFromHandle, HasHandle, Linked
    <3>2. \A j \in Dev : \A a, g : Linked(j, a, g)' => SameSlot(j) /\ j # i
      BY <1>2, <2>4 DEF Linked
    <3>3. \A j \in Dev : \A a, g : Linked(j, a, g)' => Linked(j, a, g) /\ ~Down(1, g)
      BY <1>4, <2>1, <3>1, <3>2
    <3>4. \A j \in Dev : bt_dev'[j].found => bt_dev'[j].bdaddr \in Peers
      BY <1>2, <1>4, <2>4
    <3> QED  BY <1>1, <1>2, <2>1, <2>4, <3>3, <3>4
  <2> QED  BY <1>6, <2>3, <2>4 DEF NotesEnd
<1>7. ASSUME NEW a \in Addrs, NotesLink(a) PROVE QueueIInv' /\ LinkIInv' /\ Stable
  <2>1. PICK ev : Receive(ev) /\ ev \in ConnEvents
    BY <1>7 DEF NotesLink, ConnEvents
  <2>2. PICK h : h = Head(evtq).h
    OBVIOUS
  <2>3. /\ 1 \in Pos /\ Up(1, a, h) /\ \A g : ~Down(1, g)
        /\ evtq[1].ev \in ConnEvents /\ ~evtq[1].err /\ evtq[1].h = h
    BY <1>7, <2>1, <2>2, ReceiveShifts DEF NotesLink, Up, Down, ConnEvents
  <2>4. h \in Handles
    <3>1. h # 0
      BY <2>3 DEF SlotIInv, LinkHasHandle, Pos
    <3>2. h \in Handles \cup {0}
      BY <2>1, <2>2, ReceiveType
    <3> QED  BY <3>1, <3>2
  <2>5. \A i \in Dev : \A b, g : Linked(i, b, g) => b # a /\ g # h
    <3>1. ~\E m \in Pos : m < 1
      BY LenProperties DEF Pos
    <3>2. \A g : ~DownBefore(1, g)
      BY <3>1 DEF DownBefore
    <3> QED  BY <1>a, <2>3, <2>4, <3>2
  <2>6. CASE SlotsSame
    BY <1>1, <1>3, <1>4, <2>1, <2>3, <2>6
  <2>7. ASSUME NEW i \in Dev, DevFromAddr(i, a), SlotLinked(i, h)
        PROVE  QueueIInv' /\ LinkIInv' /\ Stable
    <3>1. \A j \in Dev : j # i => SameSlot(j)
      BY <2>7 DEF SlotLinked, OthersSame
    <3>2. /\ bt_dev[i].found /\ bt_dev[i].bdaddr = a
          /\ bt_dev'[i].found /\ bt_dev'[i].bdaddr = a /\ bt_dev'[i].acl_handle = h
      BY <2>7 DEF SlotLinked, DevFromAddr, HasAddr
    <3>3. bt_dev[i].acl_handle = 0
      BY <2>5, <3>2 DEF Linked
    <3>4. Stable
      BY <3>1, <3>2, <3>3 DEF Stable, SameSlot
    <3>5. \A j \in Dev : bt_dev'[j].found => bt_dev'[j].bdaddr \in Peers
      BY <1>a, <1>4, <3>1, <3>2
    <3>6. \A j \in Dev \ {i} : \A b, g : Linked(j, b, g)' => Linked(j, b, g) /\ g # h
      BY <1>4, <2>5, <3>1
    <3>7. \A b, g : Linked(i, b, g)' => b = a /\ g = h
      BY <3>2 DEF Linked
    <3>8. \A j \in Dev : \A b, g : Linked(j, b, g)' =>
            \/ Linked(j, b, g) /\ ~Down(1, g)
            \/ Up(1, b, g) /\ g \in Handles /\ \A k \in Dev \ {j} : \A c : ~Linked(k, c, g)'
      <4>1. ASSUME NEW j \in Dev, NEW b, NEW g, Linked(j, b, g)'
            PROVE  \/ Linked(j, b, g) /\ ~Down(1, g)
                   \/ Up(1, b, g) /\ g \in Handles /\ \A k \in Dev \ {j} : \A c : ~Linked(k, c, g)'
        <5>1. CASE j = i
          BY <2>3, <2>4, <3>6, <3>7, <4>1, <5>1
        <5>2. CASE j # i
          BY <2>3, <3>6, <4>1, <5>2
        <5> QED  BY <5>1, <5>2
      <4> QED  BY <4>1
    <3> QED  BY <1>1, <2>1, <3>4, <3>5, <3>8
  <2>8. SlotsSame \/ \E i \in Dev : DevFromAddr(i, a) /\ SlotLinked(i, h)
    BY <1>7, <2>2 DEF NotesLink
  <2> QED  BY <2>6, <2>7, <2>8
<1> QED
  BY <1>b, <1>5, <1>6, <1>7

OrderIInv == QueueIInv /\ LinkIInv

(* Every step keeps the order of the events and the link of every slot,    *)
(* and changes no slot in use but by freeing it or giving it its first     *)
(* handle.                                                                 *)
LEMMA OrderStep ==
  TypeOK /\ SlotIInv /\ OrderIInv /\ [Next]_vars => OrderIInv' /\ Stable
<1> SUFFICES ASSUME TypeOK, SlotIInv, OrderIInv, [Next]_vars PROVE OrderIInv' /\ Stable
  OBVIOUS
<1>a. QueueIInv /\ LinkIInv
  BY DEF OrderIInv
<1>1. bt_dev' = bt_dev => Stable
  BY DEF Stable
<1>2. ASSUME UNCHANGED <<bt_dev, handle, paging, evtq>> PROVE OrderIInv' /\ Stable
  <2>1. QueueIInv'
    BY <1>a, <1>2
    DEF QueueIInv, OneLinkPerHandle, LePagedIsDown, UpOrEnded, UpsSeparated, DownIsOld, UpIsOld,
        UpAfter, DownAfter, Up, Down, Pos
  <2>2. LinkIInv'
    BY <1>a, <1>2
    DEF LinkIInv, SlotHasPeer, SlotOwnsLink, SlotUpOrEnded, EndsFirst, DownBefore, Up, Down, Pos
  <2> QED  BY <1>1, <1>2, <2>1, <2>2 DEF OrderIInv
<1>3. CASE HostStep
  BY <1>a, <1>3, LinkHost DEF OrderIInv
<1>4. CASE ButtonStep \/ UNCHANGED vars
  <2>1. bt_dev' = bt_dev
    BY <1>4, OtherEffect
  <2>2. UNCHANGED <<handle, paging, evtq>>
    BY <1>4 DEF ButtonStep, BtnStopInquiry, BtnStopInquiryEnd, BtnStartInquiry,
                BtnStartInquiryEnd, BtnDisconnectAll, DisconnectNext, linkVars, vars
  <2> QED  BY <1>2, <2>1, <2>2
<1>5. CASE ControllerStep
  <2>1. UNCHANGED bt_dev
    BY <1>5, ControllerMoves
  <2>2. ASSUME NEW e \in EventRec, Moves(e) PROVE OrderIInv'
    BY <1>a, <2>1, <2>2, QueueEmit, LinkEmit DEF OrderIInv
  <2> QED  BY <1>1, <1>2, <1>5, <2>1, <2>2, ControllerMoves
<1> QED
  BY <1>3, <1>4, <1>5 DEF Next

(* At power-on there is neither a slot, nor a link, nor an event. *)
LEMMA OrderInit == Init => OrderIInv
<1> SUFFICES ASSUME Init PROVE OrderIInv
  OBVIOUS
<1>1. Pos = {} /\ paging = {}
  BY DEF Init, Pos
<1>2. \A a \in Addrs : handle[a] = 0
  BY DEF Init
<1>3. \A i \in Dev : ~bt_dev[i].found
  BY DEF Init, FreeDev
<1>4. QueueIInv
  BY <1>1, <1>2 DEF QueueIInv, OneLinkPerHandle, LePagedIsDown, UpOrEnded, UpsSeparated,
                    DownIsOld, UpIsOld
<1>5. LinkIInv
  BY <1>1, <1>3 DEF LinkIInv, SlotHasPeer, SlotOwnsLink, SlotUpOrEnded, EndsFirst
<1> QED
  BY <1>4, <1>5 DEF OrderIInv

(* A slot in use is freed before it is given to another peer, and keeps    *)
(* its handle once it has one: the end of a link always reaches the host   *)
(* before the next link of the same peer.                                  *)
THEOREM SlotsKept == Spec => SlotStable
<1>1. Stable /\ [Next]_vars =>
        [\A i \in Dev :
           bt_dev[i].found /\ bt_dev'[i].found =>
             /\ bt_dev'[i].bdaddr = bt_dev[i].bdaddr
             /\ bt_dev[i].acl_handle # 0 => bt_dev'[i].acl_handle = bt_dev[i].acl_handle]_vars
  BY DEF Stable
<1>2. Init => SlotIInv
  BY DEF Init, SlotIInv, SlotBacked, RequestStands, LinkHasHandle, FreeDev
<1>3. /\ TypeOK /\ UniqueBdaddr /\ SlotIInv /\ OrderIInv /\ [Next]_vars
        => /\ SlotIInv' /\ OrderIInv'
           /\ [\A i \in Dev :
                 bt_dev[i].found /\ bt_dev'[i].found =>
                   /\ bt_dev'[i].bdaddr = bt_dev[i].bdaddr
                   /\ bt_dev[i].acl_handle # 0 => bt_dev'[i].acl_handle = bt_dev[i].acl_handle]_vars
  BY <1>1, BackedStep, OrderStep
<1> QED
  BY <1>2, <1>3, OrderInit, TypeCorrect, OneSlotPerPeer, PTL DEF Spec, SlotStable

-----------------------------------------------------------------------------
(* A link has a slot *)

UpComing(a) == \E n \in Pos : evtq[n].ev \in ConnEvents /\ ~evtq[n].err /\ evtq[n].a = a

(* A link with a controller has its slot, or its event is under way; and   *)
(* who is linked, paged or accepted has a slot to come.  Only the slots    *)
(* freed under a link, recorded in abandoned, are excepted.                *)
LinkHasSlot == \A a \in Peers :
                 handle[a] # 0 =>
                   \/ a \in abandoned \/ UpComing(a)
                   \/ \E i \in Dev : HasAddr(i, a) /\ bt_dev[i].acl_handle = handle[a]

PeerHasSlot == \A a \in Peers :
                 handle[a] # 0 \/ a \in paging \cup accepted =>
                   a \in abandoned \/ ~NoDevFromAddr(a)

KeptIInv == LinkHasSlot /\ PeerHasSlot

(* A link made by the controller has its event under way, and its peer was *)
(* paged or accepted before.                                               *)
LEMMA KeptEmit ==
  ASSUME TypeOK, QueueIInv, KeptIInv, NEW e \in EventRec, Moves(e), UNCHANGED bt_dev
  PROVE  KeptIInv'
<1>0. PICK L : L = Len(evtq)
  OBVIOUS
<1>1. /\ L \in Nat /\ Len(evtq') = L + 1
      /\ \A n \in 1..L : evtq'[n] = evtq[n]
      /\ evtq'[L + 1] = e
  BY <1>0, EmitFacts DEF Moves
<1>2. (\A n \in Pos : n \in Pos') /\ L + 1 \in Pos'
  BY <1>0, <1>1 DEF Pos
<1>3. \A a : UpComing(a) => UpComing(a)'
  BY <1>0, <1>1, <1>2 DEF UpComing, Pos
<1>4. LinkMade(e) => UpComing(e.a)'
  BY <1>1, <1>2 DEF LinkMade, Ends, UpComing
<1>5. handle \in [Addrs -> Handles \cup {0}] /\ Peers \subseteq Addrs
  BY DEF TypeOK, Addrs
<1>6. paging' \subseteq paging /\ accepted' \subseteq accepted
  BY DEF Moves, Request, LinkMade, NotMade, Ends, Chatter, LinkLost
<1>7. ASSUME NEW a \in Peers
      PROVE  \/ handle'[a] = handle[a] /\ (a \in abandoned => a \in abandoned')
             \/ /\ LinkMade(e) /\ e.a = a /\ a \in paging \cup accepted
                /\ abandoned' = abandoned
             \/ handle'[a] = 0 /\ (a \in paging \cup accepted => abandoned' = abandoned)
  <2>1. CASE LinkMade(e)
    <3>1. CASE e.a = a
      <4>1. a \notin Clients
        BY DevLinksAssumption
      <4> QED  BY <2>1, <3>1, <4>1 DEF LinkMade, Ends
    <3>2. CASE e.a # a
      BY <1>5, <2>1, <3>2 DEF LinkMade, Ends
    <3> QED  BY <3>1, <3>2
  <2>2. ASSUME NEW c \in Addrs, LinkLost(c, e)
        PROVE  \/ handle'[a] = handle[a] /\ (a \in abandoned => a \in abandoned')
               \/ handle'[a] = 0 /\ (a \in paging \cup accepted => abandoned' = abandoned)
    <3>1. CASE c = a
      BY <1>5, <2>2, <3>1 DEF LinkLost
    <3>2. CASE c # a
      BY <1>5, <2>2, <3>2 DEF LinkLost
    <3> QED  BY <3>1, <3>2
  <2>3. CASE Request(e) \/ NotMade(e) \/ Chatter(e)
    BY <2>3 DEF Request, NotMade, Ends, Chatter
  <2> QED  BY <2>1, <2>2, <2>3 DEF Moves
<1>8. ASSUME NEW a \in Peers, handle'[a] # 0
      PROVE  \/ a \in abandoned' \/ UpComing(a)'
             \/ \E i \in Dev : HasAddr(i, a)' /\ bt_dev'[i].acl_handle = handle'[a]
  BY <1>3, <1>4, <1>7, <1>8 DEF KeptIInv, LinkHasSlot, HasAddr
<1>9. ASSUME NEW a \in Peers, handle'[a] # 0 \/ a \in paging' \cup accepted'
      PROVE  a \in abandoned' \/ ~NoDevFromAddr(a)'
  <2>1. NoDevFromAddr(a)' <=> NoDevFromAddr(a)
    BY DEF NoDevFromAddr, HasAddr
  <2> QED  BY <1>6, <1>7, <1>9, <2>1 DEF KeptIInv, PeerHasSlot
<1> QED
  BY <1>8, <1>9 DEF KeptIInv, LinkHasSlot, PeerHasSlot

(* A handler that frees a slot records the peer in abandoned when a link   *)
(* of it is up or on its way; one that takes a slot or notes a link only   *)
(* adds to what is kept.                                                   *)
LEMMA KeptHost ==
  ASSUME TypeOK, UniqueBdaddr, SlotIInv, OrderIInv, KeptIInv, HostStep
  PROVE  KeptIInv'
<1>b. /\ UNCHANGED handle
      /\ \/ \E a \in Addrs : NotesLink(a)
         \/ \E h \in Handles : NotesEnd(h)
         \/ NotesRest
  BY HostMoves
<1>c. /\ \A a \in Peers : handle[a] # 0 =>
           \/ a \in abandoned \/ UpComing(a)
           \/ \E i \in Dev : HasAddr(i, a) /\ bt_dev[i].acl_handle = handle[a]
      /\ \A a \in Peers : handle[a] # 0 \/ a \in paging \cup accepted =>
           a \in abandoned \/ ~NoDevFromAddr(a)
  BY DEF KeptIInv, LinkHasSlot, PeerHasSlot
<1>d. \A a : OnItsWay(a) <=> a \in paging \cup accepted \/ UpComing(a)'
  BY DEF OnItsWay, UpComing, ConnEvents, Pos
<1>1. ASSUME NEW ev, Receive(ev), NEW b, UpComing(b),
             ~(ev \in ConnEvents /\ ~Head(evtq).err /\ Head(evtq).a = b)
      PROVE  UpComing(b)'
  <2>1. /\ Len(evtq) \in Nat /\ Len(evtq) >= 1 /\ Len(evtq') = Len(evtq) - 1
        /\ \A n \in 1..Len(evtq') : evtq'[n] = evtq[n + 1]
        /\ evtq[1] = Head(evtq) /\ evtq[1].ev = ev
    BY <1>1, ReceiveFacts
  <2>2. PICK n \in Pos : evtq[n].ev \in ConnEvents /\ ~evtq[n].err /\ evtq[n].a = b
    BY <1>1 DEF UpComing
  <2>3. n # 1
    BY <1>1, <2>1, <2>2
  <2>4. n - 1 \in Pos' /\ (n - 1) + 1 = n
    BY <2>1, <2>2, <2>3 DEF Pos
  <2>5. evtq'[n - 1] = evtq[n]
    BY <2>1, <2>4 DEF Pos
  <2> QED  BY <2>2, <2>4, <2>5 DEF UpComing
<1>2. \A j \in Dev, a \in Peers : SameSlot(j) =>
        /\ HasAddr(j, a)' <=> HasAddr(j, a)
        /\ bt_dev'[j].acl_handle = bt_dev[j].acl_handle
  BY DEF SameSlot, HasAddr
<1>3. \A a : ~NoDevFromAddr(a)' <=> \E i \in Dev : HasAddr(i, a)'
  BY DEF NoDevFromAddr
<1>4. \A a : ~NoDevFromAddr(a) <=> \E i \in Dev : HasAddr(i, a)
  BY DEF NoDevFromAddr
<1>5. ASSUME \A a \in Peers : handle'[a] # 0 =>
               \/ a \in abandoned' \/ UpComing(a)'
               \/ \E i \in Dev : HasAddr(i, a)' /\ bt_dev'[i].acl_handle = handle'[a],
             \A a \in Peers : handle'[a] # 0 \/ a \in paging' \cup accepted' =>
               a \in abandoned' \/ \E i \in Dev : HasAddr(i, a)'
      PROVE  KeptIInv'
  BY <1>3, <1>5 DEF KeptIInv, LinkHasSlot, PeerHasSlot
<1>6. ASSUME NotesRest PROVE KeptIInv'
  <2>1. PICK ev : Receive(ev) /\ (ev \notin ConnEvents \/ Head(evtq).err)
    BY <1>6 DEF NotesRest
  <2>2. \A a : UpComing(a) => UpComing(a)'
    BY <1>1, <2>1
  <2>3. CASE /\ SlotsSame /\ UNCHANGED <<abandoned, accepted>>
             /\ \/ UNCHANGED paging
                \/ \E a \in Peers : paging' \subseteq paging \cup {a} /\ ~NoDevFromAddr(a)
    <3>1. \A j \in Dev : SameSlot(j)
      BY <2>3 DEF SlotsSame
    <3>2. ASSUME NEW a \in Peers, handle'[a] # 0
          PROVE  \/ a \in abandoned' \/ UpComing(a)'
                 \/ \E i \in Dev : HasAddr(i, a)' /\ bt_dev'[i].acl_handle = handle'[a]
      BY <1>b, <1>c, <1>2, <2>2, <2>3, <3>1, <3>2
    <3>3. ASSUME NEW a \in Peers, handle'[a] # 0 \/ a \in paging' \cup accepted'
          PROVE  a \in abandoned' \/ \E i \in Dev : HasAddr(i, a)'
      BY <1>b, <1>c, <1>2, <1>4, <2>3, <3>1, <3>3
    <3> QED  BY <1>5, <3>2, <3>3
  <2>4. ASSUME NEW k \in Dev, NEW c \in Peers, SlotTaken(k, c),
               paging' \subseteq paging \cup {c}, accepted' \subseteq accepted \cup {c},
               UNCHANGED abandoned
        PROVE  KeptIInv'
    <3>1. \A j \in Dev : j # k => SameSlot(j)
      BY <2>4 DEF SlotTaken, OthersSame
    <3>2. HasAddr(k, c)' /\ \A a : ~HasAddr(k, a)
      BY <2>4 DEF SlotTaken, HasAddr
    <3>3. ASSUME NEW a \in Peers, handle'[a] # 0
          PROVE  \/ a \in abandoned' \/ UpComing(a)'
                 \/ \E i \in Dev : HasAddr(i, a)' /\ bt_dev'[i].acl_handle = handle'[a]
      BY <1>b, <1>c, <1>2, <2>2, <2>4, <3>1, <3>2, <3>3
    <3>4. ASSUME NEW a \in Peers, handle'[a] # 0 \/ a \in paging' \cup accepted'
          PROVE  a \in abandoned' \/ \E i \in Dev : HasAddr(i, a)'
      BY <1>b, <1>c, <1>2, <1>4, <2>4, <3>1, <3>2, <3>4
    <3> QED  BY <1>5, <3>3, <3>4
  <2>5. ASSUME NEW k \in Dev, NEW c \in Peers, DevFromAddr(k, c), SlotFreed(k),
               abandoned' = abandoned \cup {b \in {c} : handle[b] # 0 \/ OnItsWay(b)},
               UNCHANGED <<paging, accepted>>
        PROVE  KeptIInv'
    <3>1. \A j \in Dev : j # k => SameSlot(j)
      BY <2>5 DEF SlotFreed, OthersSame
    <3>2. \A a : HasAddr(k, a) => a = c
      BY <2>5 DEF DevFromAddr, HasAddr
    <3>3. /\ abandoned \subseteq abandoned'
          /\ handle[c] # 0 \/ c \in paging \cup accepted => c \in abandoned'
      BY <1>d, <2>5
    <3>4. ASSUME NEW a \in Peers, handle'[a] # 0
          PROVE  \/ a \in abandoned' \/ UpComing(a)'
                 \/ \E i \in Dev : HasAddr(i, a)' /\ bt_dev'[i].acl_handle = handle'[a]
      BY <1>b, <1>c, <1>2, <2>2, <3>1, <3>2, <3>3, <3>4
    <3>5. ASSUME NEW a \in Peers, handle'[a] # 0 \/ a \in paging' \cup accepted'
          PROVE  a \in abandoned' \/ \E i \in Dev : HasAddr(i, a)'
      BY <1>b, <1>c, <1>2, <1>4, <2>5, <3>1, <3>2, <3>3, <3>5
    <3> QED  BY <1>5, <3>4, <3>5
  <2> QED  BY <1>6, <2>3, <2>4, <2>5 DEF NotesRest
<1>7. ASSUME NEW h \in Handles, NotesEnd(h) PROVE KeptIInv'
  <2>1. Receive("disconn_complete") /\ Down(1, h) /\ 1 \in Pos
        /\ UNCHANGED <<paging, accepted>> /\ Head(evtq).ev \notin ConnEvents
    BY <1>7, ReceiveShifts DEF NotesEnd, Down, ConnEvents
  <2>2. \A a : UpComing(a) => UpComing(a)'
    BY <1>1, <2>1 DEF ConnEvents
  <2>3. CASE SlotsSame /\ UNCHANGED abandoned
    <3>1. \A j \in Dev : SameSlot(j)
      BY <2>3 DEF SlotsSame
    <3> QED  BY <1>b, <1>c, <1>2, <1>4, <1>5, <2>1, <2>2, <2>3, <3>1
  <2>4. ASSUME NEW k \in Dev, DevFromHandle(k, h), SlotFreed(k),
               abandoned' = abandoned \cup {a \in Peers : HasAddr(k, a) /\ OnItsWay(a)}
        PROVE  KeptIInv'
    <3>1. \A j \in Dev : j # k => SameSlot(j)
      BY <2>4 DEF SlotFreed, OthersSame
    <3>2. bt_dev[k].found /\ bt_dev[k].acl_handle = h
      BY <2>4 DEF DevFromHandle, HasHandle
    <3>3. \A a \in Peers : /\ a \in abandoned => a \in abandoned'
                           /\ HasAddr(k, a) /\ (a \in paging \cup accepted \/ UpComing(a)')
                                => a \in abandoned'
      BY <1>d, <2>4
    <3>4. ASSUME NEW a \in Peers, handle[a] = h
          PROVE  UpComing(a)'
      <4>1. h # 0 /\ a \in Addrs
        BY DevLinksAssumption DEF Addrs
      <4>2. UpAfter(1, a, h)
        BY <2>1, <3>4, <4>1 DEF OrderIInv, QueueIInv, DownIsOld
      <4>3. UpComing(a)
        BY <4>2 DEF UpAfter, Up, UpComing
      <4> QED  BY <2>2, <4>3
    <3>5. ASSUME NEW a \in Peers, handle'[a] # 0
          PROVE  \/ a \in abandoned' \/ UpComing(a)'
                 \/ \E i \in Dev : HasAddr(i, a)' /\ bt_dev'[i].acl_handle = handle'[a]
      <4>1. CASE a \in abandoned \/ UpComing(a)
        BY <2>2, <3>3, <4>1
      <4>2. ASSUME NEW i \in Dev, HasAddr(i, a), bt_dev[i].acl_handle = handle[a]
            PROVE  \/ UpComing(a)'
                   \/ HasAddr(i, a)' /\ bt_dev'[i].acl_handle = handle'[a]
        <5>1. CASE i = k
          BY <3>2, <3>4, <4>2, <5>1
        <5>2. CASE i # k
          BY <1>b, <1>2, <3>1, <4>2, <5>2
        <5> QED  BY <5>1, <5>2
      <4> QED  BY <1>b, <1>c, <3>5, <4>1, <4>2
    <3>6. ASSUME NEW a \in Peers, handle'[a] # 0 \/ a \in paging' \cup accepted'
          PROVE  a \in abandoned' \/ \E i \in Dev : HasAddr(i, a)'
      <4>1. a \in abandoned \/ \E i \in Dev : HasAddr(i, a)
        BY <1>b, <1>c, <1>4, <2>1, <3>6
      <4>2. CASE HasAddr(k, a)
        BY <2>1, <3>3, <3>5, <3>6, <4>2
      <4>3. CASE ~HasAddr(k, a)
        BY <1>2, <3>1, <3>3, <4>1, <4>3
      <4> QED  BY <4>2, <4>3
    <3> QED  BY <1>5, <3>5, <3>6
  <2> QED  BY <1>7, <2>3, <2>4 DEF NotesEnd
<1>8. ASSUME NEW c \in Addrs, NotesLink(c) PROVE KeptIInv'
  <2>1. PICK ev : Receive(ev) /\ ev \in ConnEvents
    BY <1>8 DEF NotesLink, ConnEvents
  <2>2. PICK h : h = Head(evtq).h
    OBVIOUS
  <2>3. /\ 1 \in Pos /\ Up(1, c, h) /\ Head(evtq).a = c
        /\ evtq[1].ev \in ConnEvents /\ ~evtq[1].err /\ evtq[1].h = h
        /\ UNCHANGED <<paging, accepted>>
    BY <1>8, <2>1, <2>2, ReceiveShifts DEF NotesLink, Up, ConnEvents
  <2>4. h \in Handles
    <3>1. h # 0
      BY <2>3 DEF SlotIInv, LinkHasHandle, Pos
    <3>2. h \in Handles \cup {0}
      BY <2>1, <2>2, ReceiveType
    <3> QED  BY <3>1, <3>2
  <2>5. \A a : UpComing(a) /\ a # c => UpComing(a)'
    BY <1>1, <2>1, <2>3
  <2>6. CASE NoDevFromAddr(c) /\ SlotsSame /\ UNCHANGED abandoned
    <3>1. \A j \in Dev : SameSlot(j)
      BY <2>6 DEF SlotsSame
    <3>2. ASSUME NEW a \in Peers, handle'[a] # 0
          PROVE  \/ a \in abandoned' \/ UpComing(a)'
                 \/ \E i \in Dev : HasAddr(i, a)' /\ bt_dev'[i].acl_handle = handle'[a]
      BY <1>b, <1>c, <1>2, <2>5, <2>6, <3>1, <3>2
    <3>3. ASSUME NEW a \in Peers, handle'[a] # 0 \/ a \in paging' \cup accepted'
          PROVE  a \in abandoned' \/ \E i \in Dev : HasAddr(i, a)'
      BY <1>b, <1>c, <1>2, <1>4, <2>3, <2>6, <3>1, <3>3
    <3> QED  BY <1>5, <3>2, <3>3
  <2>7. ASSUME NEW k \in Dev, DevFromAddr(k, c), SlotLinked(k, h), abandoned' = abandoned \ {c}
        PROVE  KeptIInv'
    <3>1. \A j \in Dev : j # k => SameSlot(j)
      BY <2>7 DEF SlotLinked, OthersSame
    <3>2. HasAddr(k, c) /\ HasAddr(k, c)' /\ bt_dev'[k].acl_handle = h
      BY <2>7 DEF SlotLinked, DevFromAddr, HasAddr
    <3>3. \A a \in Peers : HasAddr(k, a) => a = c
      BY <3>2 DEF HasAddr
    <3>4. ASSUME handle[c] # 0, handle[c] # h
          PROVE  UpComing(c)'
      <4>1. UpAfter(1, c, handle[c])
        BY <2>3, <2>4, <3>4 DEF OrderIInv, QueueIInv, UpIsOld
      <4>2. PICK n \in Pos : n > 1 /\ Up(n, c, handle[c])
        BY <4>1 DEF UpAfter
      <4>3. PICK g : g = handle[c]
        OBVIOUS
      <4>4. PICK m : m = n - 1
        OBVIOUS
      <4>5. m \in Pos' /\ Up(m, c, g)'
        BY <2>1, <4>2, <4>3, <4>4, ReceiveBack
      <4> QED  BY <4>5 DEF Up, UpComing
    <3>5. ASSUME NEW a \in Peers, handle'[a] # 0
          PROVE  \/ a \in abandoned' \/ UpComing(a)'
                 \/ \E i \in Dev : HasAddr(i, a)' /\ bt_dev'[i].acl_handle = handle'[a]
      <4>1. CASE a = c
        BY <1>b, <3>2, <3>4, <3>5, <4>1
      <4>2. CASE a # c
        BY <1>b, <1>c, <1>2, <2>5, <2>7, <3>1, <3>3, <3>5, <4>2
      <4> QED  BY <4>1, <4>2
    <3>6. ASSUME NEW a \in Peers, handle'[a] # 0 \/ a \in paging' \cup accepted'
          PROVE  a \in abandoned' \/ \E i \in Dev : HasAddr(i, a)'
      <4>1. CASE a = c
        BY <3>2, <4>1
      <4>2. CASE a # c
        BY <1>b, <1>c, <1>2, <1>4, <2>3, <2>7, <3>1, <3>3, <3>6, <4>2
      <4> QED  BY <4>1, <4>2
    <3> QED  BY <1>5, <3>5, <3>6
  <2>8. \/ NoDevFromAddr(c) /\ SlotsSame /\ UNCHANGED abandoned
        \/ /\ \E i \in Dev : DevFromAddr(i, c) /\ SlotLinked(i, h)
           /\ abandoned' = abandoned \ {c}
    BY <1>8, <2>2 DEF NotesLink
  <2> QED  BY <2>6, <2>7, <2>8
<1> QED
  BY <1>b, <1>6, <1>7, <1>8

(* Every step keeps what is recorded of the links. *)
LEMMA KeptStep ==
  TypeOK /\ UniqueBdaddr /\ SlotIInv /\ OrderIInv /\ KeptIInv /\ [Next]_vars => KeptIInv'
<1> SUFFICES ASSUME TypeOK, UniqueBdaddr, SlotIInv, OrderIInv, KeptIInv, [Next]_vars
             PROVE  KeptIInv'
  OBVIOUS
<1>1. CASE HostStep
  BY <1>1, KeptHost
<1>2. CASE ButtonStep \/ UNCHANGED vars
  <2>1. bt_dev' = bt_dev
    BY <1>2, OtherEffect
  <2>2. UNCHANGED <<handle, paging, accepted, abandoned, evtq>>
    BY <1>2 DEF ButtonStep, BtnStopInquiry, BtnStopInquiryEnd, BtnStartInquiry,
                BtnStartInquiryEnd, BtnDisconnectAll, DisconnectNext, linkVars, vars
  <2> QED
    BY <2>1, <2>2
    DEF KeptIInv, LinkHasSlot, PeerHasSlot, UpComing, Pos, NoDevFromAddr, HasAddr
<1>3. CASE ControllerStep
  <2>1. UNCHANGED bt_dev
    BY <1>3, ControllerMoves
  <2>2. ASSUME NEW e \in EventRec, Moves(e) PROVE KeptIInv'
    BY <2>1, <2>2, KeptEmit DEF OrderIInv
  <2>3. CASE UNCHANGED <<handle, paging, accepted, abandoned, evtq>>
    BY <2>1, <2>3
    DEF KeptIInv, LinkHasSlot, PeerHasSlot, UpComing, Pos, NoDevFromAddr, HasAddr
  <2> QED  BY <1>3, <2>2, <2>3, ControllerMoves
<1> QED
  BY <1>1, <1>2, <1>3 DEF Next

(* The order of the events gives the first half of HandleMatchesLink, what *)
(* is kept of a link the second.                                           *)
LEMMA HandlesFollow == TypeOK /\ OrderIInv /\ KeptIInv => HandleMatchesLink
<1> SUFFICES ASSUME TypeOK, OrderIInv, KeptIInv PROVE HandleMatchesLink
  OBVIOUS
<1>1. ASSUME NEW i \in Dev, bt_dev[i].found, bt_dev[i].acl_handle # 0
      PROVE  \/ handle[bt_dev[i].bdaddr] = bt_dev[i].acl_handle
             \/ \E n \in 1..Len(evtq) : /\ evtq[n].ev = "disconn_complete"
                                        /\ evtq[n].h = bt_dev[i].acl_handle
  <2>1. bt_dev[i].acl_handle \in Handles
    BY <1>1 DEF TypeOK, DevRec
  <2>2. bt_dev[i].bdaddr \in Addrs
    BY <1>1 DEF OrderIInv, LinkIInv, SlotHasPeer, Addrs
  <2>3. Linked(i, bt_dev[i].bdaddr, bt_dev[i].acl_handle)
    BY <1>1, <2>1 DEF Linked
  <2>4. \/ handle[bt_dev[i].bdaddr] = bt_dev[i].acl_handle
        \/ \E n \in Pos : Down(n, bt_dev[i].acl_handle)
    BY <2>3, LinkFacts DEF OrderIInv
  <2> QED  BY <2>4 DEF Down, Pos
<1>2. ASSUME NEW a \in Peers, handle[a] # 0
      PROVE  \/ a \in abandoned
             \/ \E i \in Dev : HasAddr(i, a) /\ bt_dev[i].acl_handle = handle[a]
             \/ \E n \in 1..Len(evtq) : /\ evtq[n].ev \in {"conn_complete", "le_conn_complete"}
                                        /\ evtq[n].a = a /\ ~evtq[n].err
  BY <1>2 DEF KeptIInv, LinkHasSlot, UpComing, ConnEvents, Pos
<1> QED
  BY <1>1, <1>2 DEF HandleMatchesLink

(* A slot with a handle has its link in the controller or the end of it on *)
(* the way; a link has its slot or its event on the way, unless the slot   *)
(* was freed under it.                                                     *)
THEOREM HandlesMatch == Spec => []HandleMatchesLink
<1>1. Init => SlotIInv
  BY DEF Init, SlotIInv, SlotBacked, RequestStands, LinkHasHandle, FreeDev
<1>2. Init => KeptIInv
  <2> SUFFICES ASSUME Init PROVE KeptIInv
    OBVIOUS
  <2>1. /\ \A a \in Peers : handle[a] = 0
        /\ paging = {} /\ accepted = {}
    BY DEF Init, Addrs
  <2> QED  BY <2>1 DEF KeptIInv, LinkHasSlot, PeerHasSlot
<1>3. TypeOK /\ UniqueBdaddr /\ SlotIInv /\ OrderIInv /\ KeptIInv /\ [Next]_vars
        => SlotIInv' /\ OrderIInv' /\ KeptIInv'
  BY BackedStep, OrderStep, KeptStep
<1> QED
  BY <1>1, <1>2, <1>3, OrderInit, HandlesFollow, TypeCorrect, OneSlotPerPeer, PTL DEF Spec
=============================================================================
