---------------------------- MODULE H5LinkProofs ----------------------------
(***************************************************************************)
(* Proofs about H5Link, for all controllers, any number of retries, any    *)
(* length of the line and any number of frames that are lost.              *)
(***************************************************************************)
EXTENDS H5Link, TLAPS

-----------------------------------------------------------------------------
(* Frames and queues.                                                      *)

LEMMA PutRange ==
  ASSUME NEW S, NEW queue \in Seq(S), NEW f \in S
  PROVE  Put(queue, f) \in Seq(S) /\ Range(Put(queue, f)) \subseteq Range(queue) \cup {f}
BY DEF Put, Range

LEMMA TailRange ==
  ASSUME NEW S, NEW queue \in Seq(S), queue # <<>>
  PROVE  /\ Tail(queue) \in Seq(S) /\ Range(Tail(queue)) \subseteq Range(queue)
         /\ Head(queue) \in S /\ Head(queue) \in Range(queue)
BY DEF Range

LEMMA ElementRange ==
  ASSUME NEW S, NEW queue \in Seq(S), NEW n \in DOMAIN queue
  PROVE  queue[n] \in S /\ queue[n] \in Range(queue)
BY DEF Range

LEMMA FrameTypes ==
  ASSUME TypeOK, NEW kind \in Commands \cup LinkControl \cup {"ack"}, NEW index \in 0 .. 127
  PROVE  /\ h5_prepare_pkt(kind, index) \in Frame
         /\ h5_prepare_pkt(kind, index).kind = kind
         /\ kind \in Commands => h5_prepare_pkt(kind, index).seq = msgq_txseq
BY DEF TypeOK, h5_prepare_pkt, Frame

LEMMA NextSeqType ==
  ASSUME NEW s \in 0 .. 7
  PROVE  /\ NextSeq(s) \in 0 .. 7
         /\ (NextSeq(s) + 7) % 8 = s
         /\ s < 7 => NextSeq(s) = s + 1
BY SMTT(30) DEF NextSeq

LEMMA Kinds ==
  /\ Commands = {"lmp", "rom", "rate", "patch"}
  /\ LinkControl = {"sync", "syncresp", "conf", "confresp"}
BY DEF Commands, LinkControl

LEMMA AckType ==
  ASSUME TypeOK, NEW n \in 0 .. 7
  PROVE  [h5_prepare_pkt("ack", 0) EXCEPT !.ack = n] \in Frame
<1>1. h5_prepare_pkt("ack", 0) \in Frame
  BY FrameTypes
<1> HIDE DEF h5_prepare_pkt
<1> QED
  BY <1>1 DEF Frame

LEMMA AnswerType ==
  ASSUME NEW kind \in LinkControl
  PROVE  /\ Answer(kind) \in Frame /\ Answer(kind).kind = kind
         /\ [NoFrame EXCEPT !.kind = kind] = Answer(kind)
BY DEF Answer, NoFrame, Frame

-----------------------------------------------------------------------------
(* The types.                                                              *)

LinkStates == {"H5_SYNC", "H5_CONFIG", "H5_INIT", "H5_PATCH", "H5_ACTIVE"}
CommandStates == {"cmd_not_send", "cmd_has_sent", "event_received"}

\* What hci_recv_frame may change.
ReceiverTypes ==
  /\ link_estab_state \in LinkStates
  /\ host_last_cmd \in Frame \cup {NoFrame}
  /\ rx_index \in -1 .. 127
  /\ hci_version_cmd_state \in CommandStates /\ rom_version_cmd_state \in CommandStates
  /\ toCtrl \in Seq(Frame)

LEMMA ReceiveTypes ==
  ASSUME TypeOK, NEW f \in Frame, hci_recv_frame(f), rxseq_txack' \in 0 .. 7
  PROVE  ReceiverTypes'
<1>1. ReceiverTypes /\ total_num \in 0 .. 127
  BY DEF TypeOK, ReceiverTypes, LinkStates, CommandStates
<1>2. /\ Put(toCtrl, h5_prepare_pkt("syncresp", 0)) \in Seq(Frame)
      /\ Put(toCtrl, h5_prepare_pkt("confresp", 0)) \in Seq(Frame)
      /\ rtk_send_pure_ack_down(toCtrl) \in Seq(Frame)
      /\ Put(toCtrl, [h5_prepare_pkt("ack", 0) EXCEPT !.ack = rxseq_txack']) \in Seq(Frame)
  <2>1. /\ h5_prepare_pkt("syncresp", 0) \in Frame /\ h5_prepare_pkt("confresp", 0) \in Frame
        /\ h5_prepare_pkt("ack", 0) \in Frame
    BY FrameTypes, Kinds
  <2>2. [h5_prepare_pkt("ack", 0) EXCEPT !.ack = rxseq_txack'] \in Frame
    BY AckType
  <2> HIDE DEF h5_prepare_pkt
  <2> QED
    BY <1>1, <2>1, <2>2, PutRange DEF ReceiverTypes, rtk_send_pure_ack_down
<1>3. CASE RecvSync(f)
  BY <1>1, <1>2, <1>3 DEF RecvSync, ReceiverTypes, LinkStates, versions
<1>4. CASE RecvConfig(f)
  <2>1. toCtrl' \in Seq(Frame)
    BY <1>1, <1>2, <1>4 DEF RecvConfig, ReceiverTypes
  <2> QED
    BY <1>1, <1>4, <2>1 DEF RecvConfig, ReceiverTypes, LinkStates, versions
<1>5. CASE RecvInit(f)
  <2>1. toCtrl' \in Seq(Frame) /\ rx_index' = rx_index
    BY <1>2, <1>5 DEF RecvInit
  <2>2. CASE Reliable(f)
    BY <1>1, <1>5, <2>1, <2>2
       DEF RecvInit, hci_event_cmd_complete, ReceiverTypes, LinkStates, CommandStates
  <2>3. CASE ~Reliable(f)
    BY <1>1, <1>5, <2>1, <2>3 DEF RecvInit, ReceiverTypes, versions
  <2> QED
    BY <2>2, <2>3
<1>6. CASE RecvPatch(f)
  <2>1. Byte6(f) \in 0 .. 127
    BY DEF Byte6, Frame
  <2> QED
    BY <1>1, <1>6, <2>1 DEF RecvPatch, ReceiverTypes, LinkStates, versions
<1>7. CASE RecvActive
  BY <1>1, <1>7 DEF RecvActive, ReceiverTypes, versions
<1> QED
  BY <1>3, <1>4, <1>5, <1>6, <1>7 DEF hci_recv_frame

\* The patch of every board has an index that a byte holds.
LEMMA TotalType ==
  ASSUME NEW b \in Board, b.chunks > 0
  PROVE  PatchTotal(b) \in 0 .. 127
<1>1. b.chunks \in 1 .. 98 /\ CmdSentNum(b) \in 2 .. 3
  BY DEF Board, CmdSentNum
<1> DEFINE n == b.chunks + CmdSentNum(b)
<1>2. n \in Nat /\ n % 8 \in 0 .. 7
  BY <1>1
<1>3. (8 - (n % 8)) % 8 \in 0 .. 7
  BY <1>2
<1> QED
  BY <1>1, <1>3 DEF PatchTotal

LEMMA SendTypes ==
  ASSUME TypeOK, NEW queue \in Seq(Frame), NEW kind \in Commands, NEW index \in 0 .. 127,
         Send(queue, kind, index)
  PROVE  /\ host_last_cmd' \in Frame /\ host_last_cmd'.kind = kind
         /\ host_last_cmd'.seq = msgq_txseq
         /\ msgq_txseq' \in 0 .. 7 /\ msgq_txseq' = NextSeq(msgq_txseq)
         /\ toCtrl' \in Seq(Frame)
         /\ Range(toCtrl') \subseteq Range(queue) \cup {host_last_cmd'}
<1>1. /\ h5_prepare_pkt(kind, index) \in Frame /\ h5_prepare_pkt(kind, index).kind = kind
      /\ h5_prepare_pkt(kind, index).seq = msgq_txseq
  BY FrameTypes
<1> HIDE DEF h5_prepare_pkt
<1>2. msgq_txseq \in 0 .. 7
  BY DEF TypeOK
<1> QED
  BY <1>1, <1>2, NextSeqType, PutRange DEF Send

\* The types of the host, of the line and of the controller.
HostTypes ==
  /\ at \in {"start", "sync", "config", "lmp", "rom", "rate", "patch", "done", "failed"}
  /\ rxseq_txack \in 0 .. 7 /\ msgq_txseq \in 0 .. 7
  /\ tx_index \in 0 .. 127 /\ total_num \in 0 .. 127
  /\ retries \in 0 .. MaxRetries /\ handler \in {"kept", "once", "spent"}
  /\ resynced \in BOOLEAN

PeerTypes ==
  /\ peer \in [link : {"boot", "synced", "configured"}, expect : 0 .. 7, seq : 0 .. 7,
               unacked : Seq(Frame)]
  /\ executed \in Seq(Commands \X (0 .. 127))

WorldTypes == board \in Boards /\ losses \in 0 .. Losses /\ toHost \in Seq(Frame)

LEMMA TypeParts ==
  /\ TypeOK <=> HostTypes /\ ReceiverTypes /\ PeerTypes /\ WorldTypes
  /\ TypeOK' <=> HostTypes' /\ ReceiverTypes' /\ PeerTypes' /\ WorldTypes'
BY DEF TypeOK, HostTypes, ReceiverTypes, PeerTypes, WorldTypes, LinkStates, CommandStates

LEMMA TypesInit == Init => TypeOK
<1> SUFFICES ASSUME Init PROVE TypeOK
  OBVIOUS
<1>1. <<>> \in Seq(Frame) /\ <<>> \in Seq(Commands \X (0 .. 127))
  OBVIOUS
<1>2. HostTypes
  <2>1. 0 \in 0 .. MaxRetries
    BY H5Assumption
  <2>2. resynced \in BOOLEAN
    BY DEF Init
  <2> QED
    BY <2>1, <2>2 DEF Init, HostTypes
<1>3. ReceiverTypes
  BY <1>1 DEF Init, ReceiverTypes, LinkStates, CommandStates
<1>4. PeerTypes
  BY <1>1 DEF Init, PeerTypes
<1>5. WorldTypes
  BY <1>1, H5Assumption DEF Init, WorldTypes
<1> QED
  BY <1>2, <1>3, <1>4, <1>5, TypeParts

LEMMA ReceivingTypes == TypeOK /\ h5_recv => TypeOK'
<1> SUFFICES ASSUME TypeOK, h5_recv PROVE TypeOK'
  OBVIOUS
<1>1. HostTypes /\ ReceiverTypes /\ PeerTypes /\ WorldTypes
  BY TypeParts
<1> DEFINE f == Head(toHost)
<1>2. f \in Frame /\ toHost' \in Seq(Frame)
  BY <1>1, TailRange DEF h5_recv, WorldTypes
<1>3. f.seq \in 0 .. 7
  BY <1>2 DEF Frame
<1> HIDE DEF f
<1>4. /\ UNCHANGED <<world, at, msgq_txseq, tx_index, total_num, timer>>
      /\ OutOfOrder(f) \/ InOrder(f)
  BY DEF h5_recv, f
<1>5. /\ rxseq_txack' \in 0 .. 7 /\ resynced' \in BOOLEAN
  <2>1. rxseq_txack \in 0 .. 7 /\ resynced \in BOOLEAN
    BY <1>1 DEF HostTypes
  <2>2. CASE OutOfOrder(f)
    <3>1. CASE tx_index = total_num
      BY <1>3, <2>2, <3>1 DEF OutOfOrder
    <3>2. CASE tx_index # total_num
      BY <2>1, <2>2, <3>2 DEF OutOfOrder
    <3> QED
      BY <3>1, <3>2
  <2>3. CASE InOrder(f)
    <3>1. rxseq_txack' \in 0 .. 7
      BY <1>3, <2>1, <2>3, NextSeqType DEF InOrder
    <3> QED
      BY <2>1, <2>3, <3>1 DEF InOrder
  <2> QED
    BY <1>4, <2>2, <2>3
<1>6. ReceiverTypes'
  <2>1. CASE OutOfOrder(f)
    BY <1>1, <2>1 DEF OutOfOrder, ReceiverTypes, versions
  <2>2. CASE InOrder(f)
    BY <1>2, <1>5, <2>2, ReceiveTypes DEF InOrder
  <2> QED
    BY <1>4, <2>1, <2>2
<1>7. HostTypes' /\ PeerTypes' /\ WorldTypes'
  BY <1>1, <1>2, <1>4, <1>5 DEF HostTypes, PeerTypes, WorldTypes, world, timer
<1> QED
  BY <1>6, <1>7, TypeParts

\* What the host sends when it goes on.
LEMMA GoingOn ==
  ASSUME TypeOK, HostGoesOn
  PROVE  /\ toCtrl' \in Seq(Frame)
         /\ \A f \in Range(toCtrl') : f \in Range(toCtrl) \/ ~Reliable(f) \/ f = host_last_cmd'
         /\ \/ UNCHANGED <<host_last_cmd, msgq_txseq>>
            \/ /\ at' \in {"lmp", "rom", "rate", "patch"}
               /\ host_last_cmd' \in Frame /\ host_last_cmd'.kind = at'
               /\ host_last_cmd'.seq = msgq_txseq
               /\ msgq_txseq' \in 0 .. 7 /\ msgq_txseq' = NextSeq(msgq_txseq)
<1>1. toCtrl \in Seq(Frame) /\ tx_index \in 0 .. 127 /\ total_num \in 0 .. 127
  BY DEF TypeOK
<1>2. /\ h5_prepare_pkt("sync", 0) \in Frame /\ ~Reliable(h5_prepare_pkt("sync", 0))
      /\ h5_prepare_pkt("conf", 0) \in Frame /\ ~Reliable(h5_prepare_pkt("conf", 0))
      /\ h5_prepare_pkt("ack", 0) \in Frame /\ ~Reliable(h5_prepare_pkt("ack", 0))
  <2>1. {"sync", "conf", "ack"} \subseteq (Commands \cup LinkControl \cup {"ack"}) \ Commands
    BY Kinds
  <2> QED
    BY <2>1, FrameTypes DEF Reliable
<1> HIDE DEF h5_prepare_pkt
<1>3. /\ rtk_send_pure_ack_down(toCtrl) \in Seq(Frame)
      /\ \A f \in Range(rtk_send_pure_ack_down(toCtrl)) : f \in Range(toCtrl) \/ ~Reliable(f)
  BY <1>1, <1>2, PutRange DEF rtk_send_pure_ack_down
<1>4. CASE rtk_init
  BY <1>1, <1>2, <1>4, PutRange DEF rtk_init, seqs
<1>5. CASE SyncDone
  BY <1>1, <1>2, <1>5, PutRange DEF SyncDone, seqs
<1>6. CASE ConfigDone
  <2>1. Send(rtk_send_pure_ack_down(toCtrl), "lmp", 0) /\ at' = "lmp"
    BY <1>6 DEF ConfigDone
  <2> HIDE DEF Send, rtk_send_pure_ack_down
  <2> QED
    BY <1>3, <2>1, SendTypes, Kinds
<1>7. CASE rtk_get_eversion \/ rtk_vendor_change_speed_h5
  <2>1. PICK kind \in {"rom", "rate"} : Send(toCtrl, kind, 0) /\ at' = kind
    BY <1>7 DEF rtk_get_eversion, rtk_vendor_change_speed_h5
  <2>2. kind \in Commands /\ 0 \in 0 .. 127
    BY <2>1, Kinds
  <2> HIDE DEF Send
  <2> QED
    BY <1>1, <2>1, <2>2, SendTypes
<1>8. CASE rtk_download_fw_config \/ hci_download_patch
  <2> HIDE DEF Send
  <2>1. PICK index \in 0 .. 127 : Send(toCtrl, "patch", index) /\ at' = "patch"
    <3>1. CASE rtk_download_fw_config
      <4>1. 0 \in 0 .. 127 /\ Send(toCtrl, "patch", 0) /\ at' = "patch"
        BY <3>1 DEF rtk_download_fw_config
      <4> QED
        BY <4>1
    <3>2. CASE hci_download_patch
      <4>1. tx_index < total_num /\ Send(toCtrl, "patch", tx_index + 1)
        BY <3>2 DEF hci_download_patch
      <4>2. tx_index + 1 \in 0 .. 127
        BY <1>1, <4>1
      <4>3. at' = "patch"
        BY <3>2 DEF hci_download_patch
      <4> QED
        BY <4>1, <4>2, <4>3
    <3> QED
      BY <1>8, <3>1, <3>2
  <2> QED
    BY <1>1, <2>1, SendTypes, Kinds
<1>9. CASE NothingToDownload
  BY <1>1, <1>9 DEF NothingToDownload, wire, seqs
<1>10. CASE PatchDone
  BY <1>3, <1>10 DEF PatchDone, seqs
<1> QED
  BY <1>4, <1>5, <1>6, <1>7, <1>8, <1>9, <1>10 DEF HostGoesOn

LEMMA GoingOnTypes == TypeOK /\ HostGoesOn => TypeOK'
<1> SUFFICES ASSUME TypeOK, HostGoesOn PROVE TypeOK'
  OBVIOUS
<1>1. HostTypes /\ ReceiverTypes /\ PeerTypes /\ WorldTypes
  BY TypeParts
<1>2. /\ toCtrl' \in Seq(Frame) /\ host_last_cmd' \in Frame \cup {NoFrame}
      /\ msgq_txseq' \in 0 .. 7
  BY <1>1, GoingOn DEF HostTypes, ReceiverTypes
<1>3. /\ MaxRetries \in Nat \ {0} /\ board \in Board
  BY <1>1, H5Assumption DEF WorldTypes
<1>4. /\ UNCHANGED <<world, rxseq_txack, toHost, resynced>>
      /\ link_estab_state' \in LinkStates
      /\ hci_version_cmd_state' \in CommandStates /\ rom_version_cmd_state' \in CommandStates
      /\ retries' \in 0 .. MaxRetries /\ handler' \in {"kept", "once", "spent"}
      /\ at' \in {"start", "sync", "config", "lmp", "rom", "rate", "patch", "done", "failed"}
      /\ tx_index' \in 0 .. 127 /\ total_num' \in 0 .. 127 /\ rx_index' \in -1 .. 127
  <2>0. 1 \in 0 .. MaxRetries /\ 0 \in 0 .. MaxRetries
    BY <1>3
  <2>1. CASE rtk_init \/ SyncDone
    BY <1>1, <2>0, <2>1 DEF rtk_init, SyncDone, HostTypes, ReceiverTypes, seqs, indices, versions
  <2>2. CASE ConfigDone \/ rtk_get_eversion
    <3> HIDE DEF Send
    <3> QED
      BY <1>1, <2>0, <2>2
         DEF ConfigDone, rtk_get_eversion, HostTypes, ReceiverTypes, CommandStates, indices, Cleared
  <2>3. CASE rtk_vendor_change_speed_h5
    BY <1>1, <1>3, <2>3
       DEF rtk_vendor_change_speed_h5, HostTypes, ReceiverTypes, versions, indices, Uncleared
  <2>4. CASE NothingToDownload \/ PatchDone
    BY <1>1, <2>4
       DEF NothingToDownload, PatchDone, HostTypes, ReceiverTypes, seqs, indices, versions, wire,
           timer
  <2>5. CASE rtk_download_fw_config
    <3>1. total_num' \in 0 .. 127
      BY <1>3, <2>5, TotalType DEF rtk_download_fw_config
    <3> QED
      BY <1>1, <1>3, <2>5, <3>1
         DEF rtk_download_fw_config, HostTypes, ReceiverTypes, LinkStates, versions, Uncleared
  <2>6. CASE hci_download_patch
    BY <1>1, <1>3, <2>6 DEF hci_download_patch, HostTypes, ReceiverTypes, versions, Uncleared
  <2> QED
    BY <2>1, <2>2, <2>3, <2>4, <2>5, <2>6 DEF HostGoesOn
<1>5. HostTypes' /\ ReceiverTypes' /\ PeerTypes' /\ WorldTypes'
  BY <1>1, <1>2, <1>4 DEF HostTypes, ReceiverTypes, PeerTypes, WorldTypes, world
<1> QED
  BY <1>5, TypeParts

\* The alarm sends what was sent before, or a frame of the link.
LEMMA AlarmSends ==
  ASSUME TypeOK, Alarm
  PROVE  /\ toCtrl' \in Seq(Frame)
         /\ \A f \in Range(toCtrl') : f \in Range(toCtrl) \/ ~Reliable(f) \/ f = host_last_cmd
         /\ at' = at \/ at' = "failed"
         /\ retries' \in 0 .. MaxRetries /\ handler' \in {"kept", "once", "spent"}
<1>1. /\ toCtrl \in Seq(Frame) /\ host_last_cmd \in Frame \cup {NoFrame}
      /\ retries \in 0 .. MaxRetries /\ handler \in {"kept", "once", "spent"}
  BY DEF TypeOK
<1>2. /\ h5_prepare_pkt("sync", 0) \in Frame /\ ~Reliable(h5_prepare_pkt("sync", 0))
      /\ h5_prepare_pkt("conf", 0) \in Frame /\ ~Reliable(h5_prepare_pkt("conf", 0))
  <2>1. {"sync", "conf"} \subseteq (Commands \cup LinkControl \cup {"ack"}) \ Commands
    BY Kinds
  <2> QED
    BY <2>1, FrameTypes DEF Reliable
<1> HIDE DEF h5_prepare_pkt
<1>3. Again \in Seq(Frame) /\ Range(Again) \subseteq Range(toCtrl) \cup {host_last_cmd}
  BY <1>1, PutRange DEF Again
<1>4. /\ toCtrl' \in Seq(Frame)
      /\ \A f \in Range(toCtrl') : f \in Range(toCtrl) \/ ~Reliable(f) \/ f = host_last_cmd
  <2>1. CASE LinkAlarm
    <3>1. PICK f \in {h5_prepare_pkt("sync", 0), h5_prepare_pkt("conf", 0)} :
            toCtrl' = toCtrl \/ toCtrl' = Put(toCtrl, f)
      BY <2>1 DEF LinkAlarm, Resend, Exit
    <3>2. f \in Frame /\ ~Reliable(f)
      BY <1>2, <3>1
    <3>3. /\ Put(toCtrl, f) \in Seq(Frame)
          /\ \A g \in Range(Put(toCtrl, f)) : g \in Range(toCtrl) \/ ~Reliable(g)
      BY <1>1, <3>2, PutRange
    <3> QED
      BY <1>1, <3>1, <3>3
  <2>2. CASE CommandAlarm \/ RateAlarm
    <3> HIDE DEF Again
    <3> QED
      BY <1>1, <1>3, <2>2 DEF CommandAlarm, RateAlarm, Resend, Exit
  <2> QED
    BY <2>1, <2>2 DEF Alarm
<1>5. at' = at \/ at' = "failed"
  BY DEF Alarm, LinkAlarm, CommandAlarm, RateAlarm, Resend, Exit
<1>6. retries' \in 0 .. MaxRetries /\ handler' \in {"kept", "once", "spent"}
  BY <1>1, H5Assumption DEF Alarm, LinkAlarm, CommandAlarm, RateAlarm, Resend, Exit, timer
<1> QED
  BY <1>4, <1>5, <1>6

LEMMA AlarmTypes == TypeOK /\ Alarm => TypeOK'
<1> SUFFICES ASSUME TypeOK, Alarm PROVE TypeOK'
  OBVIOUS
<1>1. HostTypes /\ ReceiverTypes /\ PeerTypes /\ WorldTypes
  BY TypeParts
<1>2. UNCHANGED <<world, link_estab_state, seqs, host_last_cmd, indices, versions, toHost, resynced>>
  BY DEF Alarm
<1>3. HostTypes' /\ ReceiverTypes' /\ PeerTypes' /\ WorldTypes'
  BY <1>1, <1>2, AlarmSends
     DEF HostTypes, ReceiverTypes, PeerTypes, WorldTypes, world, seqs, indices, versions
<1> QED
  BY <1>3, TypeParts

-----------------------------------------------------------------------------
(* The controller and the line.                                            *)

LEMMA UnackedLeft ==
  ASSUME PeerTypes, NEW ack
  PROVE  StillUnacked(ack) \in Seq(Frame) /\ Range(StillUnacked(ack)) \subseteq Range(peer.unacked)
<1> DEFINE queue == peer.unacked
           covered == {i \in DOMAIN queue : NextSeq(queue[i].seq) = ack}
           first == CHOOSE i \in covered : TRUE
<1>1. queue \in Seq(Frame)
  BY DEF PeerTypes
<1>2. CASE covered = {}
  BY <1>1, <1>2 DEF StillUnacked
<1>3. CASE covered # {}
  <2>1. first \in covered
    BY <1>3
  <2>2. first \in 1 .. Len(queue)
    BY <1>1, <2>1
  <2>3. StillUnacked(ack) = SubSeq(queue, first + 1, Len(queue))
    BY <1>3 DEF StillUnacked
  <2> HIDE DEF queue, covered, first
  <2>4. /\ SubSeq(queue, first + 1, Len(queue)) \in Seq(Frame)
        /\ Range(SubSeq(queue, first + 1, Len(queue))) \subseteq Range(queue)
    BY <1>1, <2>2 DEF Range
  <2> QED
    BY <2>3, <2>4 DEF queue
<1> QED
  BY <1>2, <1>3

\* What a command does to the controller; its number is one that it expects only when all
\* before it have been executed.
Executes(f, left) ==
  LET event == [f EXCEPT !.seq = peer.seq, !.ack = 0]
  IN /\ f.kind \in Commands /\ f.seq = peer.expect /\ peer.link = "configured"
     /\ peer' = [peer EXCEPT !.expect = NextSeq(peer.expect), !.seq = NextSeq(peer.seq),
                             !.unacked = Append(left, event)]
     /\ executed' = Append(executed, <<f.kind, f.index>>)
     /\ toHost' = Put(toHost, event)

LEMMA CommandAt ==
  ASSUME NEW f, PeerCommand(f)
  PROVE  \/ Executes(f, StillUnacked(f.ack))
         \/ peer' = [peer EXCEPT !.unacked = StillUnacked(f.ack)] /\ UNCHANGED <<executed, toHost>>
BY DEF PeerCommand, Executes, Reliable

LEMMA EventType ==
  ASSUME NEW f \in Frame, NEW n \in 0 .. 7
  PROVE  /\ [f EXCEPT !.seq = n, !.ack = 0] \in Frame
         /\ [f EXCEPT !.seq = n, !.ack = 0].kind = f.kind
         /\ [f EXCEPT !.seq = n, !.ack = 0].seq = n
<1> DEFINE kinds == Commands \cup LinkControl \cup {"ack"}
           g == [f EXCEPT !.seq = n]
<1>1. f \in [kind : kinds, seq : 0 .. 7, ack : 0 .. 7, index : 0 .. 127]
  BY DEF Frame
<1>2. 0 \in 0 .. 7
  OBVIOUS
<1> HIDE DEF kinds
<1>3. g \in [kind : kinds, seq : 0 .. 7, ack : 0 .. 7, index : 0 .. 127] /\ g.kind = f.kind
  BY <1>1
<1>4. [f EXCEPT !.seq = n, !.ack = 0] = [g EXCEPT !.ack = 0] /\ g.seq = n
  BY <1>1
<1> HIDE DEF g
<1>5. /\ [g EXCEPT !.ack = 0] \in [kind : kinds, seq : 0 .. 7, ack : 0 .. 7, index : 0 .. 127]
      /\ [g EXCEPT !.ack = 0].kind = g.kind /\ [g EXCEPT !.ack = 0].seq = g.seq
  BY <1>2, <1>3
<1> QED
  BY <1>3, <1>4, <1>5 DEF Frame, kinds

\* The controller takes a frame: what it still holds, and what it sends.
LEMMA PeerTakes ==
  ASSUME TypeOK, PeerReceives
  PROVE  LET f == Head(toCtrl)
         IN /\ f \in Range(toCtrl) /\ f \in Frame
            /\ toCtrl' \in Seq(Frame) /\ Range(toCtrl') \subseteq Range(toCtrl)
            /\ PeerTypes' /\ toHost' \in Seq(Frame)
            /\ peer.link = "configured" => peer'.link = "configured"
            /\ \/ /\ peer'.expect = peer.expect /\ peer'.seq = peer.seq
                  /\ Range(peer'.unacked) \subseteq Range(peer.unacked)
                  /\ \A g \in Range(toHost') :
                       \/ g \in Range(toHost)
                       \/ g = Answer("syncresp")
                       \/ g = Answer("confresp") /\ peer'.link = "configured"
               \/ LET event == [f EXCEPT !.seq = peer.seq, !.ack = 0]
                  IN /\ Reliable(f) /\ f.seq = peer.expect
                     /\ peer'.expect = NextSeq(peer.expect) /\ peer'.seq = NextSeq(peer.seq)
                     /\ event \in Frame
                     /\ Range(peer'.unacked) \subseteq Range(peer.unacked) \cup {event}
                     /\ Range(toHost') \subseteq Range(toHost) \cup {event}
<1> DEFINE f == Head(toCtrl)
<1>1. PeerTypes /\ toCtrl \in Seq(Frame) /\ toHost \in Seq(Frame)
  BY TypeParts DEF ReceiverTypes, WorldTypes
<1>2. /\ f \in Range(toCtrl) /\ f \in Frame
      /\ toCtrl' \in Seq(Frame) /\ Range(toCtrl') \subseteq Range(toCtrl)
  BY <1>1, TailRange DEF PeerReceives
<1>3. PeerLink(f) \/ PeerCommand(f)
  BY DEF PeerReceives
<1> HIDE DEF f
<1> DEFINE event == [f EXCEPT !.seq = peer.seq, !.ack = 0]
           Kept == /\ peer'.expect = peer.expect /\ peer'.seq = peer.seq
                   /\ Range(peer'.unacked) \subseteq Range(peer.unacked)
                   /\ \A g \in Range(toHost') :
                        \/ g \in Range(toHost)
                        \/ g = Answer("syncresp")
                        \/ g = Answer("confresp") /\ peer'.link = "configured"
           Done == /\ Reliable(f) /\ f.seq = peer.expect
                   /\ peer'.expect = NextSeq(peer.expect) /\ peer'.seq = NextSeq(peer.seq)
                   /\ event \in Frame
                   /\ Range(peer'.unacked) \subseteq Range(peer.unacked) \cup {event}
                   /\ Range(toHost') \subseteq Range(toHost) \cup {event}
           Types == PeerTypes' /\ toHost' \in Seq(Frame)
           Stays == peer.link = "configured" => peer'.link = "configured"
<1>4. CASE PeerLink(f)
  <2>1. UNCHANGED executed
    BY <1>4 DEF PeerLink
  <2>2. /\ Answer("syncresp") \in Frame /\ Answer("confresp") \in Frame
    BY AnswerType, Kinds
  <2> HIDE DEF Answer
  <2>3. ASSUME toHost' = Put(toHost, Answer("syncresp")),
               peer' = [peer EXCEPT !.link = IF @ = "boot" THEN "synced" ELSE @]
        PROVE  (Types /\ Stays) /\ Kept
    <3>1. /\ toHost' \in Seq(Frame)
          /\ Range(toHost') \subseteq Range(toHost) \cup {Answer("syncresp")}
      BY <1>1, <2>2, <2>3, PutRange
    <3>2. /\ peer'.expect = peer.expect /\ peer'.seq = peer.seq /\ peer'.unacked = peer.unacked
          /\ PeerTypes' /\ Stays
      BY <1>1, <2>1, <2>3 DEF PeerTypes
    <3> QED
      BY <3>1, <3>2
  <2>4. ASSUME toHost' = Put(toHost, Answer("confresp")),
               peer' = [peer EXCEPT !.link = "configured"]
        PROVE  (Types /\ Stays) /\ Kept
    <3>1. /\ toHost' \in Seq(Frame)
          /\ Range(toHost') \subseteq Range(toHost) \cup {Answer("confresp")}
      BY <1>1, <2>2, <2>4, PutRange
    <3>2. /\ peer'.expect = peer.expect /\ peer'.seq = peer.seq /\ peer'.unacked = peer.unacked
          /\ PeerTypes' /\ Stays /\ peer'.link = "configured"
      BY <1>1, <2>1, <2>4 DEF PeerTypes
    <3> QED
      BY <3>1, <3>2
  <2>5. ASSUME UNCHANGED <<peer, toHost>> PROVE (Types /\ Stays) /\ Kept
    BY <1>1, <2>1, <2>5 DEF PeerTypes
  <2>6. (Types /\ Stays) /\ Kept
    BY <1>4, <2>3, <2>4, <2>5 DEF PeerLink
  <2> QED
    BY <1>2, <2>6 DEF f
<1>5. CASE PeerCommand(f)
  <2> DEFINE left == StillUnacked(f.ack)
  <2>1. left \in Seq(Frame) /\ Range(left) \subseteq Range(peer.unacked)
    BY <1>1, UnackedLeft
  <2> HIDE DEF left
  <2>2. CASE Executes(f, left)
    <3>1. f.kind \in Commands /\ f.index \in 0 .. 127 /\ peer.seq \in 0 .. 7 /\ peer.expect \in 0 .. 7
      BY <1>1, <1>2, <2>2 DEF Executes, PeerTypes, Frame
    <3>2. event \in Frame
      BY <1>2, <3>1, EventType
    <3>3. NextSeq(peer.expect) \in 0 .. 7 /\ NextSeq(peer.seq) \in 0 .. 7
      BY <3>1, NextSeqType
    <3> HIDE DEF event
    <3>4. /\ peer' = [peer EXCEPT !.expect = NextSeq(peer.expect), !.seq = NextSeq(peer.seq),
                                  !.unacked = Append(left, event)]
          /\ executed' = Append(executed, <<f.kind, f.index>>)
          /\ toHost' = Put(toHost, event) /\ f.seq = peer.expect
      BY <2>2 DEF Executes, event
    <3>5. /\ Append(left, event) \in Seq(Frame)
          /\ Range(Append(left, event)) \subseteq Range(left) \cup {event}
      BY <2>1, <3>2 DEF Range
    <3>6. toHost' \in Seq(Frame) /\ Range(toHost') \subseteq Range(toHost) \cup {event}
      BY <1>1, <3>2, <3>4, PutRange
    <3>7. <<f.kind, f.index>> \in Commands \X (0 .. 127)
      BY <3>1
    <3> DEFINE pair == <<f.kind, f.index>>
               S == Commands \X (0 .. 127)
    <3> HIDE DEF pair, S
    <3>8. executed' \in Seq(S)
      <4>1. executed \in Seq(S) /\ pair \in S /\ executed' = Append(executed, pair)
        BY <1>1, <3>4, <3>7 DEF PeerTypes, S, pair
      <4> QED
        BY <4>1
    <3>9. /\ peer' \in [link : {"boot", "synced", "configured"}, expect : 0 .. 7, seq : 0 .. 7,
                        unacked : Seq(Frame)]
          /\ peer'.link = peer.link /\ peer'.expect = NextSeq(peer.expect)
          /\ peer'.seq = NextSeq(peer.seq) /\ peer'.unacked = Append(left, event)
      <4> HIDE DEF NextSeq
      <4> QED
        BY <1>1, <3>3, <3>4, <3>5 DEF PeerTypes
    <3>10. PeerTypes'
      BY <3>8, <3>9 DEF PeerTypes, S
    <3>11. Done /\ Types /\ Stays
      BY <2>1, <3>1, <3>2, <3>4, <3>5, <3>6, <3>9, <3>10 DEF Reliable
    <3> QED
      BY <1>2, <3>11 DEF f, event
  <2>3. CASE peer' = [peer EXCEPT !.unacked = left] /\ UNCHANGED <<executed, toHost>>
    <3>1. (Types /\ Stays) /\ Kept
      BY <1>1, <2>1, <2>3 DEF PeerTypes
    <3> QED
      BY <1>2, <3>1 DEF f
  <2> QED
    BY <1>5, <2>2, <2>3, CommandAt DEF left
<1> QED
  BY <1>3, <1>4, <1>5

\* What else the line brings.
LEMMA LineBrings ==
  ASSUME TypeOK, PeerAsks \/ PeerRepeats \/ Lose
  PROVE  /\ toHost' \in Seq(Frame) /\ toCtrl' \in Seq(Frame)
         /\ Range(toCtrl') \subseteq Range(toCtrl)
         /\ \A f \in Range(toHost') :
              \/ f \in Range(toHost) \cup Range(peer.unacked)
              \/ f.kind \in {"sync", "conf"}
         /\ UNCHANGED <<host, peer, executed>>
         /\ losses' \in 0 .. Losses
<1>1. PeerTypes /\ toCtrl \in Seq(Frame) /\ toHost \in Seq(Frame) /\ losses \in 0 .. Losses
  BY TypeParts DEF ReceiverTypes, WorldTypes
<1>2. CASE PeerAsks
  <2>1. PICK kind \in {"sync", "conf"} : toHost' = Put(toHost, Answer(kind))
    BY <1>2 DEF PeerAsks, Answer
  <2>2. Answer(kind) \in Frame /\ Answer(kind).kind = kind
    BY <2>1, AnswerType, Kinds
  <2> HIDE DEF Answer
  <2>3. toHost' \in Seq(Frame) /\ Range(toHost') \subseteq Range(toHost) \cup {Answer(kind)}
    BY <1>1, <2>1, <2>2, PutRange
  <2>4. UNCHANGED <<host, toCtrl, peer, executed, losses>>
    BY <1>2 DEF PeerAsks
  <2> QED
    BY <1>1, <2>2, <2>3, <2>4
<1>3. CASE PeerRepeats
  <2>1. PICK i \in DOMAIN peer.unacked : toHost' = Put(toHost, peer.unacked[i])
    BY <1>3 DEF PeerRepeats
  <2>2. peer.unacked[i] \in Frame /\ peer.unacked[i] \in Range(peer.unacked)
    BY <1>1, <2>1, ElementRange DEF PeerTypes
  <2> QED
    BY <1>1, <1>3, <2>1, <2>2, PutRange DEF PeerRepeats
<1>4. CASE Lose
  <2>1. losses' \in 0 .. Losses
    BY <1>1, <1>4, H5Assumption DEF Lose
  <2>2. UNCHANGED <<host, peer, executed>>
    BY <1>4 DEF Lose
  <2> QED
    BY <1>1, <1>4, <2>1, <2>2, TailRange DEF Lose
<1> QED
  BY <1>2, <1>3, <1>4

LEMMA WorldStepTypes == TypeOK /\ (PeerAsks \/ PeerReceives \/ PeerRepeats \/ Lose) => TypeOK'
<1> SUFFICES ASSUME TypeOK, PeerAsks \/ PeerReceives \/ PeerRepeats \/ Lose PROVE TypeOK'
  OBVIOUS
<1>1. HostTypes /\ ReceiverTypes /\ PeerTypes /\ WorldTypes
  BY TypeParts
<1>2. UNCHANGED host
  BY DEF PeerAsks, PeerReceives, PeerRepeats, Lose
<1>3. /\ toCtrl' \in Seq(Frame) /\ toHost' \in Seq(Frame) /\ losses' \in 0 .. Losses /\ PeerTypes'
  <2>1. CASE PeerReceives
    <3>1. losses' = losses
      BY <2>1 DEF PeerReceives
    <3> QED
      BY <1>1, <2>1, <3>1, PeerTakes DEF WorldTypes
  <2>2. CASE PeerAsks \/ PeerRepeats \/ Lose
    BY <1>1, <2>2, LineBrings DEF PeerTypes
  <2> QED
    BY <2>1, <2>2
<1>4. HostTypes' /\ ReceiverTypes' /\ WorldTypes'
  BY <1>1, <1>2, <1>3 DEF HostTypes, ReceiverTypes, WorldTypes, host, seqs, indices, versions, timer
<1> QED
  BY <1>3, <1>4, TypeParts

LEMMA TypesNext == TypeOK /\ [Next]_vars => TypeOK'
<1> SUFFICES ASSUME TypeOK, [Next]_vars PROVE TypeOK'
  OBVIOUS
<1>1. CASE Next
  BY <1>1, ReceivingTypes, GoingOnTypes, AlarmTypes, WorldStepTypes DEF Next
<1>2. CASE UNCHANGED vars
  BY <1>2 DEF TypeOK, vars
<1> QED
  BY <1>1, <1>2

\* Every variable of the program keeps its type, for all controllers, retries and lines.
THEOREM H5TypeCorrect == Spec => []TypeOK
BY TypesInit, TypesNext, PTL DEF Spec

-----------------------------------------------------------------------------
(* The link.                                                               *)

Opened == link_estab_state \notin {"H5_SYNC", "H5_CONFIG"}

\* The link of the host is up only when the controller has answered its configuration, and no
\* command goes out before.
LinkInv ==
  /\ \A f \in Range(toHost) : f.kind = "confresp" => peer.link = "configured"
  /\ \A f \in Range(peer.unacked) : Reliable(f)
  /\ Opened => peer.link = "configured"
  /\ at \notin {"start", "sync", "failed"} => link_estab_state # "H5_SYNC"
  /\ at \notin {"start", "sync", "config", "failed"} => Opened

LEMMA LinkInit == Init => LinkInv
BY DEF Init, LinkInv, Opened, Range

\* What a frame does to the link.
LEMMA LinkReceives ==
  ASSUME TypeOK, LinkInv, NEW f \in Range(toHost), hci_recv_frame(f)
  PROVE  /\ link_estab_state # "H5_SYNC" => link_estab_state' # "H5_SYNC"
         /\ Opened => Opened'
         /\ Opened' => peer.link = "configured"
<1>1. CASE RecvSync(f)
  BY <1>1 DEF RecvSync, Opened
<1>2. CASE RecvConfig(f)
  BY <1>2 DEF RecvConfig, Opened, LinkInv
<1>3. CASE RecvInit(f)
  BY <1>3 DEF RecvInit, hci_event_cmd_complete, Opened, LinkInv
<1>4. CASE RecvPatch(f)
  BY <1>4 DEF RecvPatch, Opened, LinkInv
<1>5. CASE RecvActive
  BY <1>5 DEF RecvActive, Opened, LinkInv
<1> QED
  BY <1>1, <1>2, <1>3, <1>4, <1>5 DEF hci_recv_frame

LEMMA LinkNext == TypeOK /\ LinkInv /\ [Next]_vars => LinkInv'
<1> SUFFICES ASSUME TypeOK, LinkInv, [Next]_vars PROVE LinkInv'
  OBVIOUS
<1>0. toHost \in Seq(Frame) /\ PeerTypes
  BY TypeParts DEF WorldTypes
<1>1. CASE h5_recv
  <2> DEFINE f == Head(toHost)
  <2>1. f \in Range(toHost) /\ Range(toHost') \subseteq Range(toHost)
    BY <1>0, <1>1, TailRange DEF h5_recv
  <2>2. UNCHANGED <<peer, at>> /\ (OutOfOrder(f) \/ InOrder(f))
    BY <1>1 DEF h5_recv, world
  <2> HIDE DEF f
  <2>3. /\ link_estab_state # "H5_SYNC" => link_estab_state' # "H5_SYNC"
        /\ Opened => Opened'
        /\ Opened' => peer.link = "configured"
    <3>1. CASE OutOfOrder(f)
      BY <3>1 DEF OutOfOrder, Opened, LinkInv
    <3>2. CASE InOrder(f)
      BY <2>1, <3>2, LinkReceives DEF InOrder
    <3> QED
      BY <2>2, <3>1, <3>2
  <2> QED
    BY <2>1, <2>2, <2>3 DEF LinkInv
<1>2. CASE HostGoesOn
  <2>1. UNCHANGED <<peer, toHost>>
    BY <1>2
       DEF HostGoesOn, rtk_init, SyncDone, ConfigDone, rtk_get_eversion,
           rtk_vendor_change_speed_h5, NothingToDownload, rtk_download_fw_config,
           hci_download_patch, PatchDone, world, wire
  <2>2. /\ link_estab_state' = link_estab_state \/ (link_estab_state' = "H5_PATCH" /\ Opened)
        /\ at' \in {"sync", "config"} \/ Opened
        /\ at' = "sync" \/ link_estab_state # "H5_SYNC"
    <3>1. CASE rtk_init \/ SyncDone \/ ConfigDone
      BY <3>1 DEF rtk_init, SyncDone, ConfigDone, LinkInv, Opened
    <3>2. CASE rtk_get_eversion \/ rtk_vendor_change_speed_h5 \/ NothingToDownload
               \/ rtk_download_fw_config \/ hci_download_patch \/ PatchDone
      <4>1. at \in {"lmp", "rom", "rate", "patch"}
        BY <3>2
           DEF rtk_get_eversion, rtk_vendor_change_speed_h5, NothingToDownload,
               rtk_download_fw_config, hci_download_patch, PatchDone, Configured, VersionsKnown
      <4>2. link_estab_state' = link_estab_state \/ link_estab_state' = "H5_PATCH"
        BY <3>2
           DEF rtk_get_eversion, rtk_vendor_change_speed_h5, NothingToDownload,
               rtk_download_fw_config, hci_download_patch, PatchDone
      <4> QED
        BY <4>1, <4>2 DEF LinkInv, Opened
    <3> QED
      BY <1>2, <3>1, <3>2 DEF HostGoesOn
  <2>3. Opened => Opened'
    BY <2>2 DEF Opened
  <2>4. link_estab_state # "H5_SYNC" => link_estab_state' # "H5_SYNC"
    BY <2>2 DEF Opened
  <2>5. Opened' => Opened
    BY <2>2 DEF Opened
  <2> QED
    BY <2>1, <2>2, <2>3, <2>4, <2>5 DEF LinkInv
<1>3. CASE Alarm
  <2>1. UNCHANGED <<peer, toHost, link_estab_state>>
    BY <1>3 DEF Alarm, world
  <2>2. at' = at \/ at' = "failed"
    BY <1>3, AlarmSends
  <2> QED
    BY <2>1, <2>2 DEF LinkInv, Opened
<1>4. CASE PeerReceives
  <2>1. UNCHANGED <<at, link_estab_state>>
    BY <1>4 DEF PeerReceives, host
  <2> DEFINE f == Head(toCtrl)
             event == [f EXCEPT !.seq = peer.seq, !.ack = 0]
  <2>2. /\ f \in Frame
        /\ peer.link = "configured" => peer'.link = "configured"
        /\ \/ /\ Range(peer'.unacked) \subseteq Range(peer.unacked)
              /\ \A g \in Range(toHost') :
                   \/ g \in Range(toHost)
                   \/ g = Answer("syncresp")
                   \/ g = Answer("confresp") /\ peer'.link = "configured"
           \/ /\ Reliable(f)
              /\ Range(peer'.unacked) \subseteq Range(peer.unacked) \cup {event}
              /\ Range(toHost') \subseteq Range(toHost) \cup {event}
    BY <1>4, PeerTakes
  <2>3. event.kind = f.kind
    BY <1>0, <2>2, EventType DEF PeerTypes
  <2>4. Answer("syncresp").kind = "syncresp"
    BY AnswerType, Kinds
  <2> HIDE DEF f, event, Answer
  <2>5. /\ \A g \in Range(toHost') : g.kind = "confresp" => peer'.link = "configured"
        /\ \A g \in Range(peer'.unacked) : Reliable(g)
    BY <2>2, <2>3, <2>4, Kinds DEF LinkInv, Reliable
  <2> QED
    BY <2>1, <2>2, <2>5 DEF LinkInv, Opened
<1>5. CASE PeerAsks \/ PeerRepeats \/ Lose
  <2>1. /\ UNCHANGED <<at, link_estab_state, peer>>
        /\ \A f \in Range(toHost') :
             f \in Range(toHost) \cup Range(peer.unacked) \/ f.kind \in {"sync", "conf"}
    BY <1>5, LineBrings DEF host
  <2>2. \A f \in Range(toHost') : f.kind = "confresp" => peer.link = "configured"
    BY <2>1, Kinds DEF LinkInv, Reliable
  <2> QED
    BY <2>1, <2>2 DEF LinkInv, Opened
<1>6. CASE UNCHANGED vars
  BY <1>6 DEF vars, LinkInv, Opened
<1> QED
  BY <1>1, <1>2, <1>3, <1>4, <1>5, <1>6 DEF Next

\* The host's side of the link is up only when the controller's is, however frames are lost and
\* repeated, so no command is sent to a controller that is not configured.
THEOREM ConfiguredFirst == Spec => []CommandsOnlyWhenConfigured
<1>1. LinkInv => CommandsOnlyWhenConfigured
  BY DEF LinkInv, CommandsOnlyWhenConfigured, Opened
<1> QED
  BY <1>1, TypesInit, LinkInit, TypesNext, LinkNext, PTL DEF Spec

-----------------------------------------------------------------------------
(* The stored command.                                                     *)

\* The commands before the patch, and their numbers.
Numbers == [lmp |-> 0, rom |-> 1, rate |-> IF board.rom8723a THEN 1 ELSE 2]
First == {"lmp", "rom", "rate"}

\* No more than three numbers are used before the patch, so they tell the commands apart.
Numbered(f) ==
  Reliable(f) =>
    /\ f.kind \in First /\ (f.kind = "rom" => ~board.rom8723a)
    /\ f.seq = Numbers[f.kind] /\ f.seq < msgq_txseq

Opening ==
  /\ link_estab_state \in {"H5_SYNC", "H5_CONFIG", "H5_INIT"}
  /\ ~resynced /\ at \notin {"done", "failed"}

\* Where the numbers are: one command is outstanding, or none.
OpeningInv ==
  /\ \A f \in Range(toCtrl) \cup Range(toHost) \cup Range(peer.unacked) : Numbered(f)
  /\ at \notin First => msgq_txseq = 0 /\ rxseq_txack = 0 /\ host_last_cmd = NoFrame
  /\ at \in First =>
       /\ at = "rom" => ~board.rom8723a
       /\ msgq_txseq = Numbers[at] + 1
       /\ \/ Unanswered /\ rxseq_txack = Numbers[at]
             /\ host_last_cmd.kind = at /\ host_last_cmd.seq = Numbers[at]
          \/ ~Unanswered /\ rxseq_txack = msgq_txseq /\ host_last_cmd = NoFrame

\* The download keeps what it has sent: nothing frees it.
PatchKept ==
  at = "patch" =>
    /\ link_estab_state \in {"H5_PATCH", "H5_ACTIVE"}
    /\ host_last_cmd.kind = "patch" /\ host_last_cmd.seq = (msgq_txseq + 7) % 8

\* Nothing but the answer to the speed command ends the opening.
Early == {"start", "sync", "config", "lmp", "rom"}
EarlyOpening ==
  at \in Early /\ ~resynced => link_estab_state \in {"H5_SYNC", "H5_CONFIG", "H5_INIT"}

CommandInv ==
  /\ peer.expect = peer.seq
  /\ Opening => OpeningInv
  /\ PatchKept
  /\ EarlyOpening

LEMMA NumbersAre ==
  /\ Numbers["lmp"] = 0 /\ Numbers["rom"] = 1
  /\ Numbers["rate"] \in {1, 2} /\ (~board.rom8723a => Numbers["rate"] = 2)
  /\ board.rom8723a => Numbers["rate"] = 1
  /\ \A k \in First : Numbers[k] \in 0 .. 2
BY DEF Numbers, First

LEMMA NoFrameUnreliable == ~Reliable(NoFrame) /\ NoFrame.kind = "none"
BY Kinds DEF Reliable, NoFrame

LEMMA CommandInit == Init => CommandInv
<1> SUFFICES ASSUME Init PROVE CommandInv
  OBVIOUS
<1>1. /\ at = "start" /\ msgq_txseq = 0 /\ rxseq_txack = 0 /\ host_last_cmd = NoFrame
      /\ toCtrl = <<>> /\ toHost = <<>> /\ peer.unacked = <<>> /\ peer.expect = peer.seq
      /\ link_estab_state = "H5_SYNC"
  BY DEF Init
<1>2. Range(<<>>) = {}
  BY DEF Range
<1> QED
  BY <1>1, <1>2 DEF CommandInv, OpeningInv, PatchKept, EarlyOpening, First

\* A frame that is in order answers the command that is outstanding.
LEMMA AnswersIt ==
  ASSUME TypeOK, LinkInv, OpeningInv, Opening, NEW f \in Range(toHost), Reliable(f),
         f.seq = rxseq_txack
  PROVE  /\ at \in First /\ Unanswered /\ f.kind = at /\ link_estab_state = "H5_INIT"
         /\ f.seq = Numbers[at] /\ msgq_txseq = NextSeq(f.seq)
<1>1. Numbered(f) /\ rxseq_txack \in 0 .. 7 /\ msgq_txseq \in 0 .. 7
  BY DEF OpeningInv, TypeOK
<1>2. f.kind \in First /\ f.seq = Numbers[f.kind] /\ f.seq < msgq_txseq
      /\ (f.kind = "rom" => ~board.rom8723a)
  BY <1>1 DEF Numbered
<1>3. f.seq \in 0 .. 7
  BY <1>1
<1>4. at \in First
  BY <1>1, <1>2, <1>3 DEF OpeningInv
<1>5. Unanswered /\ rxseq_txack = Numbers[at] /\ (at = "rom" => ~board.rom8723a)
  <2>1. rxseq_txack # msgq_txseq
    BY <1>1, <1>2
  <2> QED
    BY <1>4, <2>1 DEF OpeningInv
<1>6. f.kind = at
  <2>1. Numbers[f.kind] = Numbers[at]
    BY <1>2, <1>5
  <2> QED
    BY <1>2, <1>4, <1>5, <2>1, NumbersAre DEF First
<1>7. link_estab_state = "H5_INIT"
  BY <1>4 DEF LinkInv, Opened, Opening, First
<1>8. msgq_txseq = NextSeq(f.seq)
  <2>1. msgq_txseq = f.seq + 1 /\ f.seq \in 0 .. 2
    BY <1>4, <1>5, NumbersAre DEF OpeningInv
  <2> QED
    BY <2>1, NextSeqType
<1> QED
  BY <1>4, <1>5, <1>6, <1>7, <1>8

\* What the receiver puts on the line is no command.
LEMMA ReceiverSends ==
  ASSUME TypeOK, NEW f, hci_recv_frame(f), rxseq_txack' \in 0 .. 7
  PROVE  \A g \in Range(toCtrl') : g \in Range(toCtrl) \/ ~Reliable(g)
<1>1. toCtrl \in Seq(Frame)
  BY DEF TypeOK
<1> DEFINE ack == [h5_prepare_pkt("ack", 0) EXCEPT !.ack = rxseq_txack']
           answers == {h5_prepare_pkt("syncresp", 0), h5_prepare_pkt("confresp", 0),
                       h5_prepare_pkt("ack", 0), ack}
<1>2. \A g \in answers : g \in Frame /\ ~Reliable(g)
  <2>1. {"syncresp", "confresp", "ack"} \subseteq (Commands \cup LinkControl \cup {"ack"}) \ Commands
    BY Kinds
  <2>2. ack \in Frame /\ ack.kind = "ack"
    <3>1. ack \in Frame
      BY AckType
    <3>2. h5_prepare_pkt("ack", 0) \in Frame /\ h5_prepare_pkt("ack", 0).kind = "ack"
      BY FrameTypes
    <3> HIDE DEF h5_prepare_pkt
    <3> QED
      BY <3>1, <3>2 DEF Frame
  <2> HIDE DEF ack, h5_prepare_pkt
  <2>3. \A kind \in {"syncresp", "confresp", "ack"} :
          h5_prepare_pkt(kind, 0) \in Frame /\ ~Reliable(h5_prepare_pkt(kind, 0))
    <3> TAKE kind \in {"syncresp", "confresp", "ack"}
    <3>1. kind \in Commands \cup LinkControl \cup {"ack"} /\ kind \notin Commands
      BY <2>1
    <3>2. 0 \in 0 .. 127
      OBVIOUS
    <3>3. h5_prepare_pkt(kind, 0) \in Frame /\ h5_prepare_pkt(kind, 0).kind = kind
      BY <3>1, <3>2, FrameTypes
    <3> QED
      BY <3>1, <3>3 DEF Reliable
  <2>4. ~Reliable(ack)
    BY <2>1, <2>2 DEF Reliable
  <2> HIDE DEF Reliable
  <2> QED
    BY <2>2, <2>3, <2>4
<1>3. toCtrl' = toCtrl \/ \E g \in answers : toCtrl' = Put(toCtrl, g)
  <2> HIDE DEF h5_prepare_pkt, Put
  <2>1. CASE RecvSync(f)
    BY <2>1 DEF RecvSync
  <2>2. CASE RecvConfig(f)
    BY <2>2 DEF RecvConfig, rtk_send_pure_ack_down
  <2>3. CASE RecvInit(f)
    BY <2>3 DEF RecvInit
  <2>4. CASE RecvPatch(f) \/ RecvActive
    BY <2>4 DEF RecvPatch, RecvActive
  <2> QED
    BY <2>1, <2>2, <2>3, <2>4 DEF hci_recv_frame
<1> HIDE DEF answers
<1>4. CASE toCtrl' = toCtrl
  BY <1>4
<1>5. ASSUME NEW g \in answers, toCtrl' = Put(toCtrl, g)
      PROVE  \A h \in Range(toCtrl') : h \in Range(toCtrl) \/ ~Reliable(h)
  <2>1. g \in Frame /\ ~Reliable(g)
    BY <1>2
  <2>2. Range(Put(toCtrl, g)) \subseteq Range(toCtrl) \cup {g}
    BY <1>1, <2>1, PutRange
  <2> QED
    BY <1>5, <2>1, <2>2
<1> QED
  BY <1>3, <1>4, <1>5

LEMMA CommandReceives == TypeOK /\ LinkInv /\ CommandInv /\ h5_recv => CommandInv'
<1> SUFFICES ASSUME TypeOK, LinkInv, CommandInv, h5_recv PROVE CommandInv'
  OBVIOUS
<1> DEFINE f == Head(toHost)
<1>1. /\ f \in Range(toHost) /\ f \in Frame /\ Range(toHost') \subseteq Range(toHost)
      /\ toHost \in Seq(Frame)
  BY TailRange DEF h5_recv, TypeOK
<1>2. /\ UNCHANGED <<world, at, msgq_txseq, tx_index, total_num>>
      /\ OutOfOrder(f) \/ InOrder(f)
  BY DEF h5_recv
<1> HIDE DEF f
<1>3. UNCHANGED <<board, peer, at, msgq_txseq>> /\ peer.expect = peer.seq
  BY <1>2 DEF world, CommandInv
<1>4. CASE OutOfOrder(f)
  <2>1. UNCHANGED <<link_estab_state, host_last_cmd, versions, toCtrl>>
    BY <1>4 DEF OutOfOrder
  <2>2. PatchKept'
    BY <1>3, <2>1 DEF CommandInv, PatchKept
  <2>4. EarlyOpening'
    <3>1. resynced' = TRUE \/ UNCHANGED resynced
      BY <1>4 DEF OutOfOrder
    <3> QED
      BY <1>3, <2>1, <3>1 DEF CommandInv, EarlyOpening
  <2>3. ASSUME Opening' PROVE OpeningInv'
    <3>1. UNCHANGED <<rxseq_txack, resynced>>
      BY <1>4, <2>3 DEF OutOfOrder, Opening
    <3>2. Opening /\ OpeningInv
      BY <1>3, <2>1, <2>3, <3>1 DEF Opening, CommandInv
    <3>3. Unanswered' <=> Unanswered
      <4>1. UNCHANGED rx_index /\ UNCHANGED tx_index
        BY <1>2, <1>4 DEF OutOfOrder
      <4> QED
        BY <1>3, <2>1, <4>1 DEF Unanswered, versions
    <3>4. \A g \in Range(toCtrl') \cup Range(toHost') \cup Range(peer'.unacked) : Numbered(g)'
      BY <1>1, <1>3, <2>1, <3>2 DEF OpeningInv, Numbered, Numbers
    <3> QED
      BY <1>3, <2>1, <3>1, <3>2, <3>3, <3>4 DEF OpeningInv, Numbers
  <2> QED
    BY <1>3, <2>2, <2>3, <2>4 DEF CommandInv
<1>5. CASE InOrder(f)
  <2>1. /\ Reliable(f) => f.seq = rxseq_txack
        /\ rxseq_txack' = IF Reliable(f) THEN NextSeq(f.seq) ELSE rxseq_txack
        /\ hci_recv_frame(f) /\ UNCHANGED resynced
    BY <1>5 DEF InOrder
  <2>2. PatchKept'
    <3> SUFFICES ASSUME at = "patch"
                 PROVE  /\ link_estab_state' \in {"H5_PATCH", "H5_ACTIVE"}
                        /\ host_last_cmd' = host_last_cmd
      BY <1>3 DEF CommandInv, PatchKept
    <3>1. link_estab_state \in {"H5_PATCH", "H5_ACTIVE"}
      BY DEF CommandInv, PatchKept
    <3> QED
      BY <2>1, <3>1
         DEF hci_recv_frame, RecvSync, RecvConfig, RecvInit, RecvPatch, RecvActive
  <2>4. EarlyOpening'
    <3> SUFFICES ASSUME at \in Early, ~resynced
                 PROVE  link_estab_state' \in {"H5_SYNC", "H5_CONFIG", "H5_INIT"}
      BY <1>3, <2>1 DEF EarlyOpening
    <3>1. link_estab_state \in {"H5_SYNC", "H5_CONFIG", "H5_INIT"}
      BY DEF CommandInv, EarlyOpening
    <3>2. Opening /\ OpeningInv
      BY <3>1 DEF CommandInv, Opening, Early
    <3>3. Reliable(f) => f.kind # "rate"
      <4> SUFFICES ASSUME Reliable(f) PROVE f.kind # "rate"
        OBVIOUS
      <4>1. f.kind = at
        BY <1>1, <2>1, <3>2, AnswersIt
      <4> QED
        BY <4>1 DEF Early
    <3>4. ~RecvPatch(f) /\ ~RecvActive
      BY <3>1 DEF RecvPatch, RecvActive
    <3> QED
      BY <2>1, <3>3, <3>4
         DEF hci_recv_frame, RecvSync, RecvConfig, RecvInit, hci_event_cmd_complete
  <2>3. ASSUME Opening' PROVE OpeningInv'
    <3>1. Opening /\ OpeningInv
      <4>1. link_estab_state \in {"H5_SYNC", "H5_CONFIG", "H5_INIT"}
        <5>1. link_estab_state' \in {"H5_SYNC", "H5_CONFIG", "H5_INIT"}
          BY <2>3 DEF Opening
        <5>2. ~RecvPatch(f) /\ ~RecvActive
          BY <5>1 DEF RecvPatch, RecvActive
        <5> QED
          BY <2>1, <5>2 DEF hci_recv_frame, RecvSync, RecvConfig, RecvInit
      <4> QED
        BY <1>3, <2>1, <2>3, <4>1 DEF Opening, CommandInv
    <3>2. rxseq_txack' \in 0 .. 7
      <4>1. rxseq_txack \in 0 .. 7 /\ f.seq \in 0 .. 7
        BY <1>1 DEF TypeOK, Frame
      <4> QED
        BY <2>1, <4>1, NextSeqType
    <3>3. \A g \in Range(toCtrl') \cup Range(toHost') \cup Range(peer'.unacked) : Numbered(g)'
      <4>1. \A g : Numbered(g)' <=> Numbered(g)
        BY <1>3 DEF Numbered, Numbers
      <4>2. \A g : ~Reliable(g) => Numbered(g)
        BY DEF Numbered
      <4>3. \A g \in Range(toCtrl') : g \in Range(toCtrl) \/ ~Reliable(g)
        BY <2>1, <3>2, ReceiverSends
      <4> QED
        BY <1>1, <1>3, <3>1, <4>1, <4>2, <4>3 DEF OpeningInv
    <3>4. CASE Reliable(f)
      <4>1. /\ at \in First /\ Unanswered /\ f.kind = at /\ link_estab_state = "H5_INIT"
            /\ f.seq = Numbers[at] /\ msgq_txseq = NextSeq(f.seq)
        BY <1>1, <2>1, <3>1, <3>4, AnswersIt
      <4>2. hci_event_cmd_complete(f)
        BY <2>1, <3>4, <4>1
           DEF hci_recv_frame, RecvSync, RecvConfig, RecvInit, RecvPatch, RecvActive
      <4>3. host_last_cmd' = NoFrame /\ rxseq_txack' = msgq_txseq /\ ~Unanswered'
        <5>1. at # "rate"
          BY <2>3, <4>1, <4>2 DEF hci_event_cmd_complete, Opening
        <5>2. at \in {"lmp", "rom"}
          BY <4>1, <5>1 DEF First
        <5> QED
          BY <1>3, <2>1, <3>4, <4>1, <4>2, <5>2 DEF hci_event_cmd_complete, Unanswered
      <4> QED
        BY <1>3, <3>1, <3>3, <4>1, <4>3 DEF OpeningInv, Numbers
    <3>5. CASE ~Reliable(f)
      <4>1. rxseq_txack' = rxseq_txack /\ UNCHANGED <<host_last_cmd, versions>>
        BY <2>1, <3>5
           DEF hci_recv_frame, RecvSync, RecvConfig, RecvInit, RecvPatch, RecvActive
      <4>2. at \in First => (Unanswered' <=> Unanswered)
        <5>1. CASE at \in {"lmp", "rom"}
          BY <1>3, <4>1, <5>1 DEF Unanswered, versions
        <5>2. CASE at = "rate"
          <6>1. link_estab_state = "H5_INIT"
            BY <3>1, <5>2 DEF LinkInv, Opened, Opening
          <6>2. link_estab_state' = "H5_INIT"
            BY <2>1, <3>5, <6>1
               DEF hci_recv_frame, RecvSync, RecvConfig, RecvInit, RecvPatch, RecvActive
          <6> QED
            BY <1>3, <5>2, <6>1, <6>2 DEF Unanswered
        <5> QED
          BY <5>1, <5>2 DEF First
      <4> QED
        BY <1>3, <3>1, <3>3, <4>1, <4>2 DEF OpeningInv, Numbers
    <3> QED
      BY <3>4, <3>5
  <2> QED
    BY <1>3, <2>2, <2>3, <2>4 DEF CommandInv
<1> QED
  BY <1>2, <1>4, <1>5

LEMMA CommandGoesOn == TypeOK /\ LinkInv /\ CommandInv /\ HostGoesOn => CommandInv'
<1> SUFFICES ASSUME TypeOK, LinkInv, CommandInv, HostGoesOn PROVE CommandInv'
  OBVIOUS
<1>1. UNCHANGED <<board, peer, toHost, resynced, rxseq_txack>>
  BY DEF HostGoesOn, rtk_init, SyncDone, ConfigDone, rtk_get_eversion,
         rtk_vendor_change_speed_h5, NothingToDownload, rtk_download_fw_config,
         hci_download_patch, PatchDone, world, wire, seqs
<1>2. /\ \A f \in Range(toCtrl') : f \in Range(toCtrl) \/ ~Reliable(f) \/ f = host_last_cmd'
      /\ \/ UNCHANGED <<host_last_cmd, msgq_txseq>>
         \/ /\ at' \in {"lmp", "rom", "rate", "patch"}
            /\ host_last_cmd' \in Frame /\ host_last_cmd'.kind = at'
            /\ host_last_cmd'.seq = msgq_txseq /\ msgq_txseq' = NextSeq(msgq_txseq)
  BY GoingOn
<1>3. msgq_txseq \in 0 .. 7 /\ rxseq_txack \in 0 .. 7
  BY DEF TypeOK
<1>4. link_estab_state' = link_estab_state \/ link_estab_state' = "H5_PATCH"
  BY DEF HostGoesOn, rtk_init, SyncDone, ConfigDone, rtk_get_eversion,
         rtk_vendor_change_speed_h5, NothingToDownload, rtk_download_fw_config,
         hci_download_patch, PatchDone
<1>5. PatchKept'
  <2> SUFFICES ASSUME at' = "patch" PROVE PatchKept'
    BY DEF PatchKept
  <2>1. rtk_download_fw_config \/ hci_download_patch
    BY DEF HostGoesOn, rtk_init, SyncDone, ConfigDone, rtk_get_eversion,
           rtk_vendor_change_speed_h5, NothingToDownload, rtk_download_fw_config,
           hci_download_patch, PatchDone
  <2>2. link_estab_state' \in {"H5_PATCH", "H5_ACTIVE"}
    BY <1>4, <2>1 DEF rtk_download_fw_config, hci_download_patch, CommandInv, PatchKept
  <2>3. host_last_cmd'.kind = "patch" /\ host_last_cmd'.seq = (msgq_txseq' + 7) % 8
    <3>1. msgq_txseq' = NextSeq(msgq_txseq)
      BY <2>1 DEF rtk_download_fw_config, hci_download_patch, Send
    <3>2. msgq_txseq' # msgq_txseq
      BY <1>3, <3>1 DEF NextSeq
    <3>3. host_last_cmd'.kind = "patch" /\ host_last_cmd'.seq = msgq_txseq
      BY <1>2, <3>2
    <3> QED
      BY <1>3, <3>1, <3>3, NextSeqType
  <2> QED
    BY <2>2, <2>3 DEF PatchKept
<1>6. ASSUME Opening' PROVE OpeningInv'
  <2>1. at' \notin {"done", "failed"} /\ ~resynced
        /\ link_estab_state' \in {"H5_SYNC", "H5_CONFIG", "H5_INIT"}
    BY <1>1, <1>6 DEF Opening
  <2>2. \/ rtk_init \/ SyncDone \/ ConfigDone \/ rtk_get_eversion \/ rtk_vendor_change_speed_h5
    <3>1. ~NothingToDownload /\ ~PatchDone /\ ~rtk_download_fw_config
      BY <2>1 DEF NothingToDownload, PatchDone, rtk_download_fw_config
    <3>2. ~hci_download_patch
      BY <2>1 DEF hci_download_patch, CommandInv, PatchKept
    <3> QED
      BY <3>1, <3>2 DEF HostGoesOn
  <2>3. /\ link_estab_state' = link_estab_state
        /\ at \in {"start", "sync", "config", "lmp", "rom"}
    BY <2>2 DEF rtk_init, SyncDone, ConfigDone, rtk_get_eversion, rtk_vendor_change_speed_h5,
                VersionsKnown
  <2>4. Opening /\ OpeningInv
    BY <2>1, <2>3 DEF Opening, CommandInv
  <2>5. CASE rtk_init \/ SyncDone
    <3>1. at' \notin First /\ UNCHANGED <<host_last_cmd, msgq_txseq>> /\ at \notin First
      BY <2>5 DEF rtk_init, SyncDone, First, seqs
    <3>2. host_last_cmd = NoFrame /\ msgq_txseq = 0 /\ rxseq_txack = 0
      BY <2>4, <3>1 DEF OpeningInv
    <3>3. \A g : Numbered(g)' <=> Numbered(g)
      BY <1>1, <3>1 DEF Numbered, Numbers
    <3>4. \A g : ~Reliable(g) => Numbered(g)
      BY DEF Numbered
    <3>5. \A g \in Range(toCtrl') \cup Range(toHost') \cup Range(peer'.unacked) : Numbered(g)'
      BY <1>1, <1>2, <2>4, <3>1, <3>2, <3>3, <3>4, NoFrameUnreliable DEF OpeningInv
    <3> QED
      BY <1>1, <3>1, <3>2, <3>5 DEF OpeningInv
  <2>6. CASE ConfigDone \/ rtk_get_eversion \/ rtk_vendor_change_speed_h5
    <3>1. at' \in First /\ msgq_txseq' = NextSeq(msgq_txseq)
      BY <2>6 DEF ConfigDone, rtk_get_eversion, rtk_vendor_change_speed_h5, First, Send
    <3>2. /\ host_last_cmd' \in Frame /\ host_last_cmd'.kind = at'
          /\ host_last_cmd'.seq = msgq_txseq
      <4>1. msgq_txseq' # msgq_txseq
        BY <1>3, <3>1 DEF NextSeq
      <4> QED
        BY <1>2, <4>1
    <3>3. /\ msgq_txseq = Numbers[at'] /\ rxseq_txack = msgq_txseq
          /\ (at' = "rom" => ~board.rom8723a) /\ Unanswered'
      <4>1. CASE ConfigDone
        <5>1. at' = "lmp" /\ hci_version_cmd_state' = "cmd_has_sent" /\ at \notin First
          BY <4>1 DEF ConfigDone, First
        <5> QED
          BY <2>4, <5>1, NumbersAre DEF OpeningInv, Unanswered
      <4>2. CASE rtk_get_eversion
        <5>1. /\ at = "lmp" /\ at' = "rom" /\ rom_version_cmd_state' = "cmd_has_sent"
              /\ ~board.rom8723a /\ hci_version_cmd_state = "event_received"
          BY <4>2 DEF rtk_get_eversion
        <5>2. ~Unanswered /\ at \in First
          BY <5>1 DEF Unanswered, First
        <5> QED
          BY <2>4, <5>1, <5>2, NumbersAre DEF OpeningInv, Unanswered
      <4>3. CASE rtk_vendor_change_speed_h5
        <5>1. VersionsKnown /\ at' = "rate"
          BY <4>3 DEF rtk_vendor_change_speed_h5
        <5>2. ~Unanswered /\ at \in First
          BY <5>1 DEF VersionsKnown, Unanswered, First
        <5>3. link_estab_state' = "H5_INIT"
          BY <2>3, <5>1, <5>2, <2>4 DEF LinkInv, Opened, Opening, First
        <5>4. msgq_txseq = Numbers[at] + 1 /\ rxseq_txack = msgq_txseq
              /\ (at = "rom" => ~board.rom8723a)
          BY <2>4, <5>2 DEF OpeningInv
        <5>5. Numbers["rate"] = Numbers[at] + 1
          BY <5>1, <5>4, NumbersAre DEF VersionsKnown
        <5> QED
          BY <5>1, <5>3, <5>4, <5>5 DEF Unanswered
      <4> QED
        BY <2>6, <4>1, <4>2, <4>3
    <3>4. msgq_txseq \in 0 .. 2 /\ msgq_txseq' = msgq_txseq + 1
      <4>1. msgq_txseq \in 0 .. 2
        BY <3>1, <3>3, NumbersAre
      <4> QED
        BY <3>1, <4>1, NextSeqType
    <3>5. Numbers' = Numbers
      BY <1>1 DEF Numbers
    <3>6. \A g \in Frame : Numbered(g) => Numbered(g)'
      <4> SUFFICES ASSUME NEW g \in Frame, Numbered(g), Reliable(g)
                   PROVE  Numbered(g)'
        BY DEF Numbered
      <4>1. g.seq \in 0 .. 7 /\ g.seq < msgq_txseq
        BY DEF Numbered, Frame
      <4>2. g.seq < msgq_txseq'
        BY <3>4, <4>1
      <4> QED
        BY <1>1, <3>5, <4>2 DEF Numbered
    <3>7. Numbered(host_last_cmd)'
      <4>1. host_last_cmd'.seq < msgq_txseq'
        BY <3>2, <3>4
      <4> QED
        BY <1>1, <3>1, <3>2, <3>3, <3>5, <4>1 DEF Numbered
    <3>8. \A g \in Range(toCtrl) \cup Range(toHost) \cup Range(peer.unacked) : g \in Frame /\ Numbered(g)
      <4>1. toCtrl \in Seq(Frame) /\ toHost \in Seq(Frame) /\ peer.unacked \in Seq(Frame)
        BY DEF TypeOK
      <4>2. \A g \in Range(toCtrl) \cup Range(toHost) \cup Range(peer.unacked) : g \in Frame
        BY <4>1 DEF Range
      <4> QED
        BY <2>4, <4>2 DEF OpeningInv
    <3>9. \A g \in Range(toCtrl') \cup Range(toHost') \cup Range(peer'.unacked) : Numbered(g)'
      <4>1. \A g : ~Reliable(g) => Numbered(g)'
        BY DEF Numbered
      <4>2. \A g \in Range(toCtrl') : Numbered(g)'
        <5> SUFFICES ASSUME NEW g \in Range(toCtrl') PROVE Numbered(g)'
          OBVIOUS
        <5>1. CASE g \in Range(toCtrl)
          BY <3>6, <3>8, <5>1
        <5>2. CASE ~Reliable(g)
          BY <4>1, <5>2
        <5>3. CASE g = host_last_cmd'
          BY <3>7, <5>3 DEF Numbered
        <5> QED
          BY <1>2, <5>1, <5>2, <5>3
      <4> QED
        BY <1>1, <3>6, <3>8, <4>2
    <3> QED
      BY <1>1, <3>1, <3>2, <3>3, <3>4, <3>5, <3>9 DEF OpeningInv
  <2> QED
    BY <2>2, <2>5, <2>6
<1>7. EarlyOpening'
  <2> SUFFICES ASSUME at' \in Early, ~resynced
               PROVE  link_estab_state' \in {"H5_SYNC", "H5_CONFIG", "H5_INIT"}
    BY <1>1 DEF EarlyOpening
  <2>1. rtk_init \/ SyncDone \/ ConfigDone \/ rtk_get_eversion
    <3>1. /\ ~rtk_vendor_change_speed_h5 /\ ~NothingToDownload /\ ~PatchDone
          /\ ~rtk_download_fw_config
      BY DEF rtk_vendor_change_speed_h5, NothingToDownload, PatchDone, rtk_download_fw_config, Early
    <3>2. ~hci_download_patch
      BY DEF hci_download_patch, Early
    <3> QED
      BY <3>1, <3>2 DEF HostGoesOn
  <2>2. link_estab_state' = link_estab_state /\ at \in Early
    BY <2>1 DEF rtk_init, SyncDone, ConfigDone, rtk_get_eversion, Early
  <2> QED
    BY <2>2 DEF CommandInv, EarlyOpening
<1> QED
  BY <1>1, <1>5, <1>6, <1>7 DEF CommandInv

LEMMA CommandAlarms == TypeOK /\ CommandInv /\ Alarm => CommandInv'
<1> SUFFICES ASSUME TypeOK, CommandInv, Alarm PROVE CommandInv'
  OBVIOUS
<1>1. /\ UNCHANGED <<board, peer, link_estab_state, seqs, host_last_cmd, indices, versions, toHost,
                     resynced>>
      /\ peer.expect = peer.seq
  BY DEF Alarm, world, CommandInv
<1>2. /\ \A f \in Range(toCtrl') : f \in Range(toCtrl) \/ ~Reliable(f) \/ f = host_last_cmd
      /\ at' = at \/ at' = "failed"
  BY AlarmSends
<1>3. PatchKept'
  BY <1>1, <1>2 DEF CommandInv, PatchKept, seqs
<1>5. EarlyOpening'
  BY <1>1, <1>2 DEF CommandInv, EarlyOpening, Early
<1>4. ASSUME Opening' PROVE OpeningInv'
  <2>1. at' = at /\ Opening /\ OpeningInv
    BY <1>1, <1>2, <1>4 DEF Opening, CommandInv
  <2>2. \A g : Numbered(g)' <=> Numbered(g)
    BY <1>1 DEF Numbered, Numbers, seqs
  <2>3. \A g : ~Reliable(g) => Numbered(g)
    BY DEF Numbered
  <2>4. Numbered(host_last_cmd)
    <3>1. CASE host_last_cmd = NoFrame
      BY <2>3, <3>1, NoFrameUnreliable
    <3>2. CASE host_last_cmd # NoFrame
      <4>1. /\ at \in First /\ (at = "rom" => ~board.rom8723a)
            /\ msgq_txseq = Numbers[at] + 1 /\ host_last_cmd.kind = at
            /\ host_last_cmd.seq = Numbers[at]
        BY <2>1, <3>2 DEF OpeningInv
      <4>2. Numbers[at] \in 0 .. 2
        BY <4>1, NumbersAre
      <4>3. host_last_cmd.seq < msgq_txseq
        BY <4>1, <4>2
      <4> QED
        BY <4>1, <4>3 DEF Numbered
    <3> QED
      BY <3>1, <3>2
  <2>5. \A g \in Range(toCtrl') \cup Range(toHost') \cup Range(peer'.unacked) : Numbered(g)'
    BY <1>1, <1>2, <2>1, <2>2, <2>3, <2>4 DEF OpeningInv
  <2>6. Unanswered' <=> Unanswered
    BY <1>1, <2>1 DEF Unanswered, indices, versions
  <2> QED
    BY <1>1, <2>1, <2>5, <2>6 DEF OpeningInv, Numbers, seqs
<1> QED
  BY <1>1, <1>3, <1>4, <1>5 DEF CommandInv

LEMMA CommandWorld ==
  TypeOK /\ CommandInv /\ (PeerAsks \/ PeerReceives \/ PeerRepeats \/ Lose) => CommandInv'
<1> SUFFICES ASSUME TypeOK, CommandInv, PeerAsks \/ PeerReceives \/ PeerRepeats \/ Lose
             PROVE  CommandInv'
  OBVIOUS
<1>1. UNCHANGED host
  BY DEF PeerAsks, PeerReceives, PeerRepeats, Lose
<1>2. PatchKept' /\ EarlyOpening'
  BY <1>1 DEF CommandInv, PatchKept, EarlyOpening, host, seqs
<1>3. /\ \A g : Numbered(g)' <=> Numbered(g)
      /\ \A g : ~Reliable(g) => Numbered(g)
      /\ Opening' <=> Opening
      /\ Unanswered' <=> Unanswered
  BY <1>1 DEF Numbered, Numbers, Opening, Unanswered, host, seqs, indices, versions
<1>4. /\ peer'.expect = peer'.seq
      /\ OpeningInv => \A g \in Range(toCtrl') \cup Range(toHost') \cup Range(peer'.unacked) : Numbered(g)
  <2>1. CASE PeerReceives
    <3> DEFINE f == Head(toCtrl)
               event == [f EXCEPT !.seq = peer.seq, !.ack = 0]
    <3>1. /\ f \in Range(toCtrl) /\ f \in Frame /\ Range(toCtrl') \subseteq Range(toCtrl)
          /\ \/ /\ peer'.expect = peer.expect /\ peer'.seq = peer.seq
                /\ Range(peer'.unacked) \subseteq Range(peer.unacked)
                /\ \A g \in Range(toHost') :
                     g \in Range(toHost) \/ g = Answer("syncresp") \/ g = Answer("confresp")
             \/ /\ f.seq = peer.expect
                /\ peer'.expect = NextSeq(peer.expect) /\ peer'.seq = NextSeq(peer.seq)
                /\ Range(peer'.unacked) \subseteq Range(peer.unacked) \cup {event}
                /\ Range(toHost') \subseteq Range(toHost) \cup {event}
      BY <2>1, PeerTakes
    <3>2. peer.seq \in 0 .. 7 /\ peer.expect = peer.seq
      BY DEF TypeOK, CommandInv
    <3>3. event.kind = f.kind /\ event.seq = peer.seq
      BY <3>1, <3>2, EventType
    <3>4. ~Reliable(Answer("syncresp")) /\ ~Reliable(Answer("confresp"))
      BY AnswerType, Kinds DEF Reliable
    <3> HIDE DEF f, event, Answer
    <3>5. f.seq = peer.expect /\ Numbered(f) => Numbered(event)
      BY <3>2, <3>3 DEF Numbered, Reliable
    <3> QED
      BY <1>3, <3>1, <3>2, <3>4, <3>5 DEF OpeningInv
  <2>2. CASE PeerAsks \/ PeerRepeats \/ Lose
    <3>1. /\ Range(toCtrl') \subseteq Range(toCtrl) /\ UNCHANGED peer
          /\ \A f \in Range(toHost') :
               f \in Range(toHost) \cup Range(peer.unacked) \/ f.kind \in {"sync", "conf"}
      BY <2>2, LineBrings
    <3>2. \A f : f.kind \in {"sync", "conf"} => ~Reliable(f)
      BY Kinds DEF Reliable
    <3> QED
      BY <1>3, <3>1, <3>2 DEF OpeningInv, CommandInv
  <2> QED
    BY <2>1, <2>2
<1>5. ASSUME Opening' PROVE OpeningInv'
  <2>1. Opening /\ OpeningInv
    BY <1>3, <1>5 DEF CommandInv
  <2> QED
    BY <1>1, <1>3, <1>4, <2>1 DEF OpeningInv, Numbers, host, seqs
<1> QED
  BY <1>2, <1>4, <1>5 DEF CommandInv

LEMMA CommandNext == TypeOK /\ LinkInv /\ CommandInv /\ [Next]_vars => CommandInv'
<1> SUFFICES ASSUME TypeOK, LinkInv, CommandInv, [Next]_vars PROVE CommandInv'
  OBVIOUS
<1>1. CASE UNCHANGED vars
  BY <1>1 DEF vars, CommandInv, Opening, OpeningInv, PatchKept, EarlyOpening, Numbered, Numbers, Unanswered
<1>2. CASE Next
  BY <1>2, CommandReceives, CommandGoesOn, CommandAlarms, CommandWorld DEF Next
<1> QED
  BY <1>1, <1>2

LEMMA CommandIsKept == TypeOK /\ LinkInv /\ CommandInv => CommandKept
<1> SUFFICES ASSUME TypeOK, LinkInv, CommandInv, Unanswered, ~resynced
             PROVE  host_last_cmd.kind = at /\ host_last_cmd.seq = (msgq_txseq + 7) % 8
  BY DEF CommandKept
<1>1. CASE at = "patch"
  BY <1>1 DEF CommandInv, PatchKept
<1>2. CASE at \in First
  <2>1. CASE link_estab_state = "H5_INIT"
    <3>1. OpeningInv
      BY <1>2, <2>1 DEF CommandInv, Opening, First
    <3>2. /\ host_last_cmd.kind = at /\ host_last_cmd.seq = Numbers[at]
          /\ msgq_txseq = Numbers[at] + 1 /\ Numbers[at] \in 0 .. 2
      BY <1>2, <3>1, NumbersAre DEF OpeningInv
    <3>3. \A n \in 0 .. 2 : ((n + 1) + 7) % 8 = n
      OBVIOUS
    <3> QED
      BY <3>2, <3>3
  <2>2. CASE link_estab_state # "H5_INIT"
    <3>1. at \in {"lmp", "rom"}
      BY <1>2, <2>2 DEF Unanswered, First
    <3>2. link_estab_state \in {"H5_SYNC", "H5_CONFIG", "H5_INIT"} /\ Opened
      BY <3>1 DEF CommandInv, EarlyOpening, Early, LinkInv
    <3> QED
      BY <2>2, <3>2 DEF Opened
  <2> QED
    BY <2>1, <2>2
<1>3. at = "patch" \/ at \in First
  BY DEF Unanswered, First
<1> QED
  BY <1>1, <1>2, <1>3
\* While an answer is missing, the command that the alarm would send again is the one that is
\* outstanding, whatever is lost, repeated or late, unless a number was taken over out of order.
THEOREM CommandStored == Spec => []CommandKept
BY CommandIsKept, TypesInit, LinkInit, CommandInit, TypesNext, LinkNext, CommandNext, PTL DEF Spec

-----------------------------------------------------------------------------
(* The plan.                                                               *)

\* The place of a command in the plan, counted from 0, and the number of commands.
RatePlace(b) == IF b.rom8723a THEN 1 ELSE 2
Base(b) == RatePlace(b) + (IF b.speed = "config" THEN 1 ELSE 0)
Place(b, f) ==
  IF f.kind = "patch" THEN Base(b) + f.index
  ELSE IF f.kind = "rate" THEN RatePlace(b)
  ELSE IF f.kind = "rom" THEN 1 ELSE 0
Ends(b) == Base(b) + (IF b.chunks = 0 THEN 0 ELSE PatchTotal(b) + 1)

\* A command of the plan, with the number that its place gives it.
Planned(b, f) ==
  /\ f.kind = "rom" => ~b.rom8723a
  /\ f.kind = "rate" => b.speed = "config"
  /\ f.kind = "patch" => b.chunks > 0 /\ f.index <= PatchTotal(b)
  /\ f.kind # "patch" => f.index = 0
  /\ f.seq = Place(b, f) % 8

LEMMA Eight ==
  /\ \A n \in Int : n % 8 \in 0 .. 7
  /\ \A n \in Int : NextSeq(n % 8) = (n + 1) % 8
  /\ \A m \in Int, n \in Int : m % 8 = n % 8 /\ m - n \in -7 .. 7 => m = n
<1>1. \A n \in Int : n % 8 \in 0 .. 7
  OBVIOUS
<1>2. \A n \in Int : NextSeq(n % 8) = (n + 1) % 8
  BY SMTT(30) DEF NextSeq
<1>3. \A m \in Int, n \in Int : m % 8 = n % 8 /\ m - n \in -7 .. 7 => m = n
  BY SMTT(30)
<1> QED
  BY <1>1, <1>2, <1>3

\* The padding fills the numbers up to a multiple of 8, or to one short of it.
LEMMA Padding ==
  ASSUME NEW b \in Board, b.chunks > 0
  PROVE  /\ PatchTotal(b) \in 4 .. 127
         /\ Ends(b) % 8 = IF b.speed = "config" THEN 0 ELSE 7
<1> DEFINE c == CmdSentNum(b)
           n == b.chunks + c
           pad == (8 - (n % 8)) % 8
<1>1. b.chunks \in 1 .. 98 /\ c \in 2 .. 3
  BY DEF Board, CmdSentNum
<1>2. n \in 3 .. 101
  BY <1>1
<1>3. (n + pad) % 8 = 0 /\ pad \in 0 .. 7
  <2> HIDE DEF n
  <2> QED
    BY <1>2, SMTT(30)
<1>4. PatchTotal(b) = (n + pad) - c - 1
  <2>1. PatchTotal(b) = b.chunks - 1 + pad
    BY DEF PatchTotal
  <2> HIDE DEF pad, c
  <2> QED
    BY <1>1, <1>3, <2>1
<1>5. n + pad >= 8
  <2> HIDE DEF n, pad
  <2> QED
    BY <1>2, <1>3
<1>6. PatchTotal(b) \in 4 .. 127
  <2>1. PatchTotal(b) \in 0 .. 127
    BY TotalType
  <2> HIDE DEF n, pad, c
  <2> QED
    BY <1>1, <1>2, <1>3, <1>4, <1>5, <2>1
<1> DEFINE m == n + pad
<1>7. m \in 8 .. 108 /\ m % 8 = 0 /\ PatchTotal(b) = m - c - 1
  <2> HIDE DEF n, pad, c
  <2> QED
    BY <1>2, <1>3, <1>4, <1>5
<1>8. CASE b.speed = "config"
  <2>1. Base(b) = c
    BY <1>8 DEF Base, RatePlace, CmdSentNum
  <2>2. Ends(b) = m
    <3> HIDE DEF m, c
    <3> QED
      BY <1>1, <1>7, <2>1 DEF Ends
  <2> QED
    BY <1>6, <1>7, <1>8, <2>2
<1>9. CASE b.speed # "config"
  <2>1. Base(b) = c - 1
    BY <1>9 DEF Base, RatePlace, CmdSentNum
  <2>2. Ends(b) = m - 1
    <3> HIDE DEF m, c
    <3> QED
      BY <1>1, <1>7, <2>1 DEF Ends
  <2>3. \A k \in 8 .. 108 : k % 8 = 0 => (k - 1) % 8 = 7
    BY SMTT(30)
  <2> QED
    BY <1>6, <1>7, <1>9, <2>2, <2>3
<1> QED
  BY <1>8, <1>9

LEMMA PlanSizes ==
  ASSUME NEW b \in Board
  PROVE  /\ RatePlace(b) \in {1, 2} /\ Base(b) \in 1 .. 3
         /\ b.rom8723a => RatePlace(b) = 1
         /\ ~b.rom8723a => RatePlace(b) = 2
         /\ b.speed = "config" => Base(b) = RatePlace(b) + 1
         /\ b.speed # "config" => Base(b) = RatePlace(b)
         /\ b.chunks = 0 => Ends(b) = Base(b)
         /\ b.chunks > 0 => /\ Ends(b) = Base(b) + PatchTotal(b) + 1
                            /\ PatchTotal(b) \in 4 .. 127
         /\ b.chunks \in Nat /\ Ends(b) \in 1 .. 140
<1>1. b.chunks \in Nat
  BY DEF Board
<1>2. /\ RatePlace(b) \in {1, 2} /\ Base(b) \in 1 .. 3
      /\ b.rom8723a => RatePlace(b) = 1
      /\ ~b.rom8723a => RatePlace(b) = 2
      /\ b.speed = "config" => Base(b) = RatePlace(b) + 1
      /\ b.speed # "config" => Base(b) = RatePlace(b)
  BY DEF Base, RatePlace
<1>3. b.chunks > 0 => PatchTotal(b) \in 4 .. 127
  BY Padding
<1> QED
  BY <1>1, <1>2, <1>3 DEF Ends

LEMMA PlaceType ==
  ASSUME NEW b \in Board, NEW f \in Frame, Reliable(f), Planned(b, f)
  PROVE  Place(b, f) \in 0 .. Ends(b) - 1
<1>1. f.index \in 0 .. 127 /\ f.kind \in {"lmp", "rom", "rate", "patch"}
  BY DEF Frame, Reliable, Commands
<1>2. CASE f.kind = "patch"
  <2>1. b.chunks > 0 /\ f.index <= PatchTotal(b) /\ Place(b, f) = Base(b) + f.index
    BY <1>2 DEF Planned, Place
  <2>2. Base(b) \in 1 .. 3 /\ Ends(b) = Base(b) + PatchTotal(b) + 1 /\ PatchTotal(b) \in 4 .. 127
    BY <2>1, PlanSizes
  <2> DEFINE p == PatchTotal(b)
             m == Base(b)
             i == f.index
  <2>3. i \in 0 .. 127 /\ i <= p /\ m \in 1 .. 3 /\ p \in 4 .. 127
    BY <1>1, <2>1, <2>2
  <2> HIDE DEF p, m, i
  <2>4. m + i \in 0 .. (m + p + 1) - 1
    BY <2>3
  <2> QED
    BY <2>1, <2>2, <2>4 DEF p, m, i
<1>3. CASE f.kind # "patch"
  <2>1. /\ f.kind = "rom" => ~b.rom8723a
        /\ f.kind = "rate" => b.speed = "config"
        /\ Place(b, f) = IF f.kind = "rate" THEN RatePlace(b) ELSE IF f.kind = "rom" THEN 1 ELSE 0
    BY <1>3 DEF Planned, Place
  <2>2. /\ RatePlace(b) \in {1, 2} /\ Base(b) \in 1 .. 3 /\ Base(b) >= RatePlace(b)
        /\ ~b.rom8723a => RatePlace(b) = 2
        /\ b.speed = "config" => Base(b) = RatePlace(b) + 1
        /\ Ends(b) \in Int /\ Ends(b) >= Base(b)
    BY PlanSizes
  <2> DEFINE p == Place(b, f)
             e == Ends(b)
  <2>3. p \in Int /\ e \in Int /\ 0 <= p /\ p <= e - 1
    <3>1. CASE f.kind = "lmp"
      BY <2>1, <2>2, <3>1
    <3>2. CASE f.kind = "rom"
      BY <2>1, <2>2, <3>2
    <3>3. CASE f.kind = "rate"
      BY <2>1, <2>2, <3>3
    <3> QED
      BY <1>1, <1>3, <3>1, <3>2, <3>3
  <2> QED
    BY <2>3
<1> QED
  BY <1>2, <1>3

LEMMA ConcatAt ==
  ASSUME NEW S, NEW s \in Seq(S), NEW t \in Seq(S)
  PROVE  /\ s \o t \in Seq(S) /\ Len(s \o t) = Len(s) + Len(t)
         /\ \A i \in 1 .. Len(s) : (s \o t)[i] = s[i]
         /\ \A i \in 1 .. Len(t) : (s \o t)[Len(s) + i] = t[i]
OBVIOUS

\* What is at each place.
LEMMA PlanIs ==
  ASSUME NEW b \in Board
  PROVE  /\ Plan(b) \in Seq(Commands \X Int) /\ Len(Plan(b)) = Ends(b)
         /\ Plan(b)[1] = <<"lmp", 0>>
         /\ ~b.rom8723a => Plan(b)[2] = <<"rom", 0>>
         /\ b.speed = "config" => Plan(b)[RatePlace(b) + 1] = <<"rate", 0>>
         /\ b.chunks > 0 =>
              \A k \in 0 .. PatchTotal(b) : Plan(b)[Base(b) + k + 1] = <<"patch", k>>
<1> DEFINE S == Commands \X Int
           lmp == <<<<"lmp", 0>>>>
           rom == IF b.rom8723a THEN <<>> ELSE <<<<"rom", 0>>>>
           rate == IF b.speed = "config" THEN <<<<"rate", 0>>>> ELSE <<>>
           patch == IF b.chunks = 0 THEN <<>>
                    ELSE [i \in 1 .. PatchTotal(b) + 1 |-> <<"patch", i - 1>>]
<1>1. /\ lmp \in Seq(S) /\ Len(lmp) = 1 /\ lmp[1] = <<"lmp", 0>>
      /\ rom \in Seq(S) /\ Len(rom) = RatePlace(b) - 1 /\ (~b.rom8723a => rom[1] = <<"rom", 0>>)
      /\ rate \in Seq(S) /\ Len(rate) = Base(b) - RatePlace(b)
      /\ (b.speed = "config" => rate[1] = <<"rate", 0>>)
  <2>1. <<"lmp", 0>> \in S /\ <<"rom", 0>> \in S /\ <<"rate", 0>> \in S
    BY Kinds
  <2> HIDE DEF S
  <2>2. lmp \in Seq(S) /\ Len(lmp) = 1 /\ lmp[1] = <<"lmp", 0>>
    BY <2>1
  <2>3. /\ rom \in Seq(S) /\ Len(rom) = RatePlace(b) - 1
        /\ (~b.rom8723a => rom[1] = <<"rom", 0>>)
    <3>1. CASE b.rom8723a
      BY <3>1, PlanSizes
    <3>2. CASE ~b.rom8723a
      BY <2>1, <3>2, PlanSizes
    <3> QED
      BY <3>1, <3>2
  <2>4. /\ rate \in Seq(S) /\ Len(rate) = Base(b) - RatePlace(b)
        /\ (b.speed = "config" => rate[1] = <<"rate", 0>>)
    <3>1. CASE b.speed = "config"
      BY <2>1, <3>1, PlanSizes
    <3>2. CASE b.speed # "config"
      BY <3>2, PlanSizes
    <3> QED
      BY <3>1, <3>2
  <2> QED
    BY <2>2, <2>3, <2>4
<1>2. /\ patch \in Seq(S) /\ Len(patch) = Ends(b) - Base(b)
      /\ b.chunks > 0 => \A k \in 0 .. PatchTotal(b) : patch[k + 1] = <<"patch", k>>
  <2>1. CASE b.chunks = 0
    BY <2>1, PlanSizes
  <2>2. CASE b.chunks > 0
    <3>1. PatchTotal(b) \in 4 .. 127 /\ Ends(b) = Base(b) + PatchTotal(b) + 1 /\ Base(b) \in 1 .. 3
      BY <2>2, PlanSizes
    <3>7. Ends(b) - Base(b) = PatchTotal(b) + 1
      BY <3>1
    <3> DEFINE T == PatchTotal(b)
    <3> HIDE DEF T
    <3>2. patch = [i \in 1 .. T + 1 |-> <<"patch", i - 1>>]
      BY <2>2 DEF T
    <3>3. T \in 4 .. 127
      BY <3>1 DEF T
    <3> HIDE DEF patch
    <3>4. \A i \in 1 .. T + 1 : <<"patch", i - 1>> \in S
      BY <3>3, Kinds
    <3> HIDE DEF S
    <3>5. patch \in Seq(S) /\ Len(patch) = T + 1
      BY <3>2, <3>3, <3>4
    <3>6. \A k \in 0 .. T : patch[k + 1] = <<"patch", k>>
      BY <3>2, <3>3
    <3> QED
      BY <3>5, <3>6, <3>7 DEF T
  <2>3. b.chunks = 0 \/ b.chunks > 0
    BY PlanSizes
  <2> HIDE DEF patch
  <2> QED
    BY <2>1, <2>2, <2>3
<1>3. Plan(b) = lmp \o rom \o rate \o patch
  BY DEF Plan
<1>4. RatePlace(b) \in {1, 2} /\ Base(b) \in 1 .. 3 /\ Ends(b) \in Nat /\ Base(b) - RatePlace(b) \in {0, 1}
      /\ (~b.rom8723a => RatePlace(b) = 2) /\ (b.speed = "config" => Base(b) = RatePlace(b) + 1)
  BY PlanSizes
<1> HIDE DEF S, lmp, rom, rate, patch
<1> DEFINE two == lmp \o rom
           three == two \o rate
           four == three \o patch
<1>5. /\ two \in Seq(S) /\ Len(two) = RatePlace(b) /\ two[1] = <<"lmp", 0>>
      /\ ~b.rom8723a => two[2] = <<"rom", 0>>
  <2>0. lmp \in Seq(S) /\ rom \in Seq(S)
    BY <1>1
  <2>1. /\ two \in Seq(S) /\ Len(two) = Len(lmp) + Len(rom)
        /\ \A i \in 1 .. Len(lmp) : two[i] = lmp[i]
        /\ \A i \in 1 .. Len(rom) : two[Len(lmp) + i] = rom[i]
    BY <2>0, ConcatAt
  <2> HIDE DEF two
  <2> QED
    BY <1>1, <1>4, <2>1
<1> HIDE DEF two
<1>6. /\ three \in Seq(S) /\ Len(three) = Base(b) /\ three[1] = <<"lmp", 0>>
      /\ ~b.rom8723a => three[2] = <<"rom", 0>>
      /\ b.speed = "config" => three[RatePlace(b) + 1] = <<"rate", 0>>
  <2>0. two \in Seq(S) /\ rate \in Seq(S)
    BY <1>1, <1>5
  <2>1. /\ three \in Seq(S) /\ Len(three) = Len(two) + Len(rate)
        /\ \A i \in 1 .. Len(two) : three[i] = two[i]
        /\ \A i \in 1 .. Len(rate) : three[Len(two) + i] = rate[i]
    BY <2>0, ConcatAt
  <2> HIDE DEF three
  <2>2. three \in Seq(S) /\ Len(three) = Base(b)
    BY <1>1, <1>4, <1>5, <2>1
  <2>3. three[1] = <<"lmp", 0>> /\ (~b.rom8723a => three[2] = <<"rom", 0>>)
    BY <1>4, <1>5, <2>1
  <2>4. ASSUME b.speed = "config" PROVE three[RatePlace(b) + 1] = <<"rate", 0>>
    <3>1. 1 \in 1 .. Len(rate) /\ rate[1] = <<"rate", 0>> /\ Len(two) = RatePlace(b)
      BY <1>1, <1>4, <1>5, <2>4
    <3> QED
      BY <2>1, <3>1
  <2> QED
    BY <2>2, <2>3, <2>4
<1> HIDE DEF three
<1>7. /\ four \in Seq(S) /\ Len(four) = Ends(b) /\ four[1] = <<"lmp", 0>>
      /\ ~b.rom8723a => four[2] = <<"rom", 0>>
      /\ b.speed = "config" => four[RatePlace(b) + 1] = <<"rate", 0>>
      /\ b.chunks > 0 => \A k \in 0 .. PatchTotal(b) : four[Base(b) + k + 1] = <<"patch", k>>
  <2>0. three \in Seq(S) /\ patch \in Seq(S)
    BY <1>2, <1>6
  <2>1. /\ four \in Seq(S) /\ Len(four) = Len(three) + Len(patch)
        /\ \A i \in 1 .. Len(three) : four[i] = three[i]
        /\ \A i \in 1 .. Len(patch) : four[Len(three) + i] = patch[i]
    BY <2>0, ConcatAt
  <2> HIDE DEF four
  <2>2. /\ Len(four) = Ends(b) /\ four[1] = <<"lmp", 0>>
        /\ ~b.rom8723a => four[2] = <<"rom", 0>>
        /\ b.speed = "config" => four[RatePlace(b) + 1] = <<"rate", 0>>
    BY <1>2, <1>4, <1>6, <2>1
  <2>3. ASSUME b.chunks > 0, NEW k \in 0 .. PatchTotal(b)
        PROVE  four[Base(b) + k + 1] = <<"patch", k>>
    <3>1. /\ PatchTotal(b) \in 4 .. 127 /\ Ends(b) = Base(b) + PatchTotal(b) + 1
          /\ Base(b) \in 1 .. 3
      BY <2>3, PlanSizes
    <3>4. Len(patch) = Ends(b) - Base(b) /\ Len(three) = Base(b) /\ k \in 0 .. PatchTotal(b)
      BY <1>2, <1>6
    <3>2. k + 1 \in 1 .. Len(patch) /\ Len(three) + (k + 1) = Base(b) + k + 1
      <4> DEFINE p == PatchTotal(b)
                 m == Base(b)
                 e == Ends(b)
      <4>1. /\ p \in 4 .. 127 /\ e = m + p + 1 /\ m \in 1 .. 3 /\ k \in 0 .. p
            /\ Len(patch) = e - m /\ Len(three) = m
        BY <3>1, <3>4
      <4> HIDE DEF p, m, e
      <4>2. k + 1 \in 1 .. e - m /\ m + (k + 1) = m + k + 1
        BY <4>1
      <4> QED
        BY <4>1, <4>2 DEF m
    <3> QED
      BY <1>2, <2>1, <2>3, <3>2
  <2> QED
    BY <2>1, <2>2, <2>3
<1> QED
  BY <1>3, <1>7 DEF S, four, three, two

LEMMA PlanAt ==
  ASSUME NEW b \in Board, NEW f \in Frame, Reliable(f), Planned(b, f)
  PROVE  Plan(b)[Place(b, f) + 1] = <<f.kind, f.index>>
<1>1. f.index \in 0 .. 127 /\ f.kind \in {"lmp", "rom", "rate", "patch"}
  BY DEF Frame, Reliable, Commands
<1>2. /\ Plan(b)[1] = <<"lmp", 0>>
      /\ ~b.rom8723a => Plan(b)[2] = <<"rom", 0>>
      /\ b.speed = "config" => Plan(b)[RatePlace(b) + 1] = <<"rate", 0>>
      /\ b.chunks > 0 =>
           \A k \in 0 .. PatchTotal(b) : Plan(b)[Base(b) + k + 1] = <<"patch", k>>
  BY PlanIs
<1>3. CASE f.kind = "patch"
  <2>1. b.chunks > 0 /\ f.index \in 0 .. PatchTotal(b) /\ Place(b, f) = Base(b) + f.index
    BY <1>1, <1>3, PlanSizes DEF Planned, Place
  <2> QED
    BY <1>2, <1>3, <2>1
<1>4. CASE f.kind # "patch"
  <2>1. f.index = 0
    BY <1>4 DEF Planned
  <2> QED
    BY <1>1, <1>2, <1>4, <2>1 DEF Planned, Place
<1> QED
  BY <1>3, <1>4

-----------------------------------------------------------------------------
(* Queues.                                                                 *)

\* Commands are in the queue in their order, some of them more than once.
InTurn(b, queue) ==
  \A i, j \in DOMAIN queue :
    i < j /\ Reliable(queue[i]) /\ Reliable(queue[j]) => Place(b, queue[i]) <= Place(b, queue[j])

\* The link is up before there are commands.
LinkFirst(queue) ==
  \A i, j \in DOMAIN queue : i < j /\ Reliable(queue[i]) => queue[j].kind \notin LinkControl

\* Frames of S have come behind what was in the queue.
Grown(queue, more, S) ==
  /\ more \in Seq(Frame) /\ Len(more) >= Len(queue)
  /\ \A j \in DOMAIN more : \/ j \in DOMAIN queue /\ more[j] = queue[j]
                            \/ j \notin DOMAIN queue /\ more[j] \in S

LEMMA GrownSame ==
  ASSUME NEW queue \in Seq(Frame), NEW S
  PROVE  Grown(queue, queue, S)
BY DEF Grown

LEMMA GrownPut ==
  ASSUME NEW queue \in Seq(Frame), NEW more, NEW S, Grown(queue, more, S), NEW f \in Frame, f \in S
  PROVE  Grown(queue, Put(more, f), S)
<1>1. /\ more \in Seq(Frame) /\ Len(more) >= Len(queue) /\ Len(more) \in Nat /\ Len(queue) \in Nat
      /\ DOMAIN queue = 1 .. Len(queue) /\ DOMAIN more = 1 .. Len(more)
  BY DEF Grown
<1> DEFINE p == Append(more, f)
<1>2. /\ p \in Seq(Frame) /\ Len(p) = Len(more) + 1 /\ DOMAIN p = 1 .. Len(more) + 1
      /\ p[Len(more) + 1] = f /\ \A j \in 1 .. Len(more) : p[j] = more[j]
  BY <1>1
<1> HIDE DEF p
<1>3. Grown(queue, p, S)
  <2>1. ASSUME NEW j \in DOMAIN p
        PROVE  \/ j \in DOMAIN queue /\ p[j] = queue[j]
               \/ j \notin DOMAIN queue /\ p[j] \in S
    <3>1. CASE j = Len(more) + 1
      BY <1>1, <1>2, <3>1
    <3>2. CASE j # Len(more) + 1
      <4>1. j \in DOMAIN more /\ p[j] = more[j]
        BY <1>1, <1>2, <2>1, <3>2
      <4> QED
        BY <4>1 DEF Grown
    <3> QED
      BY <3>1, <3>2
  <2>2. Len(p) >= Len(queue)
    BY <1>1, <1>2
  <2> QED
    BY <1>2, <2>1, <2>2 DEF Grown
<1> QED
  BY <1>3 DEF Put, p

LEMMA GrownRange ==
  ASSUME NEW queue \in Seq(Frame), NEW more, NEW S, Grown(queue, more, S)
  PROVE  more \in Seq(Frame) /\ \A f \in Range(more) : f \in Frame /\ (f \in Range(queue) \/ f \in S)
<1>1. more \in Seq(Frame)
  BY DEF Grown
<1>2. ASSUME NEW f \in Range(more) PROVE f \in Frame /\ (f \in Range(queue) \/ f \in S)
  <2>1. PICK j \in DOMAIN more : more[j] = f
    BY DEF Range
  <2> QED
    BY <1>1, <2>1 DEF Grown, Range
<1> QED
  BY <1>1, <1>2

\* The commands of S are one, and none in the queue comes after it.
LEMMA GrownInTurn ==
  ASSUME NEW b, NEW queue \in Seq(Frame), NEW more, NEW S, Grown(queue, more, S),
         InTurn(b, queue),
         \A g \in S : Reliable(g) =>
           /\ \A f \in Range(queue) : Reliable(f) => Place(b, f) <= Place(b, g)
           /\ \A f \in S : Reliable(f) => Place(b, f) <= Place(b, g)
  PROVE  InTurn(b, more)
<1> SUFFICES ASSUME NEW i \in DOMAIN more, NEW j \in DOMAIN more, i < j,
                    Reliable(more[i]), Reliable(more[j])
             PROVE  Place(b, more[i]) <= Place(b, more[j])
  BY DEF InTurn
<1>1. DOMAIN queue = 1 .. Len(queue) /\ Len(queue) \in Nat /\ i \in Nat /\ j \in Nat /\ i >= 1
  BY DEF Grown
<1>2. CASE j \in DOMAIN queue
  <2>1. i \in DOMAIN queue
    BY <1>1, <1>2
  <2>2. more[i] = queue[i] /\ more[j] = queue[j]
    BY <1>2, <2>1 DEF Grown
  <2> QED
    BY <1>2, <2>1, <2>2 DEF InTurn
<1>3. CASE j \notin DOMAIN queue
  <2>1. more[j] \in S
    BY <1>3 DEF Grown
  <2>2. more[i] \in Range(queue) \/ more[i] \in S
    BY DEF Grown, Range
  <2> QED
    BY <2>1, <2>2
<1> QED
  BY <1>2, <1>3

LEMMA GrownLinkFirst ==
  ASSUME NEW queue \in Seq(Frame), NEW more, NEW S, Grown(queue, more, S), LinkFirst(queue),
         \/ \A g \in S : g.kind \notin LinkControl
         \/ /\ \A g \in S : ~Reliable(g)
            /\ \A f \in Range(queue) : ~Reliable(f)
  PROVE  LinkFirst(more)
<1> SUFFICES ASSUME NEW i \in DOMAIN more, NEW j \in DOMAIN more, i < j, Reliable(more[i])
             PROVE  more[j].kind \notin LinkControl
  BY DEF LinkFirst
<1>1. DOMAIN queue = 1 .. Len(queue) /\ Len(queue) \in Nat /\ i \in Nat /\ j \in Nat /\ i >= 1
  BY DEF Grown
<1>2. CASE j \in DOMAIN queue
  <2>1. i \in DOMAIN queue
    BY <1>1, <1>2
  <2>2. more[i] = queue[i] /\ more[j] = queue[j]
    BY <1>2, <2>1 DEF Grown
  <2> QED
    BY <1>2, <2>1, <2>2 DEF LinkFirst
<1>3. CASE j \notin DOMAIN queue
  <2>1. more[j] \in S
    BY <1>3 DEF Grown
  <2>2. more[i] \in Range(queue) \/ more[i] \in S
    BY DEF Grown, Range
  <2> QED
    BY <2>1, <2>2
<1> QED
  BY <1>2, <1>3

\* What is left behind the first frame.
LEMMA TailAt ==
  ASSUME NEW b, NEW queue \in Seq(Frame), queue # <<>>
  PROVE  /\ InTurn(b, queue) =>
              /\ InTurn(b, Tail(queue))
              /\ \A f \in Range(Tail(queue)) :
                   Reliable(Head(queue)) /\ Reliable(f) => Place(b, Head(queue)) <= Place(b, f)
         /\ LinkFirst(queue) =>
              /\ LinkFirst(Tail(queue))
              /\ \A f \in Range(Tail(queue)) : Reliable(Head(queue)) => f.kind \notin LinkControl
<1> DEFINE t == Tail(queue)
           n == Len(queue)
<1>1. /\ n \in Nat /\ n >= 1 /\ DOMAIN queue = 1 .. n /\ DOMAIN t = 1 .. n - 1
      /\ Head(queue) = queue[1] /\ \A i \in 1 .. n - 1 : t[i] = queue[i + 1]
  OBVIOUS
<1> HIDE DEF t, n
<1>2. ASSUME InTurn(b, queue), NEW i \in DOMAIN t, NEW j \in DOMAIN t, i < j,
             Reliable(t[i]), Reliable(t[j])
      PROVE  Place(b, t[i]) <= Place(b, t[j])
  <2>1. i + 1 \in DOMAIN queue /\ j + 1 \in DOMAIN queue /\ i + 1 < j + 1
        /\ t[i] = queue[i + 1] /\ t[j] = queue[j + 1]
    BY <1>1, <1>2
  <2> QED
    BY <1>2, <2>1 DEF InTurn
<1>3. ASSUME InTurn(b, queue), NEW f \in Range(t), Reliable(Head(queue)), Reliable(f)
      PROVE  Place(b, Head(queue)) <= Place(b, f)
  <2>1. PICK j \in DOMAIN t : t[j] = f
    BY <1>3 DEF Range
  <2>2. j + 1 \in DOMAIN queue /\ 1 \in DOMAIN queue /\ 1 < j + 1 /\ f = queue[j + 1]
        /\ Head(queue) = queue[1]
    BY <1>1, <2>1
  <2> QED
    BY <1>3, <2>2 DEF InTurn
<1>4. ASSUME LinkFirst(queue), NEW i \in DOMAIN t, NEW j \in DOMAIN t, i < j, Reliable(t[i])
      PROVE  t[j].kind \notin LinkControl
  <2>1. i + 1 \in DOMAIN queue /\ j + 1 \in DOMAIN queue /\ i + 1 < j + 1
        /\ t[i] = queue[i + 1] /\ t[j] = queue[j + 1]
    BY <1>1, <1>4
  <2> QED
    BY <1>4, <2>1 DEF LinkFirst
<1>5. ASSUME LinkFirst(queue), NEW f \in Range(t), Reliable(Head(queue))
      PROVE  f.kind \notin LinkControl
  <2>1. PICK j \in DOMAIN t : t[j] = f
    BY <1>5 DEF Range
  <2>2. j + 1 \in DOMAIN queue /\ 1 \in DOMAIN queue /\ 1 < j + 1 /\ f = queue[j + 1]
        /\ Head(queue) = queue[1]
    BY <1>1, <2>1
  <2> QED
    BY <1>5, <2>2 DEF LinkFirst
<1>6. InTurn(b, queue) => InTurn(b, t)
  BY <1>2 DEF InTurn
<1>7. LinkFirst(queue) => LinkFirst(t)
  BY <1>4 DEF LinkFirst
<1> QED
  BY <1>3, <1>5, <1>6, <1>7 DEF t

Unnumbered == {f \in Frame : ~Reliable(f)}
Acks == {f \in Frame : f.kind = "ack"}
Links == {f \in Frame : f.kind \in LinkControl}

LEMMA AcksAre ==
  /\ Acks \subseteq Unnumbered /\ \A f \in Acks : ~Reliable(f) /\ f.kind \notin LinkControl
  /\ Links \subseteq Unnumbered /\ \A f \in Links : f.kind # "ack"
  /\ \A f \in Unnumbered : f \in Frame /\ ~Reliable(f)
BY Kinds DEF Acks, Links, Unnumbered, Reliable

LEMMA Prepared ==
  ASSUME TypeOK
  PROVE  /\ \A kind \in LinkControl : h5_prepare_pkt(kind, 0) \in Unnumbered
         /\ h5_prepare_pkt("ack", 0) \in Acks
         /\ \A n \in 0 .. 7 : [h5_prepare_pkt("ack", 0) EXCEPT !.ack = n] \in Acks
<1>1. ASSUME NEW kind \in LinkControl PROVE h5_prepare_pkt(kind, 0) \in Unnumbered
  <2>1. kind \in Commands \cup LinkControl \cup {"ack"} /\ kind \notin Commands /\ 0 \in 0 .. 127
    BY <1>1, Kinds
  <2>2. h5_prepare_pkt(kind, 0) \in Frame /\ h5_prepare_pkt(kind, 0).kind = kind
    BY <2>1, FrameTypes
  <2> HIDE DEF h5_prepare_pkt
  <2> QED
    BY <2>1, <2>2 DEF Unnumbered, Reliable
<1>2. h5_prepare_pkt("ack", 0) \in Acks
  BY FrameTypes DEF Acks
<1>3. ASSUME NEW n \in 0 .. 7 PROVE [h5_prepare_pkt("ack", 0) EXCEPT !.ack = n] \in Acks
  <2>1. [h5_prepare_pkt("ack", 0) EXCEPT !.ack = n] \in Frame
    BY AckType
  <2>2. h5_prepare_pkt("ack", 0) \in Frame /\ h5_prepare_pkt("ack", 0).kind = "ack"
    BY FrameTypes
  <2> HIDE DEF h5_prepare_pkt
  <2> QED
    BY <2>1, <2>2 DEF Acks, Frame
<1> QED
  BY <1>1, <1>2, <1>3

\* What the receiver puts on the line.
LEMMA ReceiverGrows ==
  ASSUME TypeOK, NEW f, hci_recv_frame(f), rxseq_txack' \in 0 .. 7
  PROVE  IF Opened THEN Grown(toCtrl, toCtrl', Acks) ELSE Grown(toCtrl, toCtrl', Unnumbered)
<1>1. toCtrl \in Seq(Frame)
  BY DEF TypeOK
<1>2. /\ {"syncresp", "confresp"} \subseteq LinkControl
      /\ \A kind \in LinkControl : h5_prepare_pkt(kind, 0) \in Unnumbered
      /\ h5_prepare_pkt("ack", 0) \in Acks
      /\ [h5_prepare_pkt("ack", 0) EXCEPT !.ack = rxseq_txack'] \in Acks
      /\ Acks \subseteq Unnumbered /\ Unnumbered \subseteq Frame
  BY Prepared, AcksAre, Kinds
<1> HIDE DEF h5_prepare_pkt
<1>3. \A S, g : S \subseteq Frame /\ g \in S => Grown(toCtrl, Put(toCtrl, g), S) /\ Grown(toCtrl, toCtrl, S)
  BY <1>1, GrownSame, GrownPut
<1>4. CASE RecvSync(f)
  BY <1>2, <1>3, <1>4 DEF RecvSync, Opened
<1>5. CASE RecvConfig(f)
  BY <1>2, <1>3, <1>5 DEF RecvConfig, Opened, rtk_send_pure_ack_down
<1>6. CASE RecvInit(f)
  BY <1>2, <1>3, <1>6 DEF RecvInit, Opened
<1>7. CASE RecvPatch(f) \/ RecvActive
  BY <1>2, <1>3, <1>7 DEF RecvPatch, RecvActive, Opened
<1> QED
  BY <1>4, <1>5, <1>6, <1>7 DEF hci_recv_frame

\* What the host sends when it goes on: frames of the link, a command behind acks, or an ack.
LEMMA HostGrows ==
  ASSUME TypeOK
  PROVE  /\ rtk_init \/ SyncDone => Grown(toCtrl, toCtrl', Unnumbered)
         /\ \A kind \in Commands, index \in 0 .. 127 :
              /\ h5_prepare_pkt(kind, index) \in Frame
              /\ Send(toCtrl, kind, index) \/ Send(rtk_send_pure_ack_down(toCtrl), kind, index)
                   => Grown(toCtrl, toCtrl', Acks \cup {h5_prepare_pkt(kind, index)})
         /\ PatchDone => Grown(toCtrl, toCtrl', Acks)
<1>1. toCtrl \in Seq(Frame)
  BY DEF TypeOK
<1>2. /\ {"sync", "conf"} \subseteq LinkControl
      /\ \A kind \in LinkControl : h5_prepare_pkt(kind, 0) \in Unnumbered
      /\ h5_prepare_pkt("ack", 0) \in Acks /\ Acks \subseteq Frame /\ Unnumbered \subseteq Frame
  BY Prepared, AcksAre, Kinds
<1>3. \A kind \in Commands, index \in 0 .. 127 : h5_prepare_pkt(kind, index) \in Frame
  BY FrameTypes
<1> HIDE DEF h5_prepare_pkt
<1>4. \A S, g : S \subseteq Frame /\ g \in S => Grown(toCtrl, Put(toCtrl, g), S) /\ Grown(toCtrl, toCtrl, S)
  BY <1>1, GrownSame, GrownPut
<1>5. \A S, g, h : S \subseteq Frame /\ g \in S /\ h \in S => Grown(toCtrl, Put(Put(toCtrl, g), h), S)
  BY <1>1, <1>4, GrownPut
<1>6. rtk_init \/ SyncDone => Grown(toCtrl, toCtrl', Unnumbered)
  BY <1>2, <1>4 DEF rtk_init, SyncDone
<1>7. PatchDone => Grown(toCtrl, toCtrl', Acks)
  BY <1>2, <1>4 DEF PatchDone, rtk_send_pure_ack_down
<1>8. ASSUME NEW kind \in Commands, NEW index \in 0 .. 127,
             Send(toCtrl, kind, index) \/ Send(rtk_send_pure_ack_down(toCtrl), kind, index)
      PROVE  Grown(toCtrl, toCtrl', Acks \cup {h5_prepare_pkt(kind, index)})
  <2> DEFINE S == Acks \cup {h5_prepare_pkt(kind, index)}
  <2>1. S \subseteq Frame /\ h5_prepare_pkt(kind, index) \in S /\ h5_prepare_pkt("ack", 0) \in S
    BY <1>2, <1>3
  <2> HIDE DEF S
  <2>2. \/ toCtrl' = Put(toCtrl, h5_prepare_pkt(kind, index))
        \/ toCtrl' = Put(Put(toCtrl, h5_prepare_pkt("ack", 0)), h5_prepare_pkt(kind, index))
    BY <1>8 DEF Send, rtk_send_pure_ack_down
  <2>3. Grown(toCtrl, toCtrl', S)
    BY <1>4, <1>5, <2>1, <2>2
  <2> QED
    BY <2>3 DEF S
<1> QED
  BY <1>3, <1>6, <1>7, <1>8

LEMMA AlarmGrows ==
  ASSUME TypeOK, Alarm
  PROVE  /\ at' = at \/ at' = "failed"
         /\ at \in {"sync", "config"} => Grown(toCtrl, toCtrl', Unnumbered)
         /\ at \notin {"sync", "config"} =>
              toCtrl' = toCtrl \/ (host_last_cmd # NoFrame /\ toCtrl' = Put(toCtrl, host_last_cmd))
<1>1. toCtrl \in Seq(Frame)
  BY DEF TypeOK
<1>2. /\ {"sync", "conf"} \subseteq LinkControl
      /\ \A kind \in LinkControl : h5_prepare_pkt(kind, 0) \in Unnumbered
      /\ Unnumbered \subseteq Frame
  BY Prepared, AcksAre, Kinds
<1> HIDE DEF h5_prepare_pkt
<1>3. \A g \in Unnumbered : Grown(toCtrl, Put(toCtrl, g), Unnumbered) /\ Grown(toCtrl, toCtrl, Unnumbered)
  BY <1>1, <1>2, GrownSame, GrownPut
<1>4. at' = at \/ at' = "failed"
  BY AlarmSends
<1>5. CASE LinkAlarm
  BY <1>2, <1>3, <1>4, <1>5 DEF LinkAlarm, Resend, Exit
<1>6. CASE CommandAlarm \/ RateAlarm
  BY <1>4, <1>6 DEF CommandAlarm, RateAlarm, Resend, Exit, Again
<1> QED
  BY <1>4, <1>5, <1>6 DEF Alarm

-----------------------------------------------------------------------------
(* The order of the commands.                                              *)

\* How many commands the host has sent.
Sent ==
  CASE at = "lmp" -> 1
    [] at = "rom" -> 2
    [] at = "rate" -> RatePlace(board) + 1
    [] at = "patch" -> Base(board) + tx_index + 1
    [] at = "done" -> Ends(board)
    [] OTHER -> 0

\* The controller has executed the first commands of the plan.
ExecutedInv ==
  /\ peer.expect = Len(executed) % 8
  /\ Len(executed) <= Ends(board)
  /\ \A i \in DOMAIN executed : executed[i] = Plan(board)[i]

\* What is under way is near to it, so that its number tells which command it is.
UnderWay ==
  /\ InTurn(board, toCtrl)
  /\ \A f \in Range(toCtrl) :
       Reliable(f) => /\ Planned(board, f)
                      /\ Len(executed) - 1 <= Place(board, f)
                      /\ Place(board, f) <= Len(executed) + 2
  /\ \A f \in Range(toHost) \cup Range(peer.unacked) :
       Reliable(f) => Planned(board, f) /\ Place(board, f) < Len(executed)

SentInv ==
  at # "failed" =>
    /\ Len(executed) <= Sent /\ msgq_txseq = Sent % 8
    /\ \A f \in Range(toCtrl) : Reliable(f) => Place(board, f) < Sent
    /\ host_last_cmd # NoFrame =>
         /\ Reliable(host_last_cmd) /\ Planned(board, host_last_cmd)
         /\ Place(board, host_last_cmd) = Sent - 1

\* The host has gone on, so the controller has executed a command.
AnsweredInv ==
  /\ hci_version_cmd_state = "event_received" => Len(executed) >= 1
  /\ rom_version_cmd_state = "event_received" => Len(executed) >= 2 /\ ~board.rom8723a
  /\ at \in {"start", "sync", "config"} => link_estab_state \in {"H5_SYNC", "H5_CONFIG", "H5_INIT"}
  /\ at \in {"lmp", "rom"} => link_estab_state = "H5_INIT"
  /\ at = "rom" => ~board.rom8723a /\ Len(executed) >= 1
  /\ at = "rate" => /\ board.speed = "config" /\ Len(executed) >= RatePlace(board)
                    /\ link_estab_state # "H5_INIT" => Len(executed) >= Base(board)
  /\ at = "done" => Len(executed) = Ends(board)

\* Only the first two packets of a patch may be taken for answered by another event.
PatchInv ==
  at = "patch" =>
    /\ board.chunks > 0 /\ total_num = PatchTotal(board) /\ tx_index <= total_num
    /\ link_estab_state \in {"H5_PATCH", "H5_ACTIVE"}
    /\ Len(executed) >= Base(board)
    /\ rx_index >= 2 => Len(executed) >= Base(board) + rx_index + 1
    /\ tx_index >= 3 => Len(executed) >= Base(board) + tx_index

OrderInv == ExecutedInv /\ UnderWay /\ SentInv /\ AnsweredInv /\ PatchInv

LEMMA SentIs ==
  /\ at \in {"start", "sync", "config"} => Sent = 0
  /\ at = "lmp" => Sent = 1
  /\ at = "rom" => Sent = 2
  /\ at = "rate" => Sent = RatePlace(board) + 1
  /\ at = "patch" => Sent = Base(board) + tx_index + 1
  /\ at = "done" => Sent = Ends(board)
  /\ at' \in {"start", "sync", "config"} => Sent' = 0
  /\ at' = "lmp" => Sent' = 1
  /\ at' = "rom" => Sent' = 2
  /\ at' = "rate" => Sent' = RatePlace(board') + 1
  /\ at' = "patch" => Sent' = Base(board') + tx_index' + 1
  /\ at' = "done" => Sent' = Ends(board')
BY DEF Sent

\* The host is at most three commands ahead of the controller.
LEMMA Ahead ==
  ASSUME TypeOK, OrderInv, at # "failed"
  PROVE  /\ board \in Board /\ Sent \in Nat /\ Len(executed) \in Nat
         /\ Len(executed) <= Sent /\ Sent <= Len(executed) + 3
<1>1. board \in Board /\ tx_index \in 0 .. 127 /\ Len(executed) \in Nat
  BY H5Assumption DEF TypeOK
<1>2. RatePlace(board) \in {1, 2} /\ Base(board) \in 1 .. 3 /\ Ends(board) \in 1 .. 140
  BY <1>1, PlanSizes
<1>3. Len(executed) <= Sent
  BY DEF OrderInv, SentInv
<1>4. Sent \in Nat /\ Sent <= Len(executed) + 3
  <2>1. CASE at \in {"start", "sync", "config", "lmp"}
    BY <1>1, <2>1, SentIs
  <2>2. CASE at = "rom"
    BY <1>1, <2>2, SentIs DEF OrderInv, AnsweredInv
  <2>3. CASE at = "rate"
    BY <1>1, <1>2, <2>3, SentIs DEF OrderInv, AnsweredInv
  <2>4. CASE at = "patch"
    <3>1. /\ Len(executed) >= Base(board) /\ Sent = Base(board) + tx_index + 1
          /\ tx_index >= 3 => Len(executed) >= Base(board) + tx_index
      BY <2>4, SentIs DEF OrderInv, PatchInv
    <3>2. \A m \in 1 .. 3, i \in 0 .. 127, n \in Nat :
            n >= m /\ (i >= 3 => n >= m + i) => m + i + 1 \in Nat /\ m + i + 1 <= n + 3
      OBVIOUS
    <3> QED
      BY <1>1, <1>2, <3>1, <3>2
  <2>5. CASE at = "done"
    BY <1>1, <1>2, <2>5, SentIs DEF OrderInv, AnsweredInv
  <2> QED
    BY <2>1, <2>2, <2>3, <2>4, <2>5 DEF TypeOK
<1> QED
  BY <1>1, <1>3, <1>4

LEMMA OrderInit == Init => OrderInv
<1> SUFFICES ASSUME Init PROVE OrderInv
  OBVIOUS
<1>1. /\ executed = <<>> /\ toCtrl = <<>> /\ toHost = <<>> /\ peer.unacked = <<>>
      /\ peer.expect = 0 /\ msgq_txseq = 0 /\ at = "start" /\ host_last_cmd = NoFrame
      /\ link_estab_state = "H5_SYNC"
      /\ hci_version_cmd_state = "cmd_not_send" /\ rom_version_cmd_state = "cmd_not_send"
      /\ board \in Board
  BY H5Assumption DEF Init
<1>2. Range(<<>>) = {} /\ Len(executed) = 0 /\ DOMAIN executed = {} /\ DOMAIN toCtrl = {}
  BY <1>1 DEF Range
<1>3. Sent = 0 /\ Ends(board) \in 1 .. 140
  BY <1>1, SentIs, PlanSizes
<1>4. ExecutedInv
  <2>1. 0 % 8 = 0 /\ 0 <= Ends(board)
    BY <1>3
  <2> QED
    BY <1>1, <1>2, <2>1 DEF ExecutedInv
<1>5. UnderWay
  BY <1>1, <1>2 DEF UnderWay, InTurn
<1>6. SentInv
  BY <1>1, <1>2, <1>3 DEF SentInv
<1>7. AnsweredInv /\ PatchInv
  BY <1>1 DEF AnsweredInv, PatchInv
<1> QED
  BY <1>4, <1>5, <1>6, <1>7 DEF OrderInv

\* A frame that arrives, whatever its number: what a version or an index stands for.
LEMMA OrderReceives == TypeOK /\ LinkInv /\ OrderInv /\ h5_recv => OrderInv'
<1> SUFFICES ASSUME TypeOK, LinkInv, OrderInv, h5_recv PROVE OrderInv'
  OBVIOUS
<1> DEFINE f == Head(toHost)
           e == Len(executed)
<1>1. /\ f \in Range(toHost) /\ f \in Frame /\ Range(toHost') \subseteq Range(toHost)
      /\ toCtrl \in Seq(Frame) /\ rxseq_txack \in 0 .. 7 /\ board \in Board /\ e \in Nat
      /\ total_num \in 0 .. 127 /\ tx_index \in 0 .. 127
  BY TailRange, H5Assumption DEF h5_recv, TypeOK
<1>2. /\ UNCHANGED <<board, peer, executed, at, msgq_txseq, tx_index, total_num>>
      /\ OutOfOrder(f) \/ InOrder(f)
      /\ at \notin {"start", "done", "failed"}
  BY DEF h5_recv, world
<1>3. Reliable(f) => Planned(board, f) /\ Place(board, f) < e
  BY <1>1 DEF OrderInv, UnderWay
<1>4. /\ RatePlace(board) \in {1, 2} /\ Base(board) \in 1 .. 3
      /\ board.rom8723a => RatePlace(board) = 1
      /\ ~board.rom8723a => RatePlace(board) = 2
      /\ board.speed = "config" => Base(board) = RatePlace(board) + 1
  BY <1>1, PlanSizes
<1> HIDE DEF f
<1>5. Sent' = Sent
  BY <1>2 DEF Sent
<1>6. Grown(toCtrl, toCtrl', Unnumbered)
  <2>1. CASE OutOfOrder(f)
    BY <1>1, <2>1, GrownSame DEF OutOfOrder
  <2>2. CASE InOrder(f)
    <3>1. rxseq_txack' \in 0 .. 7
      BY <1>1, <2>2, NextSeqType DEF InOrder, Frame
    <3>2. Grown(toCtrl, toCtrl', Acks) \/ Grown(toCtrl, toCtrl', Unnumbered)
      BY <2>2, <3>1, ReceiverGrows DEF InOrder
    <3> QED
      BY <3>2, AcksAre DEF Grown
  <2> QED
    BY <1>2, <2>1, <2>2
<1>7. /\ \A g \in Range(toCtrl') : g \in Range(toCtrl) \/ ~Reliable(g)
      /\ InTurn(board, toCtrl')
  BY <1>1, <1>6, GrownRange, GrownInTurn, AcksAre DEF OrderInv, UnderWay
<1>8. host_last_cmd' = host_last_cmd \/ host_last_cmd' = NoFrame
  BY <1>2
     DEF OutOfOrder, InOrder, hci_recv_frame, RecvSync, RecvConfig, RecvInit, RecvPatch,
         RecvActive, hci_event_cmd_complete
<1>9. /\ hci_version_cmd_state' = hci_version_cmd_state \/ (Reliable(f) /\ f.kind = "lmp")
      /\ rom_version_cmd_state' = rom_version_cmd_state \/ (Reliable(f) /\ f.kind = "rom")
      /\ rx_index' = rx_index \/ rx_index' = Byte6(f)
      /\ link_estab_state \in {"H5_SYNC", "H5_CONFIG"} =>
           link_estab_state' \in {"H5_SYNC", "H5_CONFIG", "H5_INIT"}
      /\ link_estab_state = "H5_INIT" =>
           link_estab_state' = "H5_INIT" \/ (Reliable(f) /\ f.kind = "rate")
      /\ link_estab_state \in {"H5_PATCH", "H5_ACTIVE"} =>
           link_estab_state' \in {"H5_PATCH", "H5_ACTIVE"}
  BY <1>2
     DEF OutOfOrder, InOrder, hci_recv_frame, RecvSync, RecvConfig, RecvInit, RecvPatch,
         RecvActive, hci_event_cmd_complete, versions
<1>10. /\ Reliable(f) /\ f.kind = "lmp" => e >= 1
       /\ Reliable(f) /\ f.kind = "rom" => e >= 2 /\ ~board.rom8723a
       /\ Reliable(f) /\ f.kind = "rate" => e >= Base(board) /\ board.speed = "config"
       /\ Byte6(f) >= 2 => e >= Base(board) + Byte6(f) + 1
  <2>1. Reliable(f) /\ f.kind = "lmp" => e >= 1
    BY <1>1, <1>3 DEF Place
  <2>2. Reliable(f) /\ f.kind = "rom" => e >= 2 /\ ~board.rom8723a
    BY <1>1, <1>3 DEF Place, Planned
  <2>3. Reliable(f) /\ f.kind = "rate" => e >= Base(board) /\ board.speed = "config"
    BY <1>1, <1>3, <1>4 DEF Place, Planned
  <2>4. ASSUME Byte6(f) >= 2 PROVE e >= Base(board) + Byte6(f) + 1
    <3>1. f.kind = "patch" /\ Byte6(f) = f.index /\ f.index \in 0 .. 127
      BY <1>1, <2>4 DEF Byte6, Frame
    <3>2. Reliable(f)
      BY <3>1, Kinds DEF Reliable
    <3>3. Base(board) + f.index < e
      BY <1>3, <3>1, <3>2 DEF Place
    <3>4. \A m \in 1 .. 3, i \in 0 .. 127, n \in Nat : m + i < n => n >= m + i + 1
      OBVIOUS
    <3> QED
      BY <1>1, <1>4, <3>1, <3>3, <3>4
  <2> QED
    BY <2>1, <2>2, <2>3, <2>4
<1>11. ExecutedInv'
  BY <1>2 DEF OrderInv, ExecutedInv
<1>12. UnderWay'
  BY <1>1, <1>2, <1>7 DEF OrderInv, UnderWay
<1>13. SentInv'
  BY <1>2, <1>5, <1>7, <1>8 DEF OrderInv, SentInv
<1>14. AnsweredInv'
  <2>1. /\ hci_version_cmd_state' = "event_received" => e >= 1
        /\ rom_version_cmd_state' = "event_received" => e >= 2 /\ ~board.rom8723a
    BY <1>9, <1>10 DEF OrderInv, AnsweredInv
  <2>2. ASSUME at \in {"start", "sync", "config", "lmp", "rom"}
        PROVE  ~(Reliable(f) /\ f.kind = "rate")
    <3>1. e <= Sent
      BY <1>2 DEF OrderInv, SentInv
    <3>2. e >= Base(board) /\ board.speed = "config" => e >= RatePlace(board) + 1
      BY <1>1, <1>4
    <3>3. /\ at = "rom" => ~board.rom8723a
          /\ at \in {"start", "sync", "config"} => e <= 0
          /\ at = "lmp" => e <= 1
          /\ at = "rom" => e <= 2
      BY <1>1, <3>1, SentIs DEF OrderInv, AnsweredInv
    <3> QED
      BY <1>1, <1>4, <1>10, <2>2, <3>2, <3>3
  <2>3. at \in {"start", "sync", "config"} =>
          link_estab_state' \in {"H5_SYNC", "H5_CONFIG", "H5_INIT"}
    BY <1>9, <2>2 DEF OrderInv, AnsweredInv
  <2>4. at \in {"lmp", "rom"} => link_estab_state' = "H5_INIT"
    BY <1>9, <2>2 DEF OrderInv, AnsweredInv
  <2>5. at = "rate" /\ link_estab_state' # "H5_INIT" => e >= Base(board)
    BY <1>9, <1>10 DEF OrderInv, AnsweredInv
  <2> QED
    BY <1>2, <2>1, <2>3, <2>4, <2>5 DEF OrderInv, AnsweredInv
<1>15. PatchInv'
  BY <1>2, <1>9, <1>10 DEF OrderInv, PatchInv
<1> QED
  BY <1>11, <1>12, <1>13, <1>14, <1>15 DEF OrderInv

\* A command goes out, with the number of its place.
LEMMA OrderSends ==
  ASSUME TypeOK, OrderInv, at # "failed", at' # "failed",
         NEW kind \in Commands, NEW index \in 0 .. 127,
         Send(toCtrl, kind, index) \/ Send(rtk_send_pure_ack_down(toCtrl), kind, index),
         UNCHANGED <<board, peer, executed, toHost>>,
         kind = "rom" => ~board.rom8723a,
         kind = "rate" => board.speed = "config",
         kind = "patch" => board.chunks > 0 /\ index <= PatchTotal(board),
         kind # "patch" => index = 0,
         Place(board, h5_prepare_pkt(kind, index)) = Sent,
         Sent <= Len(executed) + 2, Sent' = Sent + 1
  PROVE  ExecutedInv' /\ UnderWay' /\ SentInv'
<1> DEFINE c == h5_prepare_pkt(kind, index)
           e == Len(executed)
<1>1. /\ c \in Frame /\ c.kind = kind /\ c.index = index /\ c.seq = msgq_txseq
      /\ Place(board, c) = Sent
  BY FrameTypes DEF h5_prepare_pkt
<1>2. Grown(toCtrl, toCtrl', Acks \cup {c})
  BY HostGrows
<1>3. host_last_cmd' = c /\ msgq_txseq' = NextSeq(msgq_txseq)
  BY DEF Send
<1>4. Sent \in Nat /\ e \in Nat /\ e <= Sent
  BY Ahead
<1>5. msgq_txseq = Sent % 8 /\ \A g \in Range(toCtrl) : Reliable(g) => Place(board, g) < Sent
  BY DEF OrderInv, SentInv
<1> HIDE DEF c, e
<1>6. Reliable(c) /\ Planned(board, c)
  BY <1>1, <1>5 DEF Planned, Reliable
<1>7. \A g \in Range(toCtrl') : Reliable(g) => g \in Range(toCtrl) \/ g = c
  BY <1>2, GrownRange, AcksAre DEF TypeOK
<1>8. \A g \in Range(toCtrl) : Reliable(g) => Planned(board, g) /\ Place(board, g) \in Int
  <2>1. board \in Board /\ toCtrl \in Seq(Frame)
    BY H5Assumption DEF TypeOK
  <2> SUFFICES ASSUME NEW g \in Range(toCtrl), Reliable(g)
               PROVE  Planned(board, g) /\ Place(board, g) \in Int
    OBVIOUS
  <2>2. g \in Frame /\ Planned(board, g)
    BY <2>1 DEF OrderInv, UnderWay, Range
  <2> QED
    BY <2>1, <2>2, PlaceType
<1>9. InTurn(board, toCtrl')
  <2>1. toCtrl \in Seq(Frame) /\ InTurn(board, toCtrl)
    BY DEF TypeOK, OrderInv, UnderWay
  <2>2. \A g \in Acks \cup {c} : Reliable(g) => g = c
    BY AcksAre
  <2>3. \A g \in Range(toCtrl) : Reliable(g) => Place(board, g) <= Place(board, c)
    BY <1>1, <1>4, <1>5, <1>8
  <2>4. Place(board, c) <= Place(board, c)
    BY <1>1, <1>4
  <2> QED
    BY <1>2, <2>1, <2>2, <2>3, <2>4, GrownInTurn
<1>10. ExecutedInv'
  BY DEF OrderInv, ExecutedInv
<1>11. UnderWay'
  <2>1. \A g \in Range(toCtrl') : Reliable(g) => /\ Planned(board, g)
                                                 /\ e - 1 <= Place(board, g)
                                                 /\ Place(board, g) <= e + 2
    <3>1. e - 1 <= Sent /\ Sent <= e + 2
      BY <1>4 DEF e
    <3> QED
      BY <1>1, <1>6, <1>7, <3>1 DEF OrderInv, UnderWay, e
  <2> QED
    BY <1>9, <2>1 DEF OrderInv, UnderWay, e
<1>12. SentInv'
  <2>1. msgq_txseq' = Sent' % 8
    BY <1>3, <1>4, <1>5, Eight
  <2>2. e <= Sent' /\ Sent = Sent' - 1 /\ \A n \in Int : n < Sent => n < Sent'
    BY <1>4
  <2>3. \A g \in Range(toCtrl') : Reliable(g) => Place(board, g) < Sent'
    BY <1>1, <1>4, <1>5, <1>7, <1>8, <2>2
  <2> QED
    BY <1>1, <1>3, <1>6, <2>1, <2>2, <2>3 DEF SentInv, e
<1> QED
  BY <1>10, <1>11, <1>12

\* Nothing that counts goes out.
LEMMA OrderQuiet ==
  ASSUME TypeOK, OrderInv, UNCHANGED <<board, peer, executed, toHost, msgq_txseq, host_last_cmd>>,
         Grown(toCtrl, toCtrl', Unnumbered), at # "failed", Sent' = Sent
  PROVE  ExecutedInv' /\ UnderWay' /\ SentInv'
<1>1. toCtrl \in Seq(Frame)
  BY DEF TypeOK
<1>2. \A g \in Range(toCtrl') : g \in Range(toCtrl) \/ ~Reliable(g)
  BY <1>1, GrownRange, AcksAre
<1>3. InTurn(board, toCtrl')
  BY <1>1, GrownInTurn, AcksAre DEF OrderInv, UnderWay
<1>4. ExecutedInv'
  BY DEF OrderInv, ExecutedInv
<1>5. UnderWay'
  BY <1>2, <1>3 DEF OrderInv, UnderWay
<1>6. SentInv'
  BY <1>2 DEF OrderInv, SentInv
<1> QED
  BY <1>4, <1>5, <1>6

\* The versions are known, or the speed has been changed.
LEMMA BeforePatch ==
  ASSUME TypeOK, OrderInv, VersionsKnown \/ Configured
  PROVE  /\ at \in {"lmp", "rom", "rate"}
         /\ VersionsKnown => /\ Sent = RatePlace(board) /\ Len(executed) >= RatePlace(board)
                             /\ link_estab_state = "H5_INIT"
         /\ Configured => Sent = Base(board) /\ Len(executed) >= Base(board)
<1>1. board \in Board /\ Len(executed) \in Nat
  BY H5Assumption DEF TypeOK
<1>2. /\ RatePlace(board) \in {1, 2} /\ Base(board) \in 1 .. 3
      /\ board.rom8723a => RatePlace(board) = 1
      /\ ~board.rom8723a => RatePlace(board) = 2
      /\ board.speed = "config" => Base(board) = RatePlace(board) + 1
      /\ board.speed # "config" => Base(board) = RatePlace(board)
  BY <1>1, PlanSizes
<1>3. VersionsKnown => /\ Sent = RatePlace(board) /\ Len(executed) >= RatePlace(board)
                       /\ link_estab_state = "H5_INIT" /\ at \in {"lmp", "rom"}
  <2>1. CASE at = "lmp" /\ hci_version_cmd_state = "event_received" /\ board.rom8723a
    BY <1>1, <1>2, <2>1, SentIs DEF OrderInv, AnsweredInv
  <2>2. CASE at = "rom" /\ rom_version_cmd_state = "event_received"
    BY <1>1, <1>2, <2>2, SentIs DEF OrderInv, AnsweredInv
  <2> QED
    BY <2>1, <2>2 DEF VersionsKnown
<1>4. Configured => Sent = Base(board) /\ Len(executed) >= Base(board) /\ at \in {"lmp", "rom", "rate"}
  <2>1. CASE VersionsKnown /\ board.speed # "config"
    BY <1>2, <1>3, <2>1
  <2>2. CASE at = "rate" /\ link_estab_state # "H5_INIT"
    BY <1>1, <1>2, <2>2, SentIs DEF OrderInv, AnsweredInv
  <2> QED
    BY <2>1, <2>2 DEF Configured
<1> QED
  BY <1>3, <1>4

LEMMA OrderGoesOn == TypeOK /\ LinkInv /\ OrderInv /\ HostGoesOn => OrderInv'
<1> SUFFICES ASSUME TypeOK, LinkInv, OrderInv, HostGoesOn PROVE OrderInv'
  OBVIOUS
<1> DEFINE e == Len(executed)
<1>1. /\ board \in Board /\ e \in Nat /\ toCtrl \in Seq(Frame)
      /\ tx_index \in 0 .. 127 /\ rx_index \in -1 .. 127
  BY H5Assumption DEF TypeOK
<1>2. UNCHANGED <<board, peer, executed, toHost>> /\ at # "failed"
  BY DEF HostGoesOn, rtk_init, SyncDone, ConfigDone, rtk_get_eversion,
         rtk_vendor_change_speed_h5, NothingToDownload, rtk_download_fw_config,
         hci_download_patch, PatchDone, world, wire, VersionsKnown, Configured
<1>3. /\ RatePlace(board) \in {1, 2} /\ Base(board) \in 1 .. 3
      /\ board.chunks = 0 => Ends(board) = Base(board)
      /\ board.chunks > 0 => /\ Ends(board) = Base(board) + PatchTotal(board) + 1
                             /\ PatchTotal(board) \in 4 .. 127
  BY <1>1, PlanSizes
<1>4. e <= Sent /\ Sent \in Nat
  BY <1>2, Ahead
<1>5. \A kind \in Commands, index \in 0 .. 127 :
        Place(board, h5_prepare_pkt(kind, index)) =
          IF kind = "patch" THEN Base(board) + index
          ELSE IF kind = "rate" THEN RatePlace(board) ELSE IF kind = "rom" THEN 1 ELSE 0
  BY DEF Place, h5_prepare_pkt
<1>6. {"lmp", "rom", "rate", "patch"} \subseteq Commands /\ 0 \in 0 .. 127
  BY Kinds
<1> HIDE DEF Send, e
<1>7. CASE rtk_init \/ SyncDone
  <2>1. /\ at \in {"start", "sync"} /\ at' \in {"sync", "config"}
        /\ UNCHANGED <<msgq_txseq, host_last_cmd, link_estab_state, versions>>
        /\ Grown(toCtrl, toCtrl', Unnumbered)
    BY <1>7, HostGrows DEF rtk_init, SyncDone, seqs
  <2>2. Sent' = Sent
    BY <2>1, SentIs
  <2>3. ExecutedInv' /\ UnderWay' /\ SentInv'
    BY <1>2, <2>1, <2>2, OrderQuiet
  <2>4. AnsweredInv' /\ PatchInv'
    BY <1>2, <2>1 DEF OrderInv, AnsweredInv, PatchInv, versions
  <2> QED
    BY <2>3, <2>4 DEF OrderInv
<1>8. CASE ConfigDone
  <2>1. /\ at = "config" /\ at' = "lmp" /\ link_estab_state' = "H5_INIT"
        /\ Send(rtk_send_pure_ack_down(toCtrl), "lmp", 0)
        /\ hci_version_cmd_state' = "cmd_has_sent" /\ rom_version_cmd_state' = "cmd_not_send"
    BY <1>8 DEF ConfigDone, LinkInv, OrderInv, AnsweredInv
  <2>2. Sent = 0 /\ Sent' = 1
    BY <2>1, SentIs
  <2>3. Place(board, h5_prepare_pkt("lmp", 0)) = 0
    BY <1>5, <1>6
  <2>4. ExecutedInv' /\ UnderWay' /\ SentInv'
    <3>1. Sent <= Len(executed) + 2 /\ Sent' = Sent + 1
      BY <1>1, <2>2 DEF e
    <3>2. at # "failed" /\ at' # "failed" /\ "lmp" \in Commands
      BY <1>6, <2>1
    <3> QED
      BY <1>2, <1>6, <2>1, <2>2, <2>3, <3>1, <3>2, OrderSends
  <2>5. AnsweredInv' /\ PatchInv'
    BY <1>2, <2>1 DEF OrderInv, AnsweredInv, PatchInv
  <2> QED
    BY <2>4, <2>5 DEF OrderInv
<1>9. CASE rtk_get_eversion
  <2>1. /\ at = "lmp" /\ at' = "rom" /\ link_estab_state' = link_estab_state
        /\ Send(toCtrl, "rom", 0) /\ ~board.rom8723a
        /\ hci_version_cmd_state = "event_received" /\ UNCHANGED hci_version_cmd_state
        /\ rom_version_cmd_state' = "cmd_has_sent"
    BY <1>9 DEF rtk_get_eversion
  <2>2. Sent = 1 /\ Sent' = 2 /\ e >= 1
    BY <2>1, SentIs DEF OrderInv, AnsweredInv, e
  <2>3. Place(board, h5_prepare_pkt("rom", 0)) = 1
    BY <1>5, <1>6
  <2>4. ExecutedInv' /\ UnderWay' /\ SentInv'
    <3>1. Sent <= Len(executed) + 2 /\ Sent' = Sent + 1
      BY <1>1, <2>2 DEF e
    <3>2. at # "failed" /\ at' # "failed" /\ "rom" \in Commands
      BY <1>6, <2>1
    <3> QED
      BY <1>2, <1>6, <2>1, <2>2, <2>3, <3>1, <3>2, OrderSends
  <2>5. AnsweredInv' /\ PatchInv'
    BY <1>2, <2>1, <2>2 DEF OrderInv, AnsweredInv, PatchInv, e
  <2> QED
    BY <2>4, <2>5 DEF OrderInv
<1>10. CASE rtk_vendor_change_speed_h5
  <2>1. /\ VersionsKnown /\ board.speed = "config" /\ at' = "rate"
        /\ Send(toCtrl, "rate", 0) /\ UNCHANGED <<link_estab_state, versions>>
    BY <1>10 DEF rtk_vendor_change_speed_h5
  <2>2. Sent = RatePlace(board) /\ e >= RatePlace(board) /\ link_estab_state = "H5_INIT"
    BY <2>1, BeforePatch DEF e
  <2>3. Sent' = Sent + 1
    BY <1>2, <2>1, <2>2, SentIs
  <2>4. Place(board, h5_prepare_pkt("rate", 0)) = RatePlace(board)
    BY <1>5, <1>6
  <2>5. ExecutedInv' /\ UnderWay' /\ SentInv'
    <3>1. Sent <= Len(executed) + 2
      BY <1>1, <1>3, <2>2 DEF e
    <3>2. at # "failed" /\ at' # "failed" /\ "rate" \in Commands
      BY <1>2, <1>6, <2>1
    <3> QED
      BY <1>2, <1>6, <2>1, <2>2, <2>3, <2>4, <3>1, <3>2, OrderSends
  <2>6. AnsweredInv' /\ PatchInv'
    BY <1>2, <2>1, <2>2 DEF OrderInv, AnsweredInv, PatchInv, versions, e
  <2> QED
    BY <2>5, <2>6 DEF OrderInv
<1>11. CASE rtk_download_fw_config
  <2>1. /\ Configured /\ board.chunks > 0 /\ at' = "patch" /\ link_estab_state' = "H5_PATCH"
        /\ total_num' = PatchTotal(board) /\ rx_index' = -1 /\ tx_index' = 0
        /\ Send(toCtrl, "patch", 0) /\ UNCHANGED versions
    BY <1>11 DEF rtk_download_fw_config
  <2>2. Sent = Base(board) /\ e >= Base(board)
    BY <2>1, BeforePatch DEF e
  <2>3. Sent' = Sent + 1
    BY <1>2, <1>3, <2>1, <2>2, SentIs
  <2>4. Place(board, h5_prepare_pkt("patch", 0)) = Base(board) /\ 0 <= PatchTotal(board)
    BY <1>3, <1>5, <1>6, <2>1
  <2>5. ExecutedInv' /\ UnderWay' /\ SentInv'
    <3>1. Sent <= Len(executed) + 2
      BY <1>1, <1>3, <2>2 DEF e
    <3>2. at # "failed" /\ at' # "failed" /\ "patch" \in Commands
      BY <1>2, <1>6, <2>1
    <3> QED
      BY <1>2, <1>6, <2>1, <2>2, <2>3, <2>4, <3>1, <3>2, OrderSends
  <2>6. AnsweredInv' /\ PatchInv'
    BY <1>2, <2>1, <2>2, <2>4 DEF OrderInv, AnsweredInv, PatchInv, versions, e
  <2> QED
    BY <2>5, <2>6 DEF OrderInv
<1>12. CASE hci_download_patch
  <2>1. /\ at = "patch" /\ at' = "patch" /\ rx_index = tx_index /\ tx_index < total_num
        /\ tx_index' = tx_index + 1
        /\ Send(toCtrl, "patch", tx_index + 1)
        /\ UNCHANGED <<link_estab_state, versions, rx_index, total_num>>
    BY <1>12 DEF hci_download_patch
  <2>2. /\ board.chunks > 0 /\ total_num = PatchTotal(board) /\ e >= Base(board)
        /\ tx_index >= 2 => e >= Base(board) + tx_index + 1
        /\ Sent = Base(board) + tx_index + 1
        /\ link_estab_state \in {"H5_PATCH", "H5_ACTIVE"}
    BY <2>1, SentIs DEF OrderInv, PatchInv, e
  <2>3. Sent' = Base(board) + (tx_index + 1) + 1
    BY <1>2, <2>1, SentIs
  <2>4. tx_index + 1 \in 0 .. 127 /\ tx_index + 1 <= PatchTotal(board)
    <3>1. PatchTotal(board) \in 4 .. 127 /\ tx_index < PatchTotal(board)
      BY <1>3, <2>1, <2>2
    <3>2. \A i \in 0 .. 127, n \in 4 .. 127 : i < n => i + 1 \in 0 .. 127 /\ i + 1 <= n
      OBVIOUS
    <3> QED
      BY <1>1, <3>1, <3>2
  <2>5. Place(board, h5_prepare_pkt("patch", tx_index + 1)) = Base(board) + (tx_index + 1)
    BY <1>5, <1>6, <2>4
  <2>6. /\ Sent <= e + 2 /\ Sent' = Sent + 1 /\ Base(board) + (tx_index + 1) = Sent
        /\ tx_index + 1 >= 3 => e >= Base(board) + (tx_index + 1)
    <3>1. \A m \in 1 .. 3, i \in 0 .. 127, n \in Nat :
            n >= m /\ (i >= 2 => n >= m + i + 1) =>
              /\ m + i + 1 <= n + 2 /\ m + (i + 1) + 1 = (m + i + 1) + 1
              /\ m + (i + 1) = m + i + 1
              /\ i + 1 >= 3 => n >= m + (i + 1)
      OBVIOUS
    <3> QED
      BY <1>1, <1>3, <2>2, <2>3, <3>1
  <2>7. ExecutedInv' /\ UnderWay' /\ SentInv'
    <3>1. Sent <= Len(executed) + 2
      BY <2>6 DEF e
    <3>2. at # "failed" /\ at' # "failed" /\ "patch" \in Commands
      BY <1>2, <1>6, <2>1
    <3> QED
      BY <1>2, <1>6, <2>1, <2>2, <2>4, <2>5, <2>6, <3>1, <3>2, OrderSends
  <2>8. PatchInv'
    BY <1>2, <2>1, <2>2, <2>4, <2>6 DEF OrderInv, PatchInv, e
  <2>9. AnsweredInv'
    BY <1>2, <2>1 DEF OrderInv, AnsweredInv, versions
  <2> QED
    BY <2>7, <2>8, <2>9 DEF OrderInv
<1>13. CASE NothingToDownload \/ PatchDone
  <2>1. /\ at' = "done" /\ UNCHANGED <<link_estab_state, msgq_txseq, host_last_cmd, versions>>
        /\ Grown(toCtrl, toCtrl', Unnumbered)
    <3>1. CASE NothingToDownload
      BY <1>1, <3>1, GrownSame DEF NothingToDownload, seqs, wire
    <3>2. CASE PatchDone
      <4>1. Grown(toCtrl, toCtrl', Acks)
        BY <3>2, HostGrows
      <4> QED
        BY <3>2, <4>1, AcksAre DEF PatchDone, seqs, Grown
    <3> QED
      BY <1>13, <3>1, <3>2
  <2>2. Sent = Ends(board) /\ e >= Ends(board)
    <3>1. CASE NothingToDownload
      BY <1>3, <3>1, BeforePatch DEF NothingToDownload, e
    <3>2. CASE PatchDone
      <4>1. /\ at = "patch" /\ rx_index = tx_index /\ tx_index = total_num /\ board.chunks > 0
            /\ total_num = PatchTotal(board) /\ Sent = Base(board) + tx_index + 1
            /\ rx_index >= 2 => e >= Base(board) + rx_index + 1
        BY <3>2, SentIs DEF PatchDone, OrderInv, PatchInv, e
      <4> QED
        BY <1>3, <4>1
    <3> QED
      BY <1>13, <3>1, <3>2
  <2>3. Sent' = Sent /\ e = Ends(board)
    <3>1. Ends(board) \in Nat
      BY <1>4, <2>2
    <3> QED
      BY <1>1, <1>2, <1>4, <2>1, <2>2, <3>1, SentIs
  <2>4. ExecutedInv' /\ UnderWay' /\ SentInv'
    BY <1>2, <2>1, <2>3, OrderQuiet
  <2>5. AnsweredInv' /\ PatchInv'
    BY <1>2, <2>1, <2>3 DEF OrderInv, AnsweredInv, PatchInv, versions, e
  <2> QED
    BY <2>4, <2>5 DEF OrderInv
<1> QED
  BY <1>7, <1>8, <1>9, <1>10, <1>11, <1>12, <1>13 DEF HostGoesOn

LEMMA OrderAlarms == TypeOK /\ LinkInv /\ OrderInv /\ Alarm => OrderInv'
<1> SUFFICES ASSUME TypeOK, OrderInv, Alarm PROVE OrderInv'
  OBVIOUS
<1>1. /\ UNCHANGED <<board, peer, executed, link_estab_state, msgq_txseq, host_last_cmd, tx_index,
                     rx_index, total_num, hci_version_cmd_state, rom_version_cmd_state, toHost>>
  BY DEF Alarm, world, seqs, indices, versions
<1>2. /\ toCtrl \in Seq(Frame) /\ host_last_cmd \in Frame \cup {NoFrame} /\ board \in Board
      /\ Len(executed) \in Nat
  BY H5Assumption DEF TypeOK
<1>3. /\ at' = at \/ at' = "failed"
      /\ at \in {"sync", "config"} => Grown(toCtrl, toCtrl', Unnumbered)
      /\ at \notin {"sync", "config"} =>
           toCtrl' = toCtrl \/ (host_last_cmd # NoFrame /\ toCtrl' = Put(toCtrl, host_last_cmd))
  BY AlarmGrows
<1>4. at # "failed"
  BY DEF Alarm, LinkAlarm, CommandAlarm, RateAlarm
<1>5. at' = at => Sent' = Sent
  BY <1>1 DEF Sent
<1>6. ExecutedInv'
  BY <1>1 DEF OrderInv, ExecutedInv
<1>7. AnsweredInv' /\ PatchInv'
  BY <1>1, <1>3 DEF OrderInv, AnsweredInv, PatchInv
<1>8. Grown(toCtrl, toCtrl', Unnumbered \cup ({host_last_cmd} \ {NoFrame}))
  <2>1. CASE at \in {"sync", "config"}
    BY <1>3, <2>1 DEF Grown
  <2>2. CASE toCtrl' = toCtrl
    BY <1>2, <2>2, GrownSame
  <2>3. CASE host_last_cmd # NoFrame /\ toCtrl' = Put(toCtrl, host_last_cmd)
    BY <1>2, <2>3, GrownSame, GrownPut
  <2> QED
    BY <1>3, <2>1, <2>2, <2>3
<1>9. /\ Sent \in Nat /\ Len(executed) <= Sent /\ Sent <= Len(executed) + 3
      /\ \A g \in Range(toCtrl) : Reliable(g) => Place(board, g) < Sent
      /\ host_last_cmd # NoFrame =>
           /\ Reliable(host_last_cmd) /\ Planned(board, host_last_cmd)
           /\ Place(board, host_last_cmd) = Sent - 1
  BY <1>4, Ahead DEF OrderInv, SentInv
<1>10. \A g \in Range(toCtrl') : Reliable(g) =>
          g \in Range(toCtrl) \/ (g = host_last_cmd /\ host_last_cmd # NoFrame)
  BY <1>2, <1>8, GrownRange, AcksAre
<1>11. InTurn(board, toCtrl')
  <2>1. ASSUME NEW g \in Range(toCtrl), Reliable(g), host_last_cmd # NoFrame
        PROVE  Place(board, g) <= Place(board, host_last_cmd)
    <3>1. Place(board, g) \in Int
      <4>1. g \in Frame /\ Planned(board, g)
        BY <1>2, <2>1 DEF OrderInv, UnderWay, Range
      <4> QED
        BY <1>2, <2>1, <4>1, PlaceType
    <3> QED
      BY <1>9, <2>1, <3>1
  <2>2. host_last_cmd # NoFrame => Place(board, host_last_cmd) <= Place(board, host_last_cmd)
    BY <1>9
  <2>3. \A g \in Unnumbered \cup ({host_last_cmd} \ {NoFrame}) :
          Reliable(g) => g = host_last_cmd /\ host_last_cmd # NoFrame
    BY AcksAre
  <2>4. InTurn(board, toCtrl)
    BY DEF OrderInv, UnderWay
  <2> QED
    BY <1>2, <1>8, <2>1, <2>2, <2>3, <2>4, GrownInTurn
<1>12. UnderWay'
  <2>1. Len(executed) - 1 <= Sent - 1 /\ Sent - 1 <= Len(executed) + 2
    BY <1>2, <1>9
  <2> QED
    BY <1>1, <1>9, <1>10, <1>11, <2>1 DEF OrderInv, UnderWay
<1>13. SentInv'
  <2>1. Sent - 1 < Sent
    BY <1>9
  <2> QED
    BY <1>1, <1>3, <1>5, <1>9, <1>10, <2>1 DEF OrderInv, SentInv
<1> QED
  BY <1>6, <1>7, <1>12, <1>13 DEF OrderInv

\* A command that the controller executes is the next one of the plan.
LEMMA NextOne ==
  ASSUME TypeOK, OrderInv, NEW f \in Range(toCtrl), Reliable(f), f.seq = peer.expect
  PROVE  /\ Place(board, f) = Len(executed) /\ Len(executed) < Ends(board)
         /\ <<f.kind, f.index>> = Plan(board)[Len(executed) + 1]
         /\ at # "failed" => Len(executed) < Sent
<1>1. board \in Board /\ f \in Frame /\ Len(executed) \in Nat
  BY H5Assumption DEF TypeOK, Range
<1>2. /\ Planned(board, f) /\ Len(executed) - 1 <= Place(board, f)
      /\ Place(board, f) <= Len(executed) + 2 /\ peer.expect = Len(executed) % 8
  BY DEF OrderInv, UnderWay, ExecutedInv
<1>3. Place(board, f) \in 0 .. Ends(board) - 1 /\ Ends(board) \in Nat
  <2>1. Place(board, f) \in 0 .. Ends(board) - 1
    BY <1>1, <1>2, PlaceType
  <2>2. Ends(board) \in 1 .. 140
    BY <1>1, PlanSizes
  <2> QED
    BY <2>1, <2>2
<1>4. Place(board, f) = Len(executed)
  <2>1. Place(board, f) % 8 = Len(executed) % 8
    BY <1>2 DEF Planned
  <2>2. \A m \in Int, n \in Nat : n - 1 <= m /\ m <= n + 2 => m - n \in -7 .. 7 /\ n \in Int
    OBVIOUS
  <2>3. Place(board, f) \in Int
    BY <1>3
  <2> QED
    BY <1>1, <1>2, <2>1, <2>2, <2>3, Eight
<1>5. Plan(board)[Place(board, f) + 1] = <<f.kind, f.index>>
  BY <1>1, <1>2, PlanAt
<1>6. at # "failed" => Place(board, f) < Sent
  BY DEF OrderInv, SentInv
<1> QED
  BY <1>1, <1>3, <1>4, <1>5, <1>6

LEMMA UnackedFewer ==
  ASSUME PeerTypes, NEW ack
  PROVE  Len(StillUnacked(ack)) <= Len(peer.unacked)
<1> DEFINE queue == peer.unacked
           covered == {i \in DOMAIN queue : NextSeq(queue[i].seq) = ack}
           first == CHOOSE i \in covered : TRUE
<1>1. queue \in Seq(Frame)
  BY DEF PeerTypes
<1>2. CASE covered = {}
  BY <1>1, <1>2 DEF StillUnacked
<1>3. CASE covered # {}
  <2>1. first \in covered
    BY <1>3
  <2>2. first \in 1 .. Len(queue)
    BY <1>1, <2>1
  <2>3. StillUnacked(ack) = SubSeq(queue, first + 1, Len(queue))
    BY <1>3 DEF StillUnacked
  <2> HIDE DEF queue, covered, first
  <2>4. Len(SubSeq(queue, first + 1, Len(queue))) <= Len(queue)
    BY <1>1, <2>2
  <2> QED
    BY <2>3, <2>4 DEF queue
<1> QED
  BY <1>2, <1>3

\* What the controller does with a frame.
LEMMA PeerExecutes ==
  ASSUME TypeOK, PeerReceives
  PROVE  LET f == Head(toCtrl)
         IN /\ f \in Range(toCtrl) /\ f \in Frame
            /\ toCtrl # <<>> /\ toCtrl' = Tail(toCtrl) /\ toCtrl \in Seq(Frame)
            /\ UNCHANGED <<board, at>>
            /\ \/ /\ peer'.expect = peer.expect /\ peer'.seq = peer.seq /\ executed' = executed
                  /\ Range(peer'.unacked) \subseteq Range(peer.unacked)
                  /\ Len(peer'.unacked) <= Len(peer.unacked)
                  /\ peer.link = "configured" => peer'.link = "configured"
                  /\ \/ UNCHANGED toHost
                     \/ /\ f.kind \in LinkControl
                        /\ \E g \in Links : toHost' = Put(toHost, g)
               \/ LET event == [f EXCEPT !.seq = peer.seq, !.ack = 0]
                  IN /\ Reliable(f) /\ f.seq = peer.expect /\ peer.link = "configured"
                     /\ peer'.expect = NextSeq(peer.expect) /\ peer'.seq = NextSeq(peer.seq)
                     /\ event \in Frame /\ event.kind = f.kind /\ event.index = f.index
                     /\ event.seq = peer.seq
                     /\ peer'.link = "configured"
                     /\ peer'.unacked = Append(StillUnacked(f.ack), event)
                     /\ Range(peer'.unacked) \subseteq Range(peer.unacked) \cup {event}
                     /\ executed' = Append(executed, <<f.kind, f.index>>)
                     /\ toHost' = Put(toHost, event)
<1> DEFINE f == Head(toCtrl)
<1>1. PeerTypes /\ toCtrl \in Seq(Frame) /\ toHost \in Seq(Frame)
  BY TypeParts DEF ReceiverTypes, WorldTypes
<1>2. /\ f \in Range(toCtrl) /\ f \in Frame /\ toCtrl # <<>> /\ toCtrl' = Tail(toCtrl)
      /\ UNCHANGED <<board, at>>
  BY <1>1, TailRange DEF PeerReceives, host
<1>3. PeerLink(f) \/ PeerCommand(f)
  BY DEF PeerReceives
<1> HIDE DEF f
<1>4. CASE PeerLink(f)
  <2>1. Answer("syncresp") \in Links /\ Answer("confresp") \in Links
    BY AnswerType, Kinds DEF Links
  <2> HIDE DEF Answer
  <2>2. /\ UNCHANGED executed /\ f.kind \in LinkControl
        /\ UNCHANGED toHost \/ \E g \in Links : toHost' = Put(toHost, g)
    BY <1>4, <2>1 DEF PeerLink
  <2>3. /\ peer'.expect = peer.expect /\ peer'.seq = peer.seq /\ peer'.unacked = peer.unacked
        /\ peer.link = "configured" => peer'.link = "configured"
        /\ Len(peer.unacked) \in Nat
    BY <1>1, <1>4 DEF PeerLink, PeerTypes
  <2> QED
    BY <1>1, <1>2, <2>2, <2>3 DEF f
<1>5. CASE PeerCommand(f)
  <2> DEFINE left == StillUnacked(f.ack)
             event == [f EXCEPT !.seq = peer.seq, !.ack = 0]
  <2>1. /\ left \in Seq(Frame) /\ Range(left) \subseteq Range(peer.unacked)
        /\ Len(left) <= Len(peer.unacked)
    BY <1>1, UnackedLeft, UnackedFewer
  <2>2. peer.seq \in 0 .. 7
    BY <1>1 DEF PeerTypes
  <2>3. event \in Frame /\ event.kind = f.kind /\ event.index = f.index /\ event.seq = peer.seq
    <3>1. event \in Frame /\ event.kind = f.kind /\ event.seq = peer.seq
      BY <1>2, <2>2, EventType
    <3>2. event.index = f.index
      BY <1>2 DEF Frame
    <3> QED
      BY <3>1, <3>2
  <2> HIDE DEF left
  <2>4. CASE Executes(f, left)
    <3>1. /\ peer' = [peer EXCEPT !.expect = NextSeq(peer.expect), !.seq = NextSeq(peer.seq),
                                  !.unacked = Append(left, event)]
          /\ executed' = Append(executed, <<f.kind, f.index>>)
          /\ toHost' = Put(toHost, event) /\ f.seq = peer.expect /\ Reliable(f)
          /\ peer.link = "configured"
      BY <2>4 DEF Executes, Reliable
    <3> HIDE DEF event
    <3>2. /\ peer'.link = peer.link /\ peer'.expect = NextSeq(peer.expect)
          /\ peer'.seq = NextSeq(peer.seq) /\ peer'.unacked = Append(left, event)
      <4> HIDE DEF NextSeq
      <4> QED
        BY <1>1, <3>1 DEF PeerTypes
    <3>3. Range(Append(left, event)) \subseteq Range(left) \cup {event}
      BY <2>1, <2>3 DEF Range
    <3> QED
      BY <1>1, <1>2, <2>1, <2>3, <3>1, <3>2, <3>3 DEF f, event, left
  <2>5. CASE peer' = [peer EXCEPT !.unacked = left] /\ UNCHANGED <<executed, toHost>>
    <3>1. /\ peer'.expect = peer.expect /\ peer'.seq = peer.seq /\ peer'.unacked = left
          /\ peer'.link = peer.link
      BY <1>1, <2>5 DEF PeerTypes
    <3> QED
      BY <1>1, <1>2, <2>1, <2>5, <3>1 DEF f
  <2> QED
    BY <1>5, <2>4, <2>5, CommandAt DEF left
<1> QED
  BY <1>3, <1>4, <1>5

\* The controller and the line: what is executed, repeated or lost.
LEMMA OrderWorld ==
  TypeOK /\ CommandInv /\ OrderInv /\ (PeerAsks \/ PeerReceives \/ PeerRepeats \/ Lose) => OrderInv'
<1> SUFFICES ASSUME TypeOK, CommandInv, OrderInv, PeerAsks \/ PeerReceives \/ PeerRepeats \/ Lose
             PROVE  OrderInv'
  OBVIOUS
<1> DEFINE e == Len(executed)
<1>1. UNCHANGED host
  BY DEF PeerAsks, PeerReceives, PeerRepeats, Lose
<1>2. /\ UNCHANGED <<board, at, link_estab_state, msgq_txseq, host_last_cmd, tx_index, rx_index,
                     total_num, hci_version_cmd_state, rom_version_cmd_state>>
      /\ Sent' = Sent
  BY <1>1 DEF host, seqs, indices, versions, Sent
<1>3. /\ toCtrl \in Seq(Frame) /\ toHost \in Seq(Frame) /\ peer.unacked \in Seq(Frame)
      /\ board \in Board /\ e \in Nat /\ executed \in Seq(Commands \X (0 .. 127))
  BY H5Assumption DEF TypeOK
<1>4. InTurn(board, toCtrl) /\ ExecutedInv /\ UnderWay /\ SentInv /\ AnsweredInv /\ PatchInv
  BY DEF OrderInv, UnderWay
<1> HIDE DEF e
<1>5. ASSUME executed' = executed, peer'.expect = peer.expect,
             InTurn(board, toCtrl'), Range(toCtrl') \subseteq Range(toCtrl),
             \A f \in Range(toHost') \cup Range(peer'.unacked) :
               Reliable(f) => f \in Range(toHost) \cup Range(peer.unacked)
      PROVE  OrderInv'
  <2>1. ExecutedInv'
    BY <1>2, <1>4, <1>5 DEF ExecutedInv
  <2>2. UnderWay'
    BY <1>2, <1>4, <1>5 DEF UnderWay
  <2>3. SentInv'
    BY <1>2, <1>4, <1>5 DEF SentInv
  <2>4. AnsweredInv' /\ PatchInv'
    BY <1>2, <1>4, <1>5 DEF AnsweredInv, PatchInv
  <2> QED
    BY <2>1, <2>2, <2>3, <2>4 DEF OrderInv
<1>6. CASE PeerReceives
  <2> DEFINE f == Head(toCtrl)
             event == [f EXCEPT !.seq = peer.seq, !.ack = 0]
  <2>1. /\ f \in Range(toCtrl) /\ f \in Frame /\ toCtrl # <<>> /\ toCtrl' = Tail(toCtrl)
        /\ \/ /\ peer'.expect = peer.expect /\ peer'.seq = peer.seq /\ executed' = executed
              /\ Range(peer'.unacked) \subseteq Range(peer.unacked)
              /\ \/ UNCHANGED toHost
                 \/ /\ f.kind \in LinkControl
                    /\ \E g \in Links : toHost' = Put(toHost, g)
           \/ /\ Reliable(f) /\ f.seq = peer.expect
              /\ peer'.expect = NextSeq(peer.expect) /\ peer'.seq = NextSeq(peer.seq)
              /\ event \in Frame /\ event.kind = f.kind /\ event.index = f.index
              /\ event.seq = peer.seq
              /\ Range(peer'.unacked) \subseteq Range(peer.unacked) \cup {event}
              /\ executed' = Append(executed, <<f.kind, f.index>>)
              /\ toHost' = Put(toHost, event)
    BY <1>6, PeerExecutes
  <2> HIDE DEF f, event
  <2>2. /\ Range(toCtrl') \subseteq Range(toCtrl) /\ InTurn(board, toCtrl')
        /\ \A g \in Range(toCtrl') :
             Reliable(f) /\ Reliable(g) => Place(board, f) <= Place(board, g)
    <3>1. Range(Tail(toCtrl)) \subseteq Range(toCtrl)
      BY <1>3, <2>1, TailRange
    <3> QED
      BY <1>3, <1>4, <2>1, <3>1, TailAt DEF f
  <2>3. CASE executed' = executed /\ peer'.expect = peer.expect
    <3>1. /\ Range(peer'.unacked) \subseteq Range(peer.unacked)
          /\ UNCHANGED toHost \/ \E g \in Links : toHost' = Put(toHost, g)
      <4>1. executed # Append(executed, <<f.kind, f.index>>)
        <5>1. \A x : Len(Append(executed, x)) = Len(executed) + 1 /\ Len(executed) \in Nat
          BY <1>3
        <5> QED
          BY <5>1
      <4> QED
        BY <2>1, <2>3, <4>1
    <3>2. \A g \in Range(toHost') : Reliable(g) => g \in Range(toHost)
      <4>1. \A h \in Unnumbered : Range(Put(toHost, h)) \subseteq Range(toHost) \cup {h}
        BY <1>3, AcksAre, PutRange
      <4> QED
        BY <3>1, <4>1, AcksAre
    <3> QED
      BY <1>5, <2>2, <2>3, <3>1, <3>2
  <2>4. CASE /\ Reliable(f) /\ f.seq = peer.expect
             /\ peer'.expect = NextSeq(peer.expect)
             /\ event \in Frame /\ event.kind = f.kind /\ event.index = f.index
             /\ event.seq = peer.seq
             /\ Range(peer'.unacked) \subseteq Range(peer.unacked) \cup {event}
             /\ executed' = Append(executed, <<f.kind, f.index>>)
             /\ toHost' = Put(toHost, event)
    <3>1. /\ Place(board, f) = e /\ e < Ends(board) /\ Ends(board) \in 1 .. 140
          /\ <<f.kind, f.index>> = Plan(board)[e + 1]
          /\ at # "failed" => e < Sent
      BY <1>3, <2>1, <2>4, NextOne, PlanSizes DEF e
    <3>2. /\ Len(executed') = e + 1 /\ DOMAIN executed' = 1 .. e + 1
          /\ executed'[e + 1] = <<f.kind, f.index>>
          /\ \A i \in 1 .. e : executed'[i] = executed[i] /\ i \in DOMAIN executed
      <4> DEFINE x == <<f.kind, f.index>>
      <4> HIDE DEF x
      <4>1. executed' = Append(executed, x)
        BY <2>4 DEF x
      <4>2. /\ Len(executed') = e + 1 /\ DOMAIN executed' = 1 .. e + 1
            /\ executed'[e + 1] = x
            /\ \A i \in 1 .. e : executed'[i] = executed[i] /\ i \in DOMAIN executed
        BY <1>3, <4>1 DEF e
      <4> QED
        BY <4>2 DEF x
    <3>3. ExecutedInv'
      <4>1. peer'.expect = (e + 1) % 8
        BY <1>3, <1>4, <2>4, Eight DEF ExecutedInv, e
      <4>2. e + 1 <= Ends(board)
        <5>1. \A m \in Nat, n \in 1 .. 140 : m < n => m + 1 <= n
          OBVIOUS
        <5> QED
          BY <1>3, <3>1, <5>1
      <4>3. ASSUME NEW i \in 1 .. e + 1 PROVE executed'[i] = Plan(board)[i]
        <5>1. CASE i = e + 1
          BY <3>1, <3>2, <5>1
        <5>2. CASE i # e + 1
          <6>1. i \in 1 .. e
            BY <1>3, <5>2
          <6> QED
            BY <1>4, <3>2, <6>1 DEF ExecutedInv
        <5> QED
          BY <5>1, <5>2
      <4> QED
        BY <1>2, <3>2, <4>1, <4>2, <4>3 DEF ExecutedInv
    <3>4. Planned(board, f) /\ Planned(board, event) /\ Place(board, event) = e
      <4>1. Planned(board, f)
        BY <1>4, <2>1, <2>4 DEF UnderWay
      <4>2. Place(board, event) = Place(board, f)
        BY <2>4 DEF Place
      <4>3. peer.seq = f.seq
        BY <2>4 DEF CommandInv
      <4> QED
        BY <2>4, <3>1, <4>1, <4>2, <4>3 DEF Planned
    <3>5. UnderWay'
      <4>1. ASSUME NEW g \in Range(toCtrl'), Reliable(g)
            PROVE  /\ Planned(board, g) /\ (e + 1) - 1 <= Place(board, g)
                   /\ Place(board, g) <= (e + 1) + 2
        <5>1. /\ Planned(board, g) /\ Place(board, g) <= e + 2 /\ g \in Range(toCtrl)
              /\ e <= Place(board, g)
          BY <1>4, <2>2, <2>4, <3>1, <4>1 DEF UnderWay, e
        <5>2. Place(board, g) \in Int
          <6>1. g \in Frame
            BY <1>3, <5>1 DEF Range
          <6> QED
            BY <1>3, <4>1, <5>1, <6>1, PlaceType
        <5>3. \A m \in Int, n \in Nat : m <= n + 2 /\ n <= m => (n + 1) - 1 <= m /\ m <= (n + 1) + 2
          OBVIOUS
        <5> QED
          BY <1>3, <5>1, <5>2, <5>3
      <4>2. ASSUME NEW g \in Range(toHost') \cup Range(peer'.unacked), Reliable(g)
            PROVE  Planned(board, g) /\ Place(board, g) < e + 1
        <5>1. Range(Put(toHost, event)) \subseteq Range(toHost) \cup {event}
          BY <1>3, <2>4, PutRange
        <5>2. CASE g = event
          BY <1>3, <3>4, <5>2
        <5>3. CASE g \in Range(toHost) \cup Range(peer.unacked)
          <6>1. Planned(board, g) /\ Place(board, g) < e
            BY <1>4, <4>2, <5>3 DEF UnderWay, e
          <6>2. Place(board, g) \in Int
            <7>1. g \in Frame
              BY <1>3, <5>3 DEF Range
            <7> QED
              BY <1>3, <4>2, <6>1, <7>1, PlaceType
          <6>3. \A m \in Int, n \in Nat : m < n => m < n + 1
            OBVIOUS
          <6> QED
            BY <1>3, <6>1, <6>2, <6>3
        <5> QED
          BY <2>4, <4>2, <5>1, <5>2, <5>3
      <4> QED
        BY <1>2, <2>2, <3>2, <4>1, <4>2 DEF UnderWay
    <3>6. SentInv'
      <4>1. at # "failed" => Len(executed') <= Sent'
        <5>1. at # "failed" => Sent \in Nat
          BY Ahead
        <5> QED
          BY <1>2, <1>3, <3>1, <3>2, <5>1
      <4> QED
        BY <1>2, <1>4, <2>2, <4>1 DEF SentInv
    <3>7. AnsweredInv' /\ PatchInv'
      <4>1. /\ \A n \in 0 .. 300 : e >= n => e + 1 >= n
            /\ at = "done" => FALSE
        <5>1. at = "done" => e = Ends(board)
          BY <1>4 DEF AnsweredInv, e
        <5>2. ~(e = Ends(board))
          BY <3>1
        <5>3. \A m \in Nat : \A n \in 0 .. 300 : m >= n => m + 1 >= n
          OBVIOUS
        <5> QED
          BY <1>3, <5>1, <5>2, <5>3
      <4>2. /\ RatePlace(board) \in 0 .. 300 /\ Base(board) \in 0 .. 300
            /\ tx_index \in 0 .. 127 /\ rx_index \in -1 .. 127
        <5>1. RatePlace(board) \in {1, 2} /\ Base(board) \in 1 .. 3
          BY <1>3, PlanSizes
        <5> QED
          BY <5>1 DEF TypeOK
      <4>3. AnsweredInv'
        <5>1. /\ e >= 1 => e + 1 >= 1
              /\ e >= 2 => e + 1 >= 2
              /\ e >= RatePlace(board) => e + 1 >= RatePlace(board)
              /\ e >= Base(board) => e + 1 >= Base(board)
              /\ at # "done"
          BY <4>1, <4>2
        <5> QED
          BY <1>2, <1>4, <3>2, <5>1 DEF AnsweredInv, e
      <4>4. \A i \in 0 .. 127 : Base(board) + i \in 0 .. 300 /\ Base(board) + i + 1 \in 0 .. 300
        <5>1. Base(board) \in 1 .. 3
          BY <1>3, PlanSizes
        <5> QED
          BY <5>1
      <4>5. rx_index >= 2 => rx_index \in 0 .. 127
        BY <4>2
      <4>6. PatchInv'
        BY <1>2, <1>4, <3>2, <4>1, <4>2, <4>4, <4>5 DEF PatchInv, e
      <4> QED
        BY <4>3, <4>6
    <3> QED
      BY <3>3, <3>5, <3>6, <3>7 DEF OrderInv
  <2> QED
    BY <2>1, <2>3, <2>4
<1>7. CASE PeerAsks \/ PeerRepeats \/ Lose
  <2>1. /\ Range(toCtrl') \subseteq Range(toCtrl) /\ UNCHANGED <<peer, executed>>
        /\ \A f \in Range(toHost') :
             f \in Range(toHost) \cup Range(peer.unacked) \/ f.kind \in {"sync", "conf"}
    BY <1>7, LineBrings
  <2>2. \A f : f.kind \in {"sync", "conf"} => ~Reliable(f)
    BY Kinds DEF Reliable
  <2>3. toCtrl' = toCtrl \/ (toCtrl # <<>> /\ toCtrl' = Tail(toCtrl))
    BY <1>7 DEF PeerAsks, PeerRepeats, Lose
  <2>4. InTurn(board, toCtrl')
    BY <1>3, <1>4, <2>3, TailAt
  <2> QED
    BY <1>5, <2>1, <2>2, <2>4
<1> QED
  BY <1>6, <1>7

LEMMA OrderNext == TypeOK /\ LinkInv /\ CommandInv /\ OrderInv /\ [Next]_vars => OrderInv'
<1>1. ASSUME OrderInv, UNCHANGED vars PROVE OrderInv'
  BY <1>1 DEF vars, OrderInv, ExecutedInv, UnderWay, SentInv, AnsweredInv, PatchInv, Sent
<1> QED
  BY <1>1, OrderReceives, OrderGoesOn, OrderAlarms, OrderWorld DEF Next

\* Whatever is lost, repeated or late, and however often the host takes a number over, the
\* controller executes the commands of the plan in order and each once, and all of them when the
\* host says that it is done: with any patch, any number of retries and any line.
THEOREM PlanExecuted == Spec => []ExecutesPlan
<1>1. TypeOK /\ OrderInv => ExecutesPlan
  <2> SUFFICES ASSUME TypeOK, OrderInv PROVE ExecutesPlan
    OBVIOUS
  <2>1. /\ board \in Board /\ executed \in Seq(Commands \X (0 .. 127))
        /\ Len(executed) <= Ends(board) /\ \A i \in DOMAIN executed : executed[i] = Plan(board)[i]
        /\ at = "done" => Len(executed) = Ends(board)
    BY H5Assumption DEF TypeOK, OrderInv, ExecutedInv, AnsweredInv
  <2>2. Plan(board) \in Seq(Commands \X Int) /\ Len(Plan(board)) = Ends(board)
    BY <2>1, PlanIs
  <2> HIDE DEF Plan
  <2>3. IsPrefix(executed, Plan(board))
    BY <2>1, <2>2 DEF IsPrefix
  <2>4. at = "done" => executed = Plan(board)
    BY <2>1, <2>2
  <2> QED
    BY <2>3, <2>4 DEF ExecutesPlan
<1> QED
  BY <1>1, TypesInit, LinkInit, CommandInit, OrderInit, TypesNext, LinkNext, CommandNext, OrderNext,
     PTL DEF Spec

-----------------------------------------------------------------------------
(* The link is not touched any more when there are commands.               *)

\* Once the controller has executed a command no frame of the link is under way to it, and once
\* the host has taken the first event nothing but events is under way to the host.
LinkOver ==
  /\ LinkFirst(toCtrl) /\ LinkFirst(toHost)
  /\ executed # <<>> => /\ peer.link = "configured"
                        /\ \A f \in Range(toCtrl) : f.kind \notin LinkControl
  /\ \A f \in Range(toHost) : f.kind # "ack"
  /\ hci_version_cmd_state = "event_received" => \A f \in Range(toHost) : Reliable(f)
  /\ at \in {"rom", "rate", "patch", "done"} => hci_version_cmd_state = "event_received"

LEMMA BeforeCommands ==
  ASSUME TypeOK, LinkInv, OrderInv
  PROVE  /\ at \in {"start", "sync", "config"} =>
              executed = <<>> /\ \A f \in Range(toCtrl) : ~Reliable(f)
         /\ at # "failed" /\ ~Opened => at \in {"start", "sync", "config"}
         /\ executed = <<>> => \A f \in Range(toHost) \cup Range(peer.unacked) : ~Reliable(f)
         /\ hci_version_cmd_state = "event_received" => executed # <<>>
<1>1. /\ board \in Board /\ executed \in Seq(Commands \X (0 .. 127)) /\ toCtrl \in Seq(Frame)
      /\ toHost \in Seq(Frame) /\ peer.unacked \in Seq(Frame) /\ Len(executed) \in Nat
  BY H5Assumption DEF TypeOK
<1>2. \A f \in Range(toCtrl) \cup Range(toHost) \cup Range(peer.unacked) :
        Reliable(f) => Place(board, f) \in Nat
  <2>1. ASSUME NEW f \in Range(toCtrl) \cup Range(toHost) \cup Range(peer.unacked), Reliable(f)
        PROVE  Place(board, f) \in Nat
    <3>1. f \in Frame
      BY <1>1, <2>1 DEF Range
    <3>2. Planned(board, f)
      BY <2>1 DEF OrderInv, UnderWay
    <3>3. Place(board, f) \in 0 .. Ends(board) - 1
      BY <1>1, <2>1, <3>1, <3>2, PlaceType
    <3> QED
      BY <3>3
  <2> QED
    BY <2>1
<1>3. at \in {"start", "sync", "config"} =>
        executed = <<>> /\ \A f \in Range(toCtrl) : ~Reliable(f)
  <2> SUFFICES ASSUME at \in {"start", "sync", "config"}
               PROVE  executed = <<>> /\ \A f \in Range(toCtrl) : ~Reliable(f)
    OBVIOUS
  <2>1. /\ Sent = 0 /\ Len(executed) <= Sent
        /\ \A f \in Range(toCtrl) : Reliable(f) => Place(board, f) < Sent
    BY SentIs DEF OrderInv, SentInv
  <2>2. Len(executed) = 0
    BY <1>1, <2>1
  <2>3. executed = <<>>
    BY <1>1, <2>2
  <2> QED
    BY <1>2, <2>1, <2>3
<1>4. at # "failed" /\ ~Opened => at \in {"start", "sync", "config"}
  BY DEF LinkInv
<1>5. executed = <<>> => \A f \in Range(toHost) \cup Range(peer.unacked) : ~Reliable(f)
  <2> SUFFICES ASSUME executed = <<>>
               PROVE  \A f \in Range(toHost) \cup Range(peer.unacked) : ~Reliable(f)
    OBVIOUS
  <2>1. \A f \in Range(toHost) \cup Range(peer.unacked) : Reliable(f) => Place(board, f) < 0
    BY DEF OrderInv, UnderWay
  <2> QED
    BY <1>2, <2>1
<1>6. hci_version_cmd_state = "event_received" => executed # <<>>
  <2>1. Len(<<>>) = 0
    OBVIOUS
  <2> QED
    BY <2>1 DEF OrderInv, AnsweredInv
<1> QED
  BY <1>3, <1>4, <1>5, <1>6

LEMMA LinkOverInit == Init => LinkOver
<1> SUFFICES ASSUME Init PROVE LinkOver
  OBVIOUS
<1>1. /\ executed = <<>> /\ toCtrl = <<>> /\ toHost = <<>> /\ at = "start"
      /\ hci_version_cmd_state = "cmd_not_send"
  BY DEF Init
<1>2. Range(<<>>) = {} /\ DOMAIN <<>> = {}
  BY DEF Range
<1> QED
  BY <1>1, <1>2 DEF LinkOver, LinkFirst

\* Frames of the link come behind no command, and anything else behind all.
LEMMA CtrlLinkFirst ==
  ASSUME TypeOK, LinkInv, OrderInv, LinkOver, NEW S, NEW more, Grown(toCtrl, more, S), S \subseteq Frame,
         \/ \A g \in S : g.kind \notin LinkControl
         \/ S = Unnumbered /\ at \in {"start", "sync", "config"}
  PROVE  /\ LinkFirst(more)
         /\ executed # <<>> => \A f \in Range(more) : f.kind \notin LinkControl
<1>1. toCtrl \in Seq(Frame)
  BY DEF TypeOK
<1>2. CASE \A g \in S : g.kind \notin LinkControl
  <2>1. LinkFirst(more)
    BY <1>1, <1>2, GrownLinkFirst DEF LinkOver
  <2> QED
    BY <1>1, <1>2, <2>1, GrownRange DEF LinkOver
<1>3. CASE S = Unnumbered /\ at \in {"start", "sync", "config"}
  <2>1. executed = <<>> /\ \A f \in Range(toCtrl) : ~Reliable(f)
    BY <1>3, BeforeCommands
  <2>2. \A g \in S : ~Reliable(g)
    BY <1>3, AcksAre
  <2>3. LinkFirst(more)
    BY <1>1, <2>1, <2>2, GrownLinkFirst DEF LinkOver
  <2> QED
    BY <2>1, <2>3
<1> QED
  BY <1>2, <1>3

LEMMA LinkOverReceives == TypeOK /\ LinkInv /\ OrderInv /\ LinkOver /\ h5_recv => LinkOver'
<1> SUFFICES ASSUME TypeOK, LinkInv, OrderInv, LinkOver, h5_recv PROVE LinkOver'
  OBVIOUS
<1> DEFINE f == Head(toHost)
<1>1. /\ f \in Range(toHost) /\ f \in Frame /\ Range(toHost') \subseteq Range(toHost)
      /\ toCtrl \in Seq(Frame) /\ toHost \in Seq(Frame) /\ rxseq_txack \in 0 .. 7
      /\ toHost # <<>> /\ toHost' = Tail(toHost)
  BY TailRange DEF h5_recv, TypeOK
<1>2. /\ UNCHANGED <<board, peer, executed, at>>
      /\ OutOfOrder(f) \/ InOrder(f)
      /\ at \notin {"start", "done", "failed"}
  BY DEF h5_recv, world
<1>3. /\ LinkFirst(toHost')
      /\ \A g \in Range(toHost') : Reliable(f) => g.kind \notin LinkControl
  BY <1>1, TailAt DEF LinkOver
<1> HIDE DEF f
<1>4. /\ LinkFirst(toCtrl')
      /\ executed # <<>> => \A g \in Range(toCtrl') : g.kind \notin LinkControl
  <2>1. CASE OutOfOrder(f)
    BY <2>1 DEF OutOfOrder, LinkOver
  <2>2. CASE InOrder(f)
    <3>1. rxseq_txack' \in 0 .. 7
      BY <1>1, <2>2, NextSeqType DEF InOrder, Frame
    <3>2. IF Opened THEN Grown(toCtrl, toCtrl', Acks) ELSE Grown(toCtrl, toCtrl', Unnumbered)
      BY <2>2, <3>1, ReceiverGrows DEF InOrder
    <3>3. ~Opened => at \in {"start", "sync", "config"}
      BY <1>2, BeforeCommands
    <3>4. Acks \subseteq Frame /\ Unnumbered \subseteq Frame
      BY DEF Acks, Unnumbered
    <3> QED
      BY <3>2, <3>3, <3>4, AcksAre, CtrlLinkFirst
  <2> QED
    BY <1>2, <2>1, <2>2
<1>5. \/ hci_version_cmd_state' = hci_version_cmd_state
      \/ Reliable(f) /\ hci_version_cmd_state' = "event_received"
  BY <1>2
     DEF OutOfOrder, InOrder, hci_recv_frame, RecvSync, RecvConfig, RecvInit, RecvPatch,
         RecvActive, hci_event_cmd_complete, versions
<1>6. hci_version_cmd_state' = "event_received" => \A g \in Range(toHost') : Reliable(g)
  <2>1. CASE hci_version_cmd_state' = hci_version_cmd_state
    BY <1>1, <2>1 DEF LinkOver
  <2>2. CASE Reliable(f)
    <3>1. ASSUME NEW g \in Range(toHost') PROVE Reliable(g)
      <4>1. g \in Range(toHost) /\ g.kind \notin LinkControl
        BY <1>1, <1>3, <2>2, <3>1
      <4>2. g \in Frame /\ g.kind # "ack"
        BY <1>1, <4>1 DEF LinkOver, Range
      <4> QED
        BY <4>1, <4>2 DEF Frame, Reliable
    <3> QED
      BY <3>1
  <2> QED
    BY <1>5, <2>1, <2>2
<1>7. at' \in {"rom", "rate", "patch", "done"} => hci_version_cmd_state' = "event_received"
  BY <1>2, <1>5 DEF LinkOver
<1> QED
  BY <1>1, <1>2, <1>3, <1>4, <1>6, <1>7 DEF LinkOver

LEMMA LinkOverGoesOn == TypeOK /\ LinkInv /\ OrderInv /\ LinkOver /\ HostGoesOn => LinkOver'
<1> SUFFICES ASSUME TypeOK, LinkInv, OrderInv, LinkOver, HostGoesOn PROVE LinkOver'
  OBVIOUS
<1>1. UNCHANGED <<board, peer, executed, toHost>> /\ tx_index \in 0 .. 127 /\ total_num \in 0 .. 127
  BY DEF HostGoesOn, rtk_init, SyncDone, ConfigDone, rtk_get_eversion,
         rtk_vendor_change_speed_h5, NothingToDownload, rtk_download_fw_config,
         hci_download_patch, PatchDone, world, wire, TypeOK
<1>2. /\ hci_version_cmd_state' = "event_received" => hci_version_cmd_state = "event_received"
      /\ at' \in {"rom", "rate", "patch", "done"} => hci_version_cmd_state' = "event_received"
  <2>1. CASE rtk_init \/ SyncDone \/ ConfigDone
    BY <2>1 DEF rtk_init, SyncDone, ConfigDone, versions
  <2>2. CASE rtk_get_eversion \/ rtk_vendor_change_speed_h5 \/ NothingToDownload
             \/ rtk_download_fw_config \/ hci_download_patch \/ PatchDone
    <3>1. UNCHANGED hci_version_cmd_state
      BY <2>2
         DEF rtk_get_eversion, rtk_vendor_change_speed_h5, NothingToDownload,
             rtk_download_fw_config, hci_download_patch, PatchDone, versions
    <3>2. at \in {"rom", "rate", "patch"} \/ hci_version_cmd_state = "event_received"
      BY <2>2
         DEF rtk_get_eversion, rtk_vendor_change_speed_h5, NothingToDownload,
             rtk_download_fw_config, hci_download_patch, PatchDone, Configured, VersionsKnown
    <3> QED
      BY <3>1, <3>2 DEF LinkOver
  <2> QED
    BY <2>1, <2>2 DEF HostGoesOn
<1> DEFINE Sends(S) == /\ Grown(toCtrl, toCtrl', S) /\ S \subseteq Frame
                       /\ \/ \A g \in S : g.kind \notin LinkControl
                          \/ S = Unnumbered /\ at \in {"start", "sync", "config"}
<1>3. \E S : Sends(S)
  <2>0. Acks \subseteq Frame /\ Unnumbered \subseteq Frame
    BY DEF Acks, Unnumbered
  <2>1. CASE rtk_init \/ SyncDone
    <3>1. Grown(toCtrl, toCtrl', Unnumbered) /\ at \in {"start", "sync", "config"}
      BY <2>1, HostGrows DEF rtk_init, SyncDone
    <3> QED
      BY <2>0, <3>1
  <2>2. ASSUME NEW kind \in Commands, NEW index \in 0 .. 127,
               Send(toCtrl, kind, index) \/ Send(rtk_send_pure_ack_down(toCtrl), kind, index)
        PROVE  \E S : Sends(S)
    <3> DEFINE c == h5_prepare_pkt(kind, index)
    <3>1. c \in Frame /\ Grown(toCtrl, toCtrl', Acks \cup {c})
      BY <2>2, HostGrows
    <3>2. c.kind \notin LinkControl
      BY <2>2, Kinds DEF h5_prepare_pkt
    <3> HIDE DEF c
    <3>3. \A g \in Acks \cup {c} : g.kind \notin LinkControl
      BY <3>2, AcksAre
    <3> QED
      BY <2>0, <3>1, <3>3
  <2>3. CASE ConfigDone \/ rtk_get_eversion \/ rtk_vendor_change_speed_h5
             \/ rtk_download_fw_config \/ hci_download_patch
    <3>1. \E kind \in Commands, index \in 0 .. 127 :
            Send(toCtrl, kind, index) \/ Send(rtk_send_pure_ack_down(toCtrl), kind, index)
      <4> HIDE DEF Send
      <4>0. {"lmp", "rom", "rate", "patch"} \subseteq Commands /\ 0 \in 0 .. 127
        BY Kinds
      <4>1. CASE hci_download_patch
        <5>1. Send(toCtrl, "patch", tx_index + 1) /\ tx_index < total_num
          BY <4>1 DEF hci_download_patch
        <5>2. tx_index + 1 \in 0 .. 127
          BY <1>1, <5>1
        <5> QED
          BY <4>0, <5>1, <5>2
      <4> QED
        BY <2>3, <4>0, <4>1
           DEF ConfigDone, rtk_get_eversion, rtk_vendor_change_speed_h5, rtk_download_fw_config
    <3> QED
      BY <2>2, <3>1
  <2>4. CASE NothingToDownload \/ PatchDone
    <3>1. Grown(toCtrl, toCtrl', Acks)
      <4>1. toCtrl \in Seq(Frame)
        BY DEF TypeOK
      <4> QED
        BY <2>4, <4>1, HostGrows, GrownSame DEF NothingToDownload, wire
    <3> QED
      BY <2>0, <3>1, AcksAre
  <2> QED
    BY <2>1, <2>3, <2>4 DEF HostGoesOn
<1>4. /\ LinkFirst(toCtrl')
      /\ executed # <<>> => \A g \in Range(toCtrl') : g.kind \notin LinkControl
  BY <1>3, CtrlLinkFirst
<1> QED
  BY <1>1, <1>2, <1>4 DEF LinkOver

LEMMA LinkOverAlarms == TypeOK /\ LinkInv /\ OrderInv /\ LinkOver /\ Alarm => LinkOver'
<1> SUFFICES ASSUME TypeOK, LinkInv, OrderInv, LinkOver, Alarm PROVE LinkOver'
  OBVIOUS
<1>1. UNCHANGED <<board, peer, executed, toHost, hci_version_cmd_state>>
  BY DEF Alarm, world, versions
<1>2. /\ at' = at \/ at' = "failed"
      /\ at \in {"sync", "config"} => Grown(toCtrl, toCtrl', Unnumbered)
      /\ at \notin {"sync", "config"} =>
           toCtrl' = toCtrl \/ (host_last_cmd # NoFrame /\ toCtrl' = Put(toCtrl, host_last_cmd))
  BY AlarmGrows
<1>3. at # "failed"
  BY DEF Alarm, LinkAlarm, CommandAlarm, RateAlarm
<1>4. /\ toCtrl \in Seq(Frame) /\ host_last_cmd \in Frame \cup {NoFrame}
      /\ Unnumbered \subseteq Frame
  BY DEF TypeOK, Unnumbered
<1>5. /\ LinkFirst(toCtrl')
      /\ executed # <<>> => \A g \in Range(toCtrl') : g.kind \notin LinkControl
  <2>1. CASE at \in {"sync", "config"}
    BY <1>2, <1>4, <2>1, CtrlLinkFirst
  <2>2. CASE toCtrl' = toCtrl
    BY <2>2 DEF LinkOver
  <2>3. CASE host_last_cmd # NoFrame /\ toCtrl' = Put(toCtrl, host_last_cmd)
    <3>1. host_last_cmd \in Frame /\ Reliable(host_last_cmd)
      BY <1>3, <1>4, <2>3 DEF OrderInv, SentInv
    <3>2. host_last_cmd.kind \notin LinkControl
      BY <3>1, Kinds DEF Reliable
    <3>3. Grown(toCtrl, toCtrl', {host_last_cmd})
      BY <1>4, <2>3, <3>1, GrownSame, GrownPut
    <3> QED
      BY <3>1, <3>2, <3>3, CtrlLinkFirst
  <2> QED
    BY <1>2, <2>1, <2>2, <2>3
<1> QED
  BY <1>1, <1>2, <1>5 DEF LinkOver

\* The controller answers the link only before the first command, and repeats only events.
LEMMA LinkOverWorld ==
  TypeOK /\ LinkInv /\ OrderInv /\ LinkOver /\ (PeerAsks \/ PeerReceives \/ PeerRepeats \/ Lose)
    => LinkOver'
<1> SUFFICES ASSUME TypeOK, LinkInv, OrderInv, LinkOver,
                    PeerAsks \/ PeerReceives \/ PeerRepeats \/ Lose
             PROVE  LinkOver'
  OBVIOUS
<1>1. UNCHANGED <<at, hci_version_cmd_state>>
  BY DEF PeerAsks, PeerReceives, PeerRepeats, Lose, host, versions
<1>2. /\ toCtrl \in Seq(Frame) /\ toHost \in Seq(Frame) /\ peer.unacked \in Seq(Frame)
      /\ executed \in Seq(Commands \X (0 .. 127))
  BY DEF TypeOK
<1>3. ASSUME NEW queue \in Seq(Frame), LinkFirst(queue), queue # <<>>
      PROVE  LinkFirst(Tail(queue)) /\ Range(Tail(queue)) \subseteq Range(queue)
  BY <1>3, TailAt, TailRange
\* What comes to the host is an event, or the controller has executed nothing yet.
<1>4. ASSUME NEW g \in Frame, Reliable(g) \/ (executed = <<>> /\ g.kind \in LinkControl),
             toHost' = Put(toHost, g)
      PROVE  /\ LinkFirst(toHost')
             /\ \A f \in Range(toHost') : f.kind # "ack"
             /\ hci_version_cmd_state = "event_received" => \A f \in Range(toHost') : Reliable(f)
  <2>1. Grown(toHost, toHost', {g}) /\ Range(toHost') \subseteq Range(toHost) \cup {g}
    BY <1>2, <1>4, GrownSame, GrownPut, PutRange
  <2>2. g.kind # "ack" /\ (Reliable(g) <=> g.kind \notin LinkControl)
    BY <1>4, Kinds DEF Reliable
  <2>3. LinkFirst(toHost')
    BY <1>2, <1>4, <2>1, <2>2, GrownLinkFirst, BeforeCommands DEF LinkOver
  <2>4. hci_version_cmd_state = "event_received" => Reliable(g)
    BY <1>4, BeforeCommands
  <2> QED
    BY <2>1, <2>2, <2>3, <2>4 DEF LinkOver
<1>5. CASE PeerReceives
  <2> DEFINE f == Head(toCtrl)
             event == [f EXCEPT !.seq = peer.seq, !.ack = 0]
  <2>1. /\ f \in Range(toCtrl) /\ f \in Frame /\ toCtrl # <<>> /\ toCtrl' = Tail(toCtrl)
        /\ \/ /\ executed' = executed
              /\ peer.link = "configured" => peer'.link = "configured"
              /\ \/ UNCHANGED toHost
                 \/ /\ f.kind \in LinkControl
                    /\ \E g \in Links : toHost' = Put(toHost, g)
           \/ /\ Reliable(f) /\ event \in Frame /\ event.kind = f.kind
              /\ peer'.link = "configured" /\ toHost' = Put(toHost, event)
    BY <1>5, PeerExecutes
  <2>2. \A g \in Range(toCtrl') : Reliable(f) => g.kind \notin LinkControl
    BY <1>2, <2>1, TailAt DEF LinkOver
  <2> HIDE DEF f, event
  <2>3. LinkFirst(toCtrl') /\ Range(toCtrl') \subseteq Range(toCtrl)
    BY <1>2, <1>3, <2>1 DEF LinkOver
  <2>4. CASE executed' = executed /\ UNCHANGED toHost /\ (peer.link = "configured" => peer'.link = "configured")
    BY <1>1, <2>3, <2>4 DEF LinkOver
  <2>5. CASE /\ executed' = executed /\ f.kind \in LinkControl
             /\ peer.link = "configured" => peer'.link = "configured"
             /\ \E g \in Links : toHost' = Put(toHost, g)
    <3>1. executed = <<>>
      BY <2>1, <2>5 DEF LinkOver
    <3>2. PICK g \in Links : toHost' = Put(toHost, g)
      BY <2>5
    <3>3. g \in Frame /\ g.kind \in LinkControl
      BY <3>2 DEF Links
    <3>4. /\ LinkFirst(toHost')
          /\ \A h \in Range(toHost') : h.kind # "ack"
          /\ hci_version_cmd_state = "event_received" => \A h \in Range(toHost') : Reliable(h)
      BY <1>4, <3>1, <3>2, <3>3
    <3> QED
      BY <1>1, <2>3, <2>5, <3>1, <3>4 DEF LinkOver
  <2>6. CASE /\ Reliable(f) /\ event \in Frame /\ event.kind = f.kind
             /\ peer'.link = "configured" /\ toHost' = Put(toHost, event)
    <3>1. Reliable(event)
      BY <2>6 DEF Reliable
    <3>2. /\ LinkFirst(toHost')
          /\ \A h \in Range(toHost') : h.kind # "ack"
          /\ hci_version_cmd_state = "event_received" => \A h \in Range(toHost') : Reliable(h)
      BY <1>4, <2>6, <3>1
    <3> QED
      BY <1>1, <2>2, <2>3, <2>6, <3>2 DEF LinkOver
  <2> QED
    BY <2>1, <2>4, <2>5, <2>6
<1>6. CASE PeerAsks
  <2>1. /\ UNCHANGED <<toCtrl, peer, executed>> /\ peer.link # "configured"
        /\ \E kind \in {"sync", "conf"} : toHost' = Put(toHost, Answer(kind))
    BY <1>6 DEF PeerAsks, Answer
  <2>2. PICK kind \in {"sync", "conf"} : toHost' = Put(toHost, Answer(kind))
    BY <2>1
  <2>3. Answer(kind) \in Frame /\ Answer(kind).kind \in LinkControl
    BY <2>2, AnswerType, Kinds
  <2> HIDE DEF Answer
  <2>4. executed = <<>>
    BY <2>1 DEF LinkOver
  <2>5. /\ LinkFirst(toHost')
        /\ \A h \in Range(toHost') : h.kind # "ack"
        /\ hci_version_cmd_state = "event_received" => \A h \in Range(toHost') : Reliable(h)
    BY <1>4, <2>2, <2>3, <2>4
  <2> QED
    BY <1>1, <2>1, <2>5 DEF LinkOver
<1>7. CASE PeerRepeats
  <2>1. PICK i \in DOMAIN peer.unacked : toHost' = Put(toHost, peer.unacked[i])
    BY <1>7 DEF PeerRepeats
  <2>2. peer.unacked[i] \in Frame /\ Reliable(peer.unacked[i])
    BY <1>2, <2>1, ElementRange DEF LinkInv
  <2>3. /\ LinkFirst(toHost')
        /\ \A h \in Range(toHost') : h.kind # "ack"
        /\ hci_version_cmd_state = "event_received" => \A h \in Range(toHost') : Reliable(h)
    BY <1>4, <2>1, <2>2
  <2>4. UNCHANGED <<toCtrl, peer, executed>>
    BY <1>7 DEF PeerRepeats
  <2> QED
    BY <1>1, <2>3, <2>4 DEF LinkOver
<1>8. CASE Lose
  <2>1. /\ UNCHANGED <<peer, executed>>
        /\ \/ toCtrl # <<>> /\ toCtrl' = Tail(toCtrl) /\ UNCHANGED toHost
           \/ toHost # <<>> /\ toHost' = Tail(toHost) /\ UNCHANGED toCtrl
    BY <1>8 DEF Lose
  <2>2. /\ LinkFirst(toCtrl') /\ Range(toCtrl') \subseteq Range(toCtrl)
        /\ LinkFirst(toHost') /\ Range(toHost') \subseteq Range(toHost)
    BY <1>2, <1>3, <2>1 DEF LinkOver
  <2> QED
    BY <1>1, <2>1, <2>2 DEF LinkOver
<1> QED
  BY <1>5, <1>6, <1>7, <1>8

LEMMA LinkOverNext == TypeOK /\ LinkInv /\ OrderInv /\ LinkOver /\ [Next]_vars => LinkOver'
<1>1. ASSUME LinkOver, UNCHANGED vars PROVE LinkOver'
  BY <1>1 DEF vars, LinkOver
<1> QED
  BY <1>1, LinkOverReceives, LinkOverGoesOn, LinkOverAlarms, LinkOverWorld DEF Next

-----------------------------------------------------------------------------
(* What the host has taken.                                                *)

\* How many events the host has taken when it has taken each in its turn.
Accepted == IF Unanswered THEN Sent - 1 ELSE Sent

\* Unless it took over a number out of order, the host expects the event of the command that is
\* outstanding; so each command that it sends acknowledges the event of the one before, and the
\* controller has never more than one event to repeat.
TakenInv ==
  ~resynced /\ at # "failed" =>
    /\ rxseq_txack = Accepted % 8 /\ Accepted <= Len(executed)
    /\ \A f \in Range(toCtrl) : Reliable(f) => f.ack = f.seq
    /\ host_last_cmd # NoFrame => host_last_cmd.ack = host_last_cmd.seq
    /\ Len(peer.unacked) <= 1
    /\ \A f \in Range(peer.unacked) : Place(board, f) = Len(executed) - 1
    /\ InTurn(board, toHost)
    /\ \A f \in Range(toHost) : Reliable(f) => Place(board, f) >= Accepted - 1
    /\ at = "patch" /\ (Unanswered \/ tx_index < total_num) => link_estab_state = "H5_PATCH"

LEMMA AcceptedIs ==
  /\ Unanswered => Accepted = Sent - 1
  /\ ~Unanswered => Accepted = Sent
  /\ Unanswered' => Accepted' = Sent' - 1
  /\ ~Unanswered' => Accepted' = Sent'
  /\ Unanswered => at \in {"lmp", "rom", "rate", "patch"}
BY DEF Accepted, Unanswered

LEMMA AcceptedType ==
  ASSUME TypeOK, OrderInv, at # "failed"
  PROVE  Accepted \in Int /\ Sent \in Nat /\ Len(executed) \in Nat /\ board \in Board
<1>1. Sent \in Nat /\ Len(executed) \in Nat /\ board \in Board
  BY Ahead
<1> QED
  BY <1>1, AcceptedIs

LEMMA TakenInit == Init => TakenInv
<1> SUFFICES ASSUME Init PROVE TakenInv
  OBVIOUS
<1>1. /\ executed = <<>> /\ toCtrl = <<>> /\ toHost = <<>> /\ at = "start" /\ rxseq_txack = 0
      /\ host_last_cmd = NoFrame /\ peer.unacked = <<>>
  BY DEF Init
<1>2. Range(<<>>) = {} /\ DOMAIN <<>> = {} /\ Len(<<>>) = 0
  BY DEF Range
<1>3. Sent = 0 /\ ~Unanswered
  BY <1>1, SentIs DEF Unanswered
<1>4. Accepted = 0 /\ 0 % 8 = 0
  BY <1>3, AcceptedIs
<1> QED
  BY <1>1, <1>2, <1>4 DEF TakenInv, InTurn

\* Where a place is, there is one command.
LEMMA PlaceTells ==
  ASSUME TypeOK, OrderInv, NEW f \in Frame, Reliable(f), Planned(board, f)
  PROVE  /\ at = "lmp" /\ Place(board, f) = 0 => f.kind = "lmp"
         /\ at = "rom" /\ Place(board, f) = 1 => f.kind = "rom"
         /\ at = "rate" /\ Place(board, f) = RatePlace(board) => f.kind = "rate"
         /\ at = "patch" /\ Place(board, f) = Base(board) + tx_index =>
              f.kind = "patch" /\ f.index = tx_index
<1>1. /\ board \in Board /\ f.index \in 0 .. 127 /\ f.kind \in {"lmp", "rom", "rate", "patch"}
      /\ tx_index \in 0 .. 127
  BY H5Assumption DEF TypeOK, Frame, Reliable, Commands
<1>2. /\ RatePlace(board) \in {1, 2} /\ Base(board) \in 1 .. 3
      /\ ~board.rom8723a => RatePlace(board) = 2
      /\ board.speed = "config" => Base(board) = RatePlace(board) + 1
      /\ board.speed # "config" => Base(board) = RatePlace(board)
  BY <1>1, PlanSizes
<1>3. /\ f.kind = "lmp" => Place(board, f) = 0
      /\ f.kind = "rom" => Place(board, f) = 1 /\ ~board.rom8723a
      /\ f.kind = "rate" => Place(board, f) = RatePlace(board) /\ board.speed = "config"
      /\ f.kind = "patch" => Place(board, f) = Base(board) + f.index
  BY DEF Place, Planned
<1> DEFINE r == RatePlace(board)
           m == Base(board)
           p == Place(board, f)
           i == f.index
<1>4. /\ r \in {1, 2} /\ m \in 1 .. 3 /\ (m = r \/ m = r + 1) /\ i \in 0 .. 127
      /\ f.kind = "lmp" => p = 0
      /\ f.kind = "rom" => p = 1 /\ r = 2
      /\ f.kind = "rate" => p = r /\ m = r + 1
      /\ f.kind = "patch" => p = m + i
      /\ at = "rom" => r = 2
      /\ at = "rate" => m = r + 1
  BY <1>1, <1>2, <1>3 DEF OrderInv, AnsweredInv
<1> HIDE DEF r, m, p, i
<1>5. /\ at = "lmp" /\ p = 0 => f.kind = "lmp"
      /\ at = "rom" /\ p = 1 => f.kind = "rom"
      /\ at = "rate" /\ p = r => f.kind = "rate"
      /\ at = "patch" /\ p = m + tx_index => f.kind = "patch" /\ i = tx_index
  BY <1>1, <1>4
<1> QED
  BY <1>5 DEF r, m, p, i

\* The event that is in turn answers the command that is outstanding.
LEMMA InTurnAnswers ==
  ASSUME TypeOK, OrderInv, TakenInv, ~resynced, at \notin {"start", "done", "failed"},
         NEW f \in Range(toHost), Reliable(f), f.seq = rxseq_txack
  PROVE  /\ Unanswered /\ Place(board, f) = Accepted /\ Accepted < Len(executed)
         /\ f.kind = at /\ (at = "patch" => f.index = tx_index)
<1>1. /\ Accepted \in Int /\ Sent \in Nat /\ Len(executed) \in Nat /\ board \in Board
      /\ Len(executed) <= Sent
  BY AcceptedType, Ahead
<1>2. f \in Frame /\ tx_index \in 0 .. 127
  BY DEF TypeOK, Range
<1>3. Planned(board, f) /\ Place(board, f) < Len(executed)
  BY DEF OrderInv, UnderWay
<1>4. Place(board, f) \in Int
  BY <1>1, <1>2, <1>3, PlaceType
<1>5. Place(board, f) >= Accepted - 1 /\ rxseq_txack = Accepted % 8
  BY DEF TakenInv
<1>6. Accepted >= Sent - 1 /\ (Accepted = Sent \/ Unanswered)
  BY <1>1, AcceptedIs
<1> DEFINE p == Place(board, f)
           a == Accepted
           e == Len(executed)
<1>7. p = a /\ a < e /\ a < Sent
  <2>1. f.seq = p % 8 /\ f.seq = a % 8
    BY <1>3, <1>5 DEF Planned
  <2>2. p \in Int /\ a \in Int /\ e \in Nat /\ Sent \in Nat /\ p < e /\ p >= a - 1 /\ e <= Sent /\ a >= Sent - 1
    BY <1>1, <1>3, <1>4, <1>5, <1>6
  <2> HIDE DEF p, a, e
  <2>3. p - a \in -7 .. 7
    BY <2>2
  <2>4. p = a
    BY <2>1, <2>2, <2>3, Eight
  <2> QED
    BY <2>2, <2>4
<1>8. Unanswered /\ Place(board, f) = Sent - 1
  BY <1>1, <1>6, <1>7, AcceptedIs
<1>9. f.kind = at /\ (at = "patch" => f.index = tx_index)
  <2>1. /\ at = "lmp" => Sent - 1 = 0
        /\ at = "rom" => Sent - 1 = 1
        /\ at = "rate" => Sent - 1 = RatePlace(board)
        /\ at = "patch" => Sent - 1 = Base(board) + tx_index
    <3>1. RatePlace(board) \in {1, 2} /\ Base(board) \in 1 .. 3
      BY <1>1, PlanSizes
    <3>2. \A m \in 1 .. 3, i \in 0 .. 127 : (m + i + 1) - 1 = m + i /\ (m + 1) - 1 = m
      OBVIOUS
    <3> QED
      BY <1>2, <3>1, <3>2, SentIs
  <2> QED
    BY <1>2, <1>3, <1>8, <2>1, PlaceTells, AcceptedIs
<1> QED
  BY <1>7, <1>8, <1>9

LEMMA TakenReceives ==
  TypeOK /\ LinkInv /\ OrderInv /\ LinkOver /\ TakenInv /\ h5_recv => TakenInv'
<1> SUFFICES ASSUME TypeOK, LinkInv, OrderInv, LinkOver, TakenInv, h5_recv, ~resynced', at' # "failed"
             PROVE  TakenInv'
  BY DEF TakenInv
<1> DEFINE f == Head(toHost)
           e == Len(executed)
<1>1. /\ f \in Range(toHost) /\ f \in Frame /\ Range(toHost') \subseteq Range(toHost)
      /\ toHost' = Tail(toHost) /\ toHost # <<>>
      /\ toCtrl \in Seq(Frame) /\ toHost \in Seq(Frame) /\ rxseq_txack \in 0 .. 7
  BY TailRange DEF h5_recv, TypeOK
<1>2. /\ UNCHANGED <<board, peer, executed, at, tx_index, total_num>>
      /\ OutOfOrder(f) \/ InOrder(f)
      /\ at \notin {"start", "done", "failed"}
  BY DEF h5_recv, world
<1>3. /\ InTurn(board, toHost')
      /\ ~resynced =>
           \A g \in Range(toHost') : Reliable(f) /\ Reliable(g) => Place(board, f) <= Place(board, g)
  <2>1. ~resynced
    BY <1>2 DEF OutOfOrder, InOrder
  <2> QED
    BY <1>1, <1>2, <2>1, TailAt DEF TakenInv
<1> HIDE DEF f
<1>4. ~resynced /\ Sent' = Sent
  BY <1>2 DEF OutOfOrder, InOrder, Sent
<1>5. /\ Accepted \in Int /\ Sent \in Nat /\ e \in Nat /\ board \in Board
      /\ rxseq_txack = Accepted % 8 /\ Accepted <= e
      /\ \A g \in Range(toHost) : Reliable(g) => Place(board, g) >= Accepted - 1
  BY <1>2, <1>4, AcceptedType DEF TakenInv
<1>6. \A g \in Range(toCtrl') : g \in Range(toCtrl) \/ ~Reliable(g)
  <2>1. CASE OutOfOrder(f)
    BY <2>1 DEF OutOfOrder
  <2>2. CASE InOrder(f)
    <3>1. rxseq_txack' \in 0 .. 7
      BY <1>1, <2>2, NextSeqType DEF InOrder, Frame
    <3>2. Grown(toCtrl, toCtrl', Acks) \/ Grown(toCtrl, toCtrl', Unnumbered)
      BY <2>2, <3>1, ReceiverGrows DEF InOrder
    <3> QED
      BY <1>1, <3>2, GrownRange, AcksAre
  <2> QED
    BY <1>2, <2>1, <2>2
<1>7. host_last_cmd' = host_last_cmd \/ host_last_cmd' = NoFrame
  BY <1>2
     DEF OutOfOrder, InOrder, hci_recv_frame, RecvSync, RecvConfig, RecvInit, RecvPatch,
         RecvActive, hci_event_cmd_complete
\* What is left to prove: the host counts the event when it is the one that it waits for.
<1>8. ASSUME rxseq_txack' = Accepted' % 8, Accepted' <= e,
             \A g \in Range(toHost') : Reliable(g) => Place(board, g) >= Accepted' - 1,
             at = "patch" /\ (Unanswered' \/ tx_index < total_num) => link_estab_state' = "H5_PATCH"
      PROVE  TakenInv'
  BY <1>2, <1>3, <1>4, <1>6, <1>7, <1>8 DEF TakenInv
<1>9. CASE OutOfOrder(f)
  <2>1. UNCHANGED <<rxseq_txack, link_estab_state, rx_index, versions>>
    BY <1>9 DEF OutOfOrder
  <2>2. Unanswered' = Unanswered
    BY <1>2, <2>1 DEF Unanswered, versions
  <2>3. Accepted' = Accepted
    BY <1>4, <2>2 DEF Accepted
  <2> QED
    BY <1>1, <1>2, <1>4, <1>5, <1>8, <2>1, <2>2, <2>3 DEF TakenInv
<1>10. CASE InOrder(f) /\ ~Reliable(f)
  <2>1. /\ rxseq_txack' = rxseq_txack /\ hci_recv_frame(f)
        /\ at \in {"rom", "rate", "patch"} => FALSE
    BY <1>1, <1>10 DEF InOrder, LinkOver
  <2>2. UNCHANGED versions
    BY <1>10, <2>1
       DEF hci_recv_frame, RecvSync, RecvConfig, RecvInit, RecvPatch, RecvActive
  <2>3. Unanswered' = Unanswered /\ at # "patch"
    BY <1>2, <2>1, <2>2 DEF Unanswered, versions
  <2>4. Accepted' = Accepted
    BY <1>4, <2>3 DEF Accepted
  <2> QED
    BY <1>1, <1>5, <1>8, <2>1, <2>3, <2>4
<1>11. CASE InOrder(f) /\ Reliable(f)
  <2>1. f.seq = rxseq_txack /\ rxseq_txack' = NextSeq(f.seq) /\ hci_recv_frame(f)
    BY <1>11 DEF InOrder
  <2>2. /\ Unanswered /\ Place(board, f) = Accepted /\ Accepted < e
        /\ f.kind = at /\ (at = "patch" => f.index = tx_index)
    BY <1>1, <1>2, <1>4, <1>11, <2>1, InTurnAnswers
  <2>3. link_estab_state = IF at = "patch" THEN "H5_PATCH" ELSE "H5_INIT"
    BY <1>2, <1>4, <2>2 DEF OrderInv, AnsweredInv, TakenInv, Unanswered
  <2>4. ~Unanswered' /\ (at = "patch" /\ tx_index < total_num => link_estab_state' = "H5_PATCH")
    <3>1. CASE at = "patch"
      <4>1. RecvPatch(f)
        BY <2>1, <2>3, <3>1
           DEF hci_recv_frame, RecvSync, RecvConfig, RecvInit, RecvPatch, RecvActive
      <4>2. Byte6(f) = tx_index
        BY <2>2, <3>1 DEF Byte6
      <4>3. tx_index \in 0 .. 127 /\ total_num \in 0 .. 127
        BY DEF TypeOK
      <4> QED
        BY <1>2, <3>1, <4>1, <4>2, <4>3 DEF RecvPatch, Unanswered
    <3>2. CASE at # "patch"
      <4>1. RecvInit(f)
        BY <2>1, <2>3, <3>2
           DEF hci_recv_frame, RecvSync, RecvConfig, RecvInit, RecvPatch, RecvActive
      <4>2. hci_event_cmd_complete(f)
        BY <1>11, <4>1 DEF RecvInit
      <4> QED
        BY <1>2, <2>2, <3>2, <4>2 DEF hci_event_cmd_complete, Unanswered
    <3> QED
      BY <3>1, <3>2
  <2>5. Accepted' = Accepted + 1
    BY <1>4, <1>5, <2>2, <2>4, AcceptedIs
  <2>6. rxseq_txack' = Accepted' % 8
    BY <1>5, <2>1, <2>5, Eight
  <2>7. Accepted' <= e
    BY <1>5, <2>2, <2>5
  <2>8. \A g \in Range(toHost') : Reliable(g) => Place(board, g) >= Accepted' - 1
    <3>1. Accepted' - 1 = Accepted
      BY <1>5, <2>5
    <3>2. ASSUME NEW g \in Range(toHost'), Reliable(g) PROVE Place(board, g) >= Accepted
      <4>1. Place(board, f) <= Place(board, g) /\ Place(board, f) = Accepted
        BY <1>3, <1>4, <1>11, <2>2, <3>2
      <4>2. Place(board, g) \in Int
        <5>1. g \in Frame /\ Planned(board, g)
          BY <1>1, <3>2 DEF OrderInv, UnderWay, Range
        <5> QED
          BY <1>5, <3>2, <5>1, PlaceType
      <4> QED
        BY <1>5, <4>1, <4>2
    <3> QED
      BY <3>1, <3>2
  <2> QED
    BY <1>8, <2>4, <2>6, <2>7, <2>8
<1> QED
  BY <1>2, <1>9, <1>10, <1>11

\* A command goes out when nothing is outstanding, and carries the number that its event will have.
LEMMA TakenSends ==
  ASSUME TypeOK, OrderInv, OrderInv', TakenInv, ~resynced, at # "failed", at' # "failed", ~Unanswered,
         NEW kind \in Commands, NEW index \in 0 .. 127,
         Send(toCtrl, kind, index) \/ Send(rtk_send_pure_ack_down(toCtrl), kind, index),
         UNCHANGED <<board, peer, executed, toHost, rxseq_txack, resynced>>,
         Sent' = Sent + 1, Unanswered', at' = "patch" => link_estab_state' = "H5_PATCH"
  PROVE  TakenInv'
<1> DEFINE c == h5_prepare_pkt(kind, index)
<1>1. /\ Sent \in Nat /\ Len(executed) \in Nat /\ toCtrl \in Seq(Frame)
      /\ Accepted = Sent /\ Accepted' = Accepted
  <2>1. Sent \in Nat /\ Len(executed) \in Nat
    BY AcceptedType
  <2> QED
    BY <2>1, AcceptedIs DEF TypeOK
<1>2. c.ack = rxseq_txack /\ c.seq = msgq_txseq /\ c \in Frame
  BY FrameTypes DEF h5_prepare_pkt
<1>3. msgq_txseq = Sent % 8 /\ rxseq_txack = Accepted % 8
  BY DEF OrderInv, SentInv, TakenInv
<1>4. /\ host_last_cmd' = c
      /\ \A g \in Range(toCtrl') : g \in Range(toCtrl) \/ ~Reliable(g) \/ g = c
  <2>1. Grown(toCtrl, toCtrl', Acks \cup {c})
    BY HostGrows
  <2>2. host_last_cmd' = c
    BY DEF Send
  <2> HIDE DEF c
  <2> QED
    BY <1>1, <2>1, <2>2, GrownRange, AcksAre
<1> HIDE DEF c
<1>5. c.ack = c.seq
  BY <1>1, <1>2, <1>3
<1> QED
  BY <1>1, <1>4, <1>5 DEF TakenInv

LEMMA TakenGoesOn ==
  TypeOK /\ LinkInv /\ OrderInv /\ OrderInv' /\ TakenInv /\ HostGoesOn => TakenInv'
<1> SUFFICES ASSUME TypeOK, LinkInv, OrderInv, OrderInv', TakenInv, HostGoesOn, ~resynced', at' # "failed"
             PROVE  TakenInv'
  BY DEF TakenInv
<1>1. /\ UNCHANGED <<board, peer, executed, toHost, rxseq_txack, resynced>> /\ at # "failed"
      /\ ~resynced /\ tx_index \in 0 .. 127 /\ total_num \in 0 .. 127 /\ toCtrl \in Seq(Frame)
      /\ rx_index \in -1 .. 127
  BY DEF HostGoesOn, rtk_init, SyncDone, ConfigDone, rtk_get_eversion,
         rtk_vendor_change_speed_h5, NothingToDownload, rtk_download_fw_config,
         hci_download_patch, PatchDone, world, wire, seqs, VersionsKnown, Configured, TypeOK
<1>2. /\ Accepted \in Int /\ Sent \in Nat /\ Len(executed) \in Nat /\ board \in Board
      /\ RatePlace(board) \in {1, 2} /\ Base(board) \in 1 .. 3
  BY <1>1, AcceptedType, PlanSizes
\* A step that sends no command.
<1>3. ASSUME Sent' = Sent, ~Unanswered, ~Unanswered', Grown(toCtrl, toCtrl', Unnumbered),
             UNCHANGED host_last_cmd, at' # "patch"
      PROVE  TakenInv'
  <2>1. \A g \in Range(toCtrl') : g \in Range(toCtrl) \/ ~Reliable(g)
    BY <1>1, <1>3, GrownRange, AcksAre
  <2>2. Accepted' = Accepted
    BY <1>3, AcceptedIs
  <2> QED
    BY <1>1, <1>3, <2>1, <2>2 DEF TakenInv
<1>4. {"lmp", "rom", "rate", "patch"} \subseteq Commands /\ 0 \in 0 .. 127
  BY Kinds
<1> HIDE DEF Send
<1>5. CASE rtk_init \/ SyncDone
  <2>1. /\ at \in {"start", "sync"} /\ at' \in {"sync", "config"} /\ UNCHANGED host_last_cmd
        /\ Grown(toCtrl, toCtrl', Unnumbered)
    BY <1>5, HostGrows DEF rtk_init, SyncDone
  <2>2. Sent' = Sent /\ ~Unanswered /\ ~Unanswered'
    BY <2>1, SentIs DEF Unanswered
  <2> QED
    BY <1>3, <2>1, <2>2
<1>6. CASE ConfigDone
  <2>1. /\ at = "config" /\ at' = "lmp" /\ hci_version_cmd_state' = "cmd_has_sent"
        /\ Send(rtk_send_pure_ack_down(toCtrl), "lmp", 0)
    BY <1>6 DEF ConfigDone
  <2>2. Sent' = Sent + 1 /\ ~Unanswered /\ Unanswered'
    <3>1. Sent = 0 /\ Sent' = 1
      BY <2>1, SentIs
    <3> QED
      BY <2>1, <3>1 DEF Unanswered
  <2> QED
    BY <1>1, <1>4, <2>1, <2>2, TakenSends
<1>7. CASE rtk_get_eversion
  <2>1. /\ at = "lmp" /\ at' = "rom" /\ hci_version_cmd_state = "event_received"
        /\ rom_version_cmd_state' = "cmd_has_sent"
        /\ Send(toCtrl, "rom", 0)
    BY <1>7 DEF rtk_get_eversion
  <2>2. Sent' = Sent + 1 /\ ~Unanswered /\ Unanswered'
    <3>1. Sent = 1 /\ Sent' = 2
      BY <2>1, SentIs
    <3> QED
      BY <2>1, <3>1 DEF Unanswered
  <2> QED
    BY <1>1, <1>4, <2>1, <2>2, TakenSends
<1>8. CASE rtk_vendor_change_speed_h5
  <2>1. VersionsKnown /\ at' = "rate" /\ Send(toCtrl, "rate", 0) /\ UNCHANGED link_estab_state
    BY <1>8 DEF rtk_vendor_change_speed_h5
  <2>2. Sent = RatePlace(board) /\ link_estab_state = "H5_INIT" /\ Sent' = RatePlace(board) + 1
    BY <1>1, <2>1, BeforePatch, SentIs
  <2>3. ~Unanswered /\ Unanswered'
    BY <2>1, <2>2 DEF VersionsKnown, Unanswered
  <2> QED
    BY <1>1, <1>4, <2>1, <2>2, <2>3, TakenSends
<1>9. CASE rtk_download_fw_config
  <2>1. /\ Configured /\ at' = "patch" /\ link_estab_state' = "H5_PATCH"
        /\ rx_index' = -1 /\ tx_index' = 0 /\ Send(toCtrl, "patch", 0)
    BY <1>9 DEF rtk_download_fw_config
  <2>2. Sent = Base(board) /\ Sent' = Sent + 1
    <3>1. Sent = Base(board) /\ Sent' = Base(board) + 0 + 1
      BY <1>1, <2>1, BeforePatch, SentIs
    <3> QED
      BY <1>2, <3>1
  <2>3. ~Unanswered /\ Unanswered'
    BY <2>1 DEF Configured, VersionsKnown, Unanswered
  <2> QED
    BY <1>1, <1>4, <2>1, <2>2, <2>3, TakenSends
<1>10. CASE hci_download_patch
  <2>1. /\ at = "patch" /\ at' = "patch" /\ rx_index = tx_index /\ tx_index < total_num
        /\ tx_index' = tx_index + 1 /\ Send(toCtrl, "patch", tx_index + 1)
        /\ UNCHANGED <<link_estab_state, rx_index>>
    BY <1>10 DEF hci_download_patch
  <2>2. tx_index + 1 \in 0 .. 127 /\ rx_index # tx_index + 1
    BY <1>1, <2>1
  <2>3. Sent' = Sent + 1
    <3>1. Sent = Base(board) + tx_index + 1 /\ Sent' = Base(board) + (tx_index + 1) + 1
      BY <1>1, <2>1, SentIs
    <3>2. \A m \in 1 .. 3, i \in 0 .. 127 : m + (i + 1) + 1 = (m + i + 1) + 1
      OBVIOUS
    <3> QED
      BY <1>1, <1>2, <3>1, <3>2
  <2>4. ~Unanswered /\ Unanswered'
    BY <2>1, <2>2 DEF Unanswered
  <2>5. link_estab_state' = "H5_PATCH"
    BY <1>1, <2>1 DEF TakenInv
  <2> QED
    BY <1>1, <1>4, <2>1, <2>2, <2>3, <2>4, <2>5, TakenSends
<1>11. CASE NothingToDownload \/ PatchDone
  <2>1. at' = "done" /\ UNCHANGED host_last_cmd /\ Grown(toCtrl, toCtrl', Unnumbered)
    <3>1. CASE NothingToDownload
      BY <1>1, <3>1, GrownSame DEF NothingToDownload, wire
    <3>2. CASE PatchDone
      <4>1. Grown(toCtrl, toCtrl', Acks)
        BY <3>2, HostGrows
      <4> QED
        BY <3>2, <4>1, AcksAre DEF PatchDone, Grown
    <3> QED
      BY <1>11, <3>1, <3>2
  <2>2. Sent' = Sent
    <3>1. Sent' = Ends(board)
      BY <1>1, <2>1, SentIs
    <3>2. CASE NothingToDownload
      BY <1>2, <3>1, <3>2, BeforePatch, PlanSizes DEF NothingToDownload
    <3>3. CASE PatchDone
      <4>1. at = "patch" /\ tx_index = PatchTotal(board) /\ board.chunks > 0
        BY <3>3 DEF PatchDone, OrderInv, PatchInv
      <4>2. Ends(board) = Base(board) + PatchTotal(board) + 1
        BY <1>2, <4>1, PlanSizes
      <4> QED
        BY <3>1, <4>1, <4>2, SentIs
    <3> QED
      BY <1>11, <3>2, <3>3
  <2>3. ~Unanswered /\ ~Unanswered'
    BY <1>11, <2>1 DEF NothingToDownload, PatchDone, Configured, VersionsKnown, Unanswered
  <2> QED
    BY <1>3, <2>1, <2>2, <2>3
<1> QED
  BY <1>5, <1>6, <1>7, <1>8, <1>9, <1>10, <1>11 DEF HostGoesOn

LEMMA TakenAlarms == TypeOK /\ OrderInv /\ TakenInv /\ Alarm => TakenInv'
<1> SUFFICES ASSUME TypeOK, OrderInv, TakenInv, Alarm, ~resynced', at' # "failed" PROVE TakenInv'
  BY DEF TakenInv
<1>1. /\ UNCHANGED <<board, peer, executed, link_estab_state, rxseq_txack, host_last_cmd, tx_index,
                     rx_index, total_num, hci_version_cmd_state, rom_version_cmd_state, toHost,
                     resynced>>
      /\ toCtrl \in Seq(Frame) /\ host_last_cmd \in Frame \cup {NoFrame}
  BY DEF Alarm, world, seqs, indices, versions, TypeOK
<1>2. /\ at' = at \/ at' = "failed"
      /\ at \in {"sync", "config"} => Grown(toCtrl, toCtrl', Unnumbered)
      /\ at \notin {"sync", "config"} =>
           toCtrl' = toCtrl \/ (host_last_cmd # NoFrame /\ toCtrl' = Put(toCtrl, host_last_cmd))
  BY AlarmGrows
<1>3. at' = at /\ Unanswered' = Unanswered /\ Sent' = Sent
  <2>1. at' = at
    BY <1>2
  <2> QED
    BY <1>1, <2>1 DEF Unanswered, Sent
<1>4. Accepted' = Accepted
  BY <1>3 DEF Accepted
<1>5. \A g \in Range(toCtrl') : Reliable(g) => g \in Range(toCtrl) \/ (g = host_last_cmd /\ host_last_cmd # NoFrame)
  <2>1. CASE at \in {"sync", "config"}
    BY <1>1, <1>2, <2>1, GrownRange, AcksAre
  <2>2. CASE toCtrl' = toCtrl
    BY <2>2
  <2>3. CASE host_last_cmd # NoFrame /\ toCtrl' = Put(toCtrl, host_last_cmd)
    <3>1. host_last_cmd \in Frame
      BY <1>1, <2>3
    <3>2. Range(toCtrl') \subseteq Range(toCtrl) \cup {host_last_cmd}
      BY <1>1, <2>3, <3>1, PutRange
    <3> QED
      BY <2>3, <3>2
  <2> QED
    BY <1>2, <2>1, <2>2, <2>3
<1> QED
  BY <1>1, <1>3, <1>4, <1>5 DEF TakenInv

\* The ack of a command covers the only event that is not acknowledged.
LEMMA AckCovers ==
  ASSUME TypeOK, CommandInv, OrderInv, Len(peer.unacked) <= 1, NEW f,
         \A g \in Range(peer.unacked) : Place(board, g) = Len(executed) - 1,
         LinkInv, f.seq = peer.expect, f.ack = f.seq
  PROVE  StillUnacked(f.ack) = <<>>
<1> DEFINE queue == peer.unacked
           covered == {i \in DOMAIN queue : NextSeq(queue[i].seq) = f.ack}
           first == CHOOSE i \in covered : TRUE
<1>1. queue \in Seq(Frame) /\ Len(executed) \in Nat
  BY DEF TypeOK
<1>2. covered = DOMAIN queue
  <2>1. ASSUME NEW i \in DOMAIN queue PROVE NextSeq(queue[i].seq) = f.ack
    <3>1. queue[i] \in Range(queue) /\ Reliable(queue[i])
      BY <1>1, <2>1, ElementRange DEF LinkInv
    <3>2. queue[i].seq = Place(board, queue[i]) % 8 /\ Place(board, queue[i]) = Len(executed) - 1
      BY <3>1 DEF OrderInv, UnderWay, Planned
    <3>3. NextSeq((Len(executed) - 1) % 8) = Len(executed) % 8
      <4>1. Len(executed) - 1 \in Int /\ (Len(executed) - 1) + 1 = Len(executed)
        BY <1>1
      <4> QED
        BY <4>1, Eight
    <3>4. peer.expect = Len(executed) % 8
      BY DEF OrderInv, ExecutedInv
    <3> QED
      BY <3>2, <3>3, <3>4
  <2> QED
    BY <2>1
<1>3. CASE covered = {}
  <2>1. queue = <<>>
    BY <1>1, <1>2, <1>3
  <2> QED
    BY <1>3, <2>1 DEF StillUnacked
<1>4. CASE covered # {}
  <2>1. first \in covered
    BY <1>4
  <2>2. first = 1 /\ Len(queue) = 1
    <3>1. first \in 1 .. Len(queue) /\ Len(queue) \in Nat /\ Len(queue) <= 1
      BY <1>1, <1>2, <2>1
    <3>2. \A m \in Nat : \A n \in 1 .. m : m <= 1 => n = 1 /\ m = 1
      OBVIOUS
    <3> QED
      BY <3>1, <3>2
  <2>3. StillUnacked(f.ack) = SubSeq(queue, first + 1, Len(queue))
    BY <1>4 DEF StillUnacked
  <2> HIDE DEF first, covered, queue
  <2> QED
    BY <1>1, <2>2, <2>3
<1> QED
  BY <1>3, <1>4

LEMMA TakenWorld ==
  TypeOK /\ LinkInv /\ CommandInv /\ OrderInv /\ TakenInv
    /\ (PeerAsks \/ PeerReceives \/ PeerRepeats \/ Lose) => TakenInv'
<1> SUFFICES ASSUME TypeOK, LinkInv, CommandInv, OrderInv, TakenInv,
                    PeerAsks \/ PeerReceives \/ PeerRepeats \/ Lose, ~resynced', at' # "failed"
             PROVE  TakenInv'
  BY DEF TakenInv
<1> DEFINE e == Len(executed)
<1>1. UNCHANGED <<board, at, link_estab_state, rxseq_txack, host_last_cmd, tx_index, rx_index,
                  total_num, hci_version_cmd_state, rom_version_cmd_state, resynced>>
  BY DEF PeerAsks, PeerReceives, PeerRepeats, Lose, host, seqs, indices, versions
<1>2. /\ toCtrl \in Seq(Frame) /\ toHost \in Seq(Frame) /\ peer.unacked \in Seq(Frame)
      /\ executed \in Seq(Commands \X (0 .. 127))
      /\ Accepted \in Int /\ e \in Nat /\ board \in Board
  BY <1>1, AcceptedType DEF TypeOK
<1>3. Unanswered' = Unanswered /\ Sent' = Sent
  BY <1>1 DEF Unanswered, Sent
<1>4. Accepted' = Accepted
  BY <1>3 DEF Accepted
<1>5. /\ rxseq_txack = Accepted % 8 /\ Accepted <= e
      /\ \A f \in Range(toCtrl) : Reliable(f) => f.ack = f.seq
      /\ Len(peer.unacked) <= 1
      /\ \A f \in Range(peer.unacked) : Place(board, f) = e - 1
      /\ InTurn(board, toHost)
      /\ \A f \in Range(toHost) : Reliable(f) => Place(board, f) >= Accepted - 1
  BY <1>1 DEF TakenInv
<1>6. \A f \in Range(toHost) : Reliable(f) => Place(board, f) < e /\ Place(board, f) \in Int
  <2>1. ASSUME NEW f \in Range(toHost), Reliable(f) PROVE Place(board, f) < e /\ Place(board, f) \in Int
    <3>1. f \in Frame /\ Planned(board, f) /\ Place(board, f) < e
      BY <1>2, <2>1 DEF OrderInv, UnderWay, Range
    <3> QED
      BY <1>2, <2>1, <3>1, PlaceType
  <2> QED
    BY <2>1
\* What comes to the host is the last event, or none.
<1>7. ASSUME NEW g \in Frame, toHost' = Put(toHost, g), Reliable(g) => Place(board, g) \in {e - 1, e}
      PROVE  /\ InTurn(board, toHost')
             /\ \A f \in Range(toHost') : Reliable(f) => Place(board, f) >= Accepted - 1
  <2>1. Grown(toHost, toHost', {g}) /\ Range(toHost') \subseteq Range(toHost) \cup {g}
    BY <1>2, <1>7, GrownSame, GrownPut, PutRange
  <2>2. ASSUME Reliable(g)
        PROVE  /\ \A f \in Range(toHost) : Reliable(f) => Place(board, f) <= Place(board, g)
               /\ Place(board, g) <= Place(board, g) /\ Place(board, g) >= Accepted - 1
    <3>1. \A m \in Int, n \in Nat : \A p \in {n - 1, n} :
            (m < n => m <= p) /\ (m <= n => p >= m - 1) /\ p <= p
      OBVIOUS
    <3>2. \A f \in Range(toHost) : Reliable(f) => Place(board, f) <= Place(board, g)
      BY <1>2, <1>6, <1>7, <2>2, <3>1
    <3> QED
      BY <1>2, <1>5, <1>7, <2>2, <3>1, <3>2
  <2>3. InTurn(board, toHost')
    BY <1>2, <1>5, <2>1, <2>2, GrownInTurn
  <2> QED
    BY <1>5, <2>1, <2>2, <2>3
<1> HIDE DEF e
<1>8. ASSUME Range(toCtrl') \subseteq Range(toCtrl), executed' = executed,
             Range(peer'.unacked) \subseteq Range(peer.unacked),
             Len(peer'.unacked) <= Len(peer.unacked), peer'.unacked \in Seq(Frame),
             InTurn(board, toHost'),
             \A f \in Range(toHost') : Reliable(f) => Place(board, f) >= Accepted - 1
      PROVE  TakenInv'
  <2>1. Len(peer'.unacked) <= 1
    <3>1. Len(peer'.unacked) \in Nat /\ Len(peer.unacked) \in Nat
      BY <1>2, <1>8
    <3> QED
      BY <1>5, <1>8, <3>1
  <2> QED
    BY <1>1, <1>3, <1>4, <1>5, <1>8, <2>1 DEF TakenInv, e
<1>9. CASE PeerReceives
  <2> DEFINE f == Head(toCtrl)
             event == [f EXCEPT !.seq = peer.seq, !.ack = 0]
  <2>1. /\ f \in Range(toCtrl) /\ f \in Frame /\ toCtrl # <<>> /\ toCtrl' = Tail(toCtrl)
        /\ \/ /\ executed' = executed
              /\ Range(peer'.unacked) \subseteq Range(peer.unacked)
              /\ Len(peer'.unacked) <= Len(peer.unacked)
              /\ \/ UNCHANGED toHost
                 \/ \E g \in Links : toHost' = Put(toHost, g)
           \/ /\ Reliable(f) /\ f.seq = peer.expect
              /\ event \in Frame /\ event.kind = f.kind /\ event.index = f.index
              /\ peer'.unacked = Append(StillUnacked(f.ack), event)
              /\ executed' = Append(executed, <<f.kind, f.index>>)
              /\ toHost' = Put(toHost, event)
    BY <1>9, PeerExecutes
  <2>2. Range(toCtrl') \subseteq Range(toCtrl)
    BY <1>2, <2>1, TailRange
  <2> HIDE DEF f, event
  <2>3. CASE /\ executed' = executed
             /\ Range(peer'.unacked) \subseteq Range(peer.unacked)
             /\ Len(peer'.unacked) <= Len(peer.unacked)
             /\ \/ UNCHANGED toHost
                \/ \E g \in Links : toHost' = Put(toHost, g)
    <3>1. peer'.unacked \in Seq(Frame)
      BY <1>9, PeerTakes DEF PeerTypes
    <3>2. \A g \in Links : g \in Frame /\ ~Reliable(g)
      BY AcksAre
    <3> QED
      BY <1>5, <1>7, <1>8, <2>2, <2>3, <3>1, <3>2
  <2>4. CASE /\ Reliable(f) /\ f.seq = peer.expect
             /\ event \in Frame /\ event.kind = f.kind /\ event.index = f.index
             /\ peer'.unacked = Append(StillUnacked(f.ack), event)
             /\ executed' = Append(executed, <<f.kind, f.index>>)
             /\ toHost' = Put(toHost, event)
    <3>1. Place(board, event) = e
      <4>1. Place(board, f) = e
        BY <2>1, <2>4, NextOne DEF e
      <4> QED
        BY <2>4, <4>1 DEF Place
    <3>2. Len(executed') = e + 1
      <4> DEFINE x == <<f.kind, f.index>>
      <4>1. executed' = Append(executed, x)
        BY <2>4
      <4> HIDE DEF x
      <4> QED
        BY <1>2, <4>1 DEF e
    <3>3. StillUnacked(f.ack) = <<>>
      BY <1>5, <2>1, <2>4, AckCovers DEF e
    <3>4. Len(peer'.unacked) <= 1 /\ \A g \in Range(peer'.unacked) : g = event
      <4>1. peer'.unacked = Append(<<>>, event)
        BY <2>4, <3>3
      <4>2. \A h : Len(Append(<<>>, h)) = 1 /\ \A g \in Range(Append(<<>>, h)) : g = h
        BY DEF Range
      <4> QED
        BY <4>1, <4>2
    <3>5. Accepted <= e + 1 /\ (e + 1) - 1 = e
      BY <1>2, <1>5
    <3>6. InTurn(board, toHost') /\ \A g \in Range(toHost') : Reliable(g) => Place(board, g) >= Accepted - 1
      BY <1>7, <2>4, <3>1
    <3> QED
      BY <1>1, <1>3, <1>4, <1>5, <2>2, <3>1, <3>2, <3>4, <3>5, <3>6 DEF TakenInv
  <2> QED
    BY <2>1, <2>3, <2>4
<1>10. CASE PeerAsks
  <2>1. /\ UNCHANGED <<toCtrl, peer, executed>>
        /\ \E kind \in {"sync", "conf"} : toHost' = Put(toHost, Answer(kind))
    BY <1>10 DEF PeerAsks, Answer
  <2>2. PICK kind \in {"sync", "conf"} : toHost' = Put(toHost, Answer(kind))
    BY <2>1
  <2>3. Answer(kind) \in Frame /\ ~Reliable(Answer(kind))
    BY <2>2, AnswerType, Kinds DEF Reliable
  <2> HIDE DEF Answer
  <2>4. Len(peer.unacked) <= Len(peer.unacked)
    BY <1>2
  <2> QED
    BY <1>2, <1>7, <1>8, <2>1, <2>2, <2>3, <2>4
<1>11. CASE PeerRepeats
  <2>1. PICK i \in DOMAIN peer.unacked : toHost' = Put(toHost, peer.unacked[i])
    BY <1>11 DEF PeerRepeats
  <2>2. peer.unacked[i] \in Frame /\ peer.unacked[i] \in Range(peer.unacked)
    BY <1>2, <2>1, ElementRange
  <2>3. UNCHANGED <<toCtrl, peer, executed>> /\ Len(peer.unacked) <= Len(peer.unacked)
    BY <1>2, <1>11 DEF PeerRepeats
  <2> QED
    BY <1>2, <1>5, <1>7, <1>8, <2>1, <2>2, <2>3
<1>12. CASE Lose
  <2>1. /\ UNCHANGED <<peer, executed>> /\ Len(peer.unacked) <= Len(peer.unacked)
        /\ \/ toCtrl # <<>> /\ toCtrl' = Tail(toCtrl) /\ UNCHANGED toHost
           \/ toHost # <<>> /\ toHost' = Tail(toHost) /\ UNCHANGED toCtrl
    BY <1>2, <1>12 DEF Lose
  <2>2. Range(toCtrl') \subseteq Range(toCtrl) /\ Range(toHost') \subseteq Range(toHost)
    BY <1>2, <2>1, TailRange
  <2>3. InTurn(board, toHost')
    BY <1>2, <1>5, <2>1, TailAt
  <2> QED
    BY <1>2, <1>5, <1>8, <2>1, <2>2, <2>3
<1> QED
  BY <1>9, <1>10, <1>11, <1>12

LEMMA TakenNext ==
  TypeOK /\ LinkInv /\ CommandInv /\ OrderInv /\ LinkOver /\ TakenInv /\ OrderInv' /\ [Next]_vars
    => TakenInv'
<1>1. ASSUME TakenInv, UNCHANGED vars PROVE TakenInv'
  BY <1>1 DEF vars, TakenInv, Accepted, Unanswered, Sent
<1> QED
  BY <1>1, TakenReceives, TakenGoesOn, TakenAlarms, TakenWorld DEF Next

\* After a download the numbers of both sides start again at 0, for every patch: the padding
\* makes the commands a multiple of 8, or one less with a speed from the command line, and every
\* event has been taken, unless the host took over a number out of order.
THEOREM NumbersStartOver == Spec => []SequenceStartsOver
<1>1. TypeOK /\ CommandInv /\ OrderInv /\ TakenInv => SequenceStartsOver
  <2> SUFFICES ASSUME TypeOK, CommandInv, OrderInv, TakenInv,
                      at = "done", board.chunks > 0
               PROVE  LET last == IF board.speed = "config" THEN 0 ELSE 7
                      IN /\ msgq_txseq = last /\ peer.expect = last /\ peer.seq = last
                         /\ resynced \/ rxseq_txack = last
    BY DEF SequenceStartsOver
  <2> DEFINE last == IF board.speed = "config" THEN 0 ELSE 7
  <2>1. board \in Board /\ Ends(board) % 8 = last
    BY H5Assumption, Padding DEF TypeOK
  <2>2. Sent = Ends(board) /\ ~Unanswered /\ Len(executed) = Ends(board)
    BY SentIs DEF Unanswered, OrderInv, AnsweredInv
  <2> HIDE DEF last
  <2>3. msgq_txseq = last /\ peer.expect = last /\ peer.seq = last
    BY <2>1, <2>2 DEF OrderInv, SentInv, ExecutedInv, CommandInv
  <2>4. resynced \/ rxseq_txack = last
    BY <2>1, <2>2, AcceptedIs DEF TakenInv
  <2> QED
    BY <2>3, <2>4 DEF last
<1> QED
  BY <1>1, TypesInit, LinkInit, CommandInit, OrderInit, LinkOverInit, TakenInit,
     TypesNext, LinkNext, CommandNext, OrderNext, LinkOverNext, TakenNext, PTL DEF Spec

=============================================================================
