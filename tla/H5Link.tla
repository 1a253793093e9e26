------------------------------- MODULE H5Link -------------------------------
(***************************************************************************)
(* rtk_hciattach/hciattach_rtk.c: how the bluetooth test attaches a        *)
(* Realtek controller over the three wire (H5) protocol: link              *)
(* establishment, the version and speed commands, the patch download.      *)
(*                                                                         *)
(* The host has no queue of its own: it sends one command, keeps its bytes *)
(* in host_last_cmd, and reads until the answer is there; an alarm resends *)
(* the bytes.  A frame arrives whole or not at all.  The three pure acks   *)
(* that answer one event are one frame here, lost when all three are.      *)
(* The controller is external: it answers, it executes the commands that   *)
(* are in sequence, and it repeats an event until its ack comes.           *)
(***************************************************************************)
EXTENDS Integers, Sequences, SequencesExt

CONSTANTS
  Boards,      \* controllers and their files (Board)
  MaxRetries,  \* bound: H5_MAX_RETRY_COUNT, 40 in the code
  Wire,        \* bound: frames in flight in one direction; there is no flow control
  Losses       \* bound: frames that are lost otherwise

\* chunks: patch packets with data, 0 when the files do not fit the controller, at
\* most RTK_PATCH_LENGTH_MAX bytes in packets of 252; speed: in the config file, or
\* only on the command line.
Board == [rom8723a : BOOLEAN, speed : {"config", "line"}, chunks : 0 .. 98]

ASSUME H5Assumption ==
  /\ Boards \subseteq Board
  /\ MaxRetries \in Nat \ {0} /\ Wire \in Nat \ {0} /\ Losses \in Nat

VARIABLES
  board,
  at,            \* what the host is waiting for
  link_estab_state,
  rxseq_txack,   \* the sequence number that the host expects
  msgq_txseq,    \* the one that it will use
  host_last_cmd,
  tx_index, rx_index, total_num,
  hci_version_cmd_state, rom_version_cmd_state,
  retries,       \* of the handler in charge; each is, once, and its count is static
  handler,       \* how the signal handler is installed
  toCtrl, toHost,\* frames in flight
  peer,          \* the controller: its link, sequence numbers and unacked events
  executed,      \* the commands that it has executed (history)
  losses,        \* frames lost so far
  resynced       \* the host took over a sequence number out of order (history)

wire == <<toCtrl, toHost>>
seqs == <<rxseq_txack, msgq_txseq>>
indices == <<tx_index, rx_index, total_num>>
versions == <<hci_version_cmd_state, rom_version_cmd_state>>
timer == <<retries, handler>>
world == <<board, peer, executed, losses>>
vars == <<board, at, link_estab_state, rxseq_txack, msgq_txseq, host_last_cmd,
          tx_index, rx_index, total_num, hci_version_cmd_state, rom_version_cmd_state,
          retries, handler, toCtrl, toHost, peer, executed, losses, resynced>>

Commands == {"lmp", "rom", "rate", "patch"}
LinkControl == {"sync", "syncresp", "conf", "confresp"}
Frame == [kind : Commands \cup LinkControl \cup {"ack"}, seq : 0 .. 7, ack : 0 .. 7, index : 0 .. 127]
NoFrame == [kind |-> "none", seq |-> 0, ack |-> 0, index |-> 0]

Reliable(f) == f.kind \in Commands

-----------------------------------------------------------------------------
(* Frames.                                                                 *)

\* A frame in flight when Wire others are is overrun.
Put(queue, f) == IF Len(queue) < Wire THEN Append(queue, f) ELSE queue

\* h5_prepare_pkt: the ack rides on every frame; only reliable ones are numbered.
h5_prepare_pkt(kind, index) ==
  [kind |-> kind, seq |-> IF kind \in Commands THEN msgq_txseq ELSE 0,
   ack |-> rxseq_txack, index |-> index]

\* A variant: the mask is missing.
NextSeqUnmasked(s) == s + 1

NextSeq(s) == (s + 1) % 8

\* A command goes out behind what queue holds, and is kept for the alarm.
Send(queue, kind, index) ==
  /\ host_last_cmd' = h5_prepare_pkt(kind, index)
  /\ msgq_txseq' = NextSeq(msgq_txseq)
  /\ toCtrl' = Put(queue, h5_prepare_pkt(kind, index))

rtk_send_pure_ack_down(queue) == Put(queue, h5_prepare_pkt("ack", 0))

\* sigaction with a cleared sa, or with whatever sa_flags is on the stack.
Cleared == retries' = 0 /\ handler' = "kept"
Uncleared(n) == retries' = n /\ handler' \in {"kept", "once"}

-----------------------------------------------------------------------------
(* What the host receives.                                                 *)

\* Out of order.  The number is read from the skb after skb_free, which
\* leaves it alone or puts the null link of a free chunk in its place.
OutOfOrder(f) ==
  /\ Reliable(f) /\ f.seq # rxseq_txack
  /\ IF tx_index = total_num
     THEN rxseq_txack' \in {f.seq, 0} /\ resynced' = TRUE
     ELSE UNCHANGED <<rxseq_txack, resynced>>
  /\ UNCHANGED <<link_estab_state, host_last_cmd, rx_index, versions, toCtrl>>

\* hci_event_cmd_complete: by opcode, whatever command is outstanding.
hci_event_cmd_complete(f) ==
  /\ host_last_cmd' = NoFrame
  /\ link_estab_state' = IF f.kind = "rate" THEN "H5_PATCH" ELSE link_estab_state
  /\ hci_version_cmd_state' = IF f.kind = "lmp" THEN "event_received" ELSE hci_version_cmd_state
  /\ rom_version_cmd_state' = IF f.kind = "rom" THEN "event_received" ELSE rom_version_cmd_state

\* Byte 6 of what is left of a frame: the patch index, or what lies there.
Byte6(f) == IF f.kind = "patch" THEN f.index ELSE IF f.kind = "rate" THEN 1 ELSE 0

RecvSync(f) ==
  /\ link_estab_state = "H5_SYNC"
  /\ toCtrl' = IF f.kind = "sync" THEN Put(toCtrl, h5_prepare_pkt("syncresp", 0)) ELSE toCtrl
  /\ link_estab_state' = IF f.kind = "syncresp" THEN "H5_CONFIG" ELSE "H5_SYNC"
  /\ UNCHANGED <<host_last_cmd, rx_index, versions>>

\* A variant: the configuration of the peer counts as the answer to one's own.
RecvConfigEither(f) ==
  /\ link_estab_state = "H5_CONFIG"
  /\ link_estab_state' = IF f.kind \in {"conf", "confresp"} THEN "H5_INIT" ELSE "H5_CONFIG"
  /\ toCtrl' = CASE f.kind = "sync" -> Put(toCtrl, h5_prepare_pkt("syncresp", 0))
                 [] f.kind = "conf" -> Put(toCtrl, h5_prepare_pkt("confresp", 0))
                 [] f.kind = "confresp" -> toCtrl
                 [] OTHER -> rtk_send_pure_ack_down(toCtrl)
  /\ UNCHANGED <<host_last_cmd, rx_index, versions>>

RecvConfig(f) ==
  /\ link_estab_state = "H5_CONFIG"
  /\ link_estab_state' = IF f.kind = "confresp" THEN "H5_INIT" ELSE "H5_CONFIG"
  /\ toCtrl' = CASE f.kind = "sync" -> Put(toCtrl, h5_prepare_pkt("syncresp", 0))
                 [] f.kind = "conf" -> Put(toCtrl, h5_prepare_pkt("confresp", 0))
                 [] f.kind = "confresp" -> toCtrl
                 [] OTHER -> rtk_send_pure_ack_down(toCtrl)
  /\ UNCHANGED <<host_last_cmd, rx_index, versions>>

\* The ack already carries the next number: h5_complete_rx_pkt has counted.
RecvInit(f) ==
  /\ link_estab_state = "H5_INIT"
  /\ IF Reliable(f)
     THEN hci_event_cmd_complete(f)
     ELSE UNCHANGED <<host_last_cmd, link_estab_state, versions>>
  /\ toCtrl' = Put(toCtrl, [h5_prepare_pkt("ack", 0) EXCEPT !.ack = rxseq_txack'])
  /\ UNCHANGED rx_index

\* No ack: the next patch packet carries it.
RecvPatch(f) ==
  /\ link_estab_state = "H5_PATCH"
  /\ rx_index' = Byte6(f)
  /\ link_estab_state' = IF Byte6(f) = total_num THEN "H5_ACTIVE" ELSE "H5_PATCH"
  /\ UNCHANGED <<host_last_cmd, versions, toCtrl>>

RecvActive == link_estab_state = "H5_ACTIVE" /\ UNCHANGED <<link_estab_state, host_last_cmd, rx_index, versions, toCtrl>>

hci_recv_frame(f) == RecvSync(f) \/ RecvConfig(f) \/ RecvInit(f) \/ RecvPatch(f) \/ RecvActive

\* A variant: a number out of order is not noticed.
InOrderAny(f) ==
  /\ rxseq_txack' = IF Reliable(f) THEN NextSeq(f.seq) ELSE rxseq_txack
  /\ hci_recv_frame(f)
  /\ UNCHANGED resynced

\* h5_complete_rx_pkt counts a reliable frame, then passes it up.
InOrder(f) ==
  /\ Reliable(f) => f.seq = rxseq_txack
  /\ rxseq_txack' = IF Reliable(f) THEN NextSeq(f.seq) ELSE rxseq_txack
  /\ hci_recv_frame(f)
  /\ UNCHANGED resynced

\* One frame of h5_recv.  One read may bring frames behind the one waited for.
h5_recv ==
  /\ at \notin {"start", "done", "failed"}
  /\ toHost # <<>>
  /\ toHost' = Tail(toHost)
  /\ \/ OutOfOrder(Head(toHost))
     \/ InOrder(Head(toHost))
  /\ UNCHANGED <<world, at, msgq_txseq, tx_index, total_num, timer>>

-----------------------------------------------------------------------------
(* What the host does when the loop that waits has ended.                  *)

Init ==
  /\ board \in Boards
  /\ at = "start"
  /\ link_estab_state = "H5_SYNC"
  /\ rxseq_txack = 0 /\ msgq_txseq = 0
  /\ host_last_cmd = NoFrame
  /\ tx_index = 0 /\ rx_index = 0 /\ total_num = 0
  /\ hci_version_cmd_state = "cmd_not_send" /\ rom_version_cmd_state = "cmd_not_send"
  /\ retries = 0 /\ handler = "kept"
  /\ toCtrl = <<>> /\ toHost = <<>>
  /\ peer = [link |-> "boot", expect |-> 0, seq |-> 0, unacked |-> <<>>]
  /\ executed = <<>>
  /\ losses = 0
  /\ resynced = FALSE

\* rtk_init and rtk_init_h5, which calls the alarm handler to send the first sync.
rtk_init ==
  /\ at = "start"
  /\ at' = "sync"
  /\ toCtrl' = Put(toCtrl, h5_prepare_pkt("sync", 0))
  /\ retries' = 1
  /\ UNCHANGED <<world, link_estab_state, seqs, host_last_cmd, indices, versions,
                 handler, toHost, resynced>>

SyncDone ==
  /\ at = "sync" /\ link_estab_state # "H5_SYNC"
  /\ at' = "config"
  /\ toCtrl' = Put(toCtrl, h5_prepare_pkt("conf", 0))
  /\ retries' = 1
  /\ UNCHANGED <<world, link_estab_state, seqs, host_last_cmd, indices, versions,
                 handler, toHost, resynced>>

\* The end of rtk_init_h5, then rtk_get_lmp_version of rtk_get_final_patch.
ConfigDone ==
  /\ at = "config" /\ link_estab_state # "H5_CONFIG"
  /\ at' = "lmp"
  /\ Send(rtk_send_pure_ack_down(toCtrl), "lmp", 0)
  /\ hci_version_cmd_state' = "cmd_has_sent"
  /\ rom_version_cmd_state' = "cmd_not_send"
  /\ Cleared
  /\ UNCHANGED <<world, link_estab_state, rxseq_txack, indices, toHost, resynced>>

\* rtk_get_eversion; the 8723a needs none.
rtk_get_eversion ==
  /\ at = "lmp" /\ hci_version_cmd_state = "event_received"
  /\ ~board.rom8723a
  /\ at' = "rom"
  /\ Send(toCtrl, "rom", 0)
  /\ rom_version_cmd_state' = "cmd_has_sent"
  /\ Cleared
  /\ UNCHANGED <<world, link_estab_state, rxseq_txack, indices, hci_version_cmd_state,
                 toHost, resynced>>

VersionsKnown ==
  \/ at = "lmp" /\ hci_version_cmd_state = "event_received" /\ board.rom8723a
  \/ at = "rom" /\ rom_version_cmd_state = "event_received"

rtk_vendor_change_speed_h5 ==
  /\ VersionsKnown
  /\ board.speed = "config"
  /\ at' = "rate"
  /\ Send(toCtrl, "rate", 0)
  /\ Uncleared(0)
  /\ UNCHANGED <<world, link_estab_state, rxseq_txack, indices, versions, toHost, resynced>>

\* The commands sent so far, as rtk_download_fw_config counts them: each version
\* command that was sent, and one for the speed, sent or not: from the config file,
\* from the command line, or the 0x701D that stands for one not in the table, it is
\* never 0.
CmdSentNum(b) == 2 + (IF b.rom8723a THEN 0 ELSE 1)

\* A variant: the padding counts the packets from 0.
PatchTotalShort(b) == LET n == b.chunks - 1 + CmdSentNum(b) IN b.chunks - 1 + ((8 - (n % 8)) % 8)

\* The index of the last packet: empty ones bring the sequence number back to 0.
PatchTotal(b) == LET n == b.chunks + CmdSentNum(b) IN b.chunks - 1 + ((8 - (n % 8)) % 8)

\* The rest of rtk_config, when nothing has to be waited for any more.
Configured ==
  \/ VersionsKnown /\ board.speed # "config"
  \/ at = "rate" /\ link_estab_state # "H5_INIT"

NothingToDownload ==
  /\ Configured
  /\ board.chunks = 0
  /\ at' = "done"
  /\ UNCHANGED <<world, link_estab_state, seqs, host_last_cmd, indices, versions,
                 timer, wire, resynced>>

rtk_download_fw_config ==
  /\ Configured
  /\ board.chunks > 0
  /\ at' = "patch"
  /\ link_estab_state' = "H5_PATCH"
  /\ total_num' = PatchTotal(board)
  /\ rx_index' = -1 /\ tx_index' = 0
  /\ Send(toCtrl, "patch", 0)
  /\ Uncleared(0)
  /\ UNCHANGED <<world, rxseq_txack, versions, toHost, resynced>>

\* hci_download_patch returns, and is called with the next packet.
hci_download_patch ==
  /\ at = "patch" /\ rx_index = tx_index /\ tx_index < total_num
  /\ tx_index' = tx_index + 1
  /\ Send(toCtrl, "patch", tx_index + 1)
  /\ Uncleared(retries)
  /\ UNCHANGED <<world, at, link_estab_state, rxseq_txack, rx_index, total_num, versions,
                 toHost, resynced>>

PatchDone ==
  /\ at = "patch" /\ rx_index = tx_index /\ tx_index = total_num
  /\ at' = "done"
  /\ toCtrl' = rtk_send_pure_ack_down(toCtrl)
  /\ UNCHANGED <<world, link_estab_state, seqs, host_last_cmd, indices, versions,
                 timer, toHost, resynced>>

HostGoesOn ==
  \/ rtk_init \/ SyncDone \/ ConfigDone \/ rtk_get_eversion \/ rtk_vendor_change_speed_h5
  \/ NothingToDownload \/ rtk_download_fw_config \/ hci_download_patch \/ PatchDone

-----------------------------------------------------------------------------
(* The alarm.  It stands until the loop that waits has ended and alarm(0)  *)
(* is reached, a little later than the answer.                             *)

Exit ==
  /\ at' = "failed"
  /\ UNCHANGED <<toCtrl, timer>>

Resend(queue) ==
  /\ retries' = retries + 1
  /\ handler' = IF handler = "once" THEN "spent" ELSE handler
  /\ toCtrl' = queue
  /\ at' = at

\* h5_tsync_sig_alarm and h5_tconf_sig_alarm make a new frame.
LinkAlarm ==
  /\ at \in {"sync", "config"}
  /\ IF retries < MaxRetries
     THEN Resend(Put(toCtrl, h5_prepare_pkt(IF at = "sync" THEN "sync" ELSE "conf", 0)))
     ELSE Exit

\* A variant: the command is prepared again instead of sent as it was.
AgainPrepared == IF host_last_cmd = NoFrame THEN toCtrl ELSE Put(toCtrl, h5_prepare_pkt(host_last_cmd.kind, host_last_cmd.index))

Again == IF host_last_cmd = NoFrame THEN toCtrl ELSE Put(toCtrl, host_last_cmd)

\* A variant: the handler of the patch forgets to count.
CommandAlarmEndless ==
  /\ at \in {"lmp", "rom", "patch"}
  /\ IF retries < MaxRetries /\ handler # "spent"
     THEN toCtrl' = Again /\ UNCHANGED <<at, timer>>
     ELSE Exit

\* The handlers of the versions and of the patch do without a stored command.
CommandAlarm ==
  /\ at \in {"lmp", "rom", "patch"}
  /\ IF retries < MaxRetries /\ handler # "spent" THEN Resend(Again) ELSE Exit

\* h5_tinit_sig_alarm does not.
RateAlarm ==
  /\ at = "rate"
  /\ IF retries < MaxRetries /\ handler # "spent" /\ host_last_cmd # NoFrame
     THEN Resend(Again)
     ELSE Exit

Alarm ==
  /\ LinkAlarm \/ CommandAlarm \/ RateAlarm
  /\ UNCHANGED <<world, link_estab_state, seqs, host_last_cmd, indices, versions,
                 toHost, resynced>>

-----------------------------------------------------------------------------
(* The controller and the line.                                            *)

host == <<board, at, link_estab_state, seqs, host_last_cmd, indices, versions, timer, resynced>>

\* It may ask for the link as well, until the host has configured it.
PeerAsks ==
  /\ peer.link # "configured"
  /\ toHost' = Put(toHost, [NoFrame EXCEPT !.kind = IF peer.link = "boot" THEN "sync" ELSE "conf"])
  /\ UNCHANGED <<host, toCtrl, peer, executed, losses>>

\* The events that ack covers.
StillUnacked(ack) ==
  LET covered == {i \in DOMAIN peer.unacked : NextSeq(peer.unacked[i].seq) = ack}
  IN IF covered = {} THEN peer.unacked
     ELSE SubSeq(peer.unacked, (CHOOSE i \in covered : TRUE) + 1, Len(peer.unacked))

Answer(kind) == [NoFrame EXCEPT !.kind = kind]

PeerLink(f) ==
  /\ f.kind \in LinkControl
  /\ \/ /\ f.kind = "sync"
        /\ peer' = [peer EXCEPT !.link = IF @ = "boot" THEN "synced" ELSE @]
        /\ toHost' = Put(toHost, Answer("syncresp"))
     \/ /\ f.kind = "conf" /\ peer.link # "boot"
        /\ peer' = [peer EXCEPT !.link = "configured"]
        /\ toHost' = Put(toHost, Answer("confresp"))
     \/ /\ f.kind # "sync" /\ (f.kind = "conf" => peer.link = "boot")
        /\ UNCHANGED <<peer, toHost>>
  /\ UNCHANGED executed

\* A command in sequence is executed, one that came before is not.
PeerCommand(f) ==
  /\ f.kind \notin LinkControl
  /\ LET left == StillUnacked(f.ack)
         event == [f EXCEPT !.seq = peer.seq, !.ack = 0]
     IN IF Reliable(f) /\ f.seq = peer.expect /\ peer.link = "configured"
        THEN /\ peer' = [peer EXCEPT !.expect = NextSeq(@), !.seq = NextSeq(@),
                                     !.unacked = Append(left, event)]
             /\ executed' = Append(executed, <<f.kind, f.index>>)
             /\ toHost' = Put(toHost, event)
        ELSE /\ peer' = [peer EXCEPT !.unacked = left]
             /\ UNCHANGED <<executed, toHost>>

PeerReceives ==
  /\ toCtrl # <<>>
  /\ toCtrl' = Tail(toCtrl)
  /\ PeerLink(Head(toCtrl)) \/ PeerCommand(Head(toCtrl))
  /\ UNCHANGED <<host, losses>>

PeerRepeats ==
  /\ at # "done"
  /\ \E i \in DOMAIN peer.unacked : toHost' = Put(toHost, peer.unacked[i])
  /\ UNCHANGED <<host, toCtrl, peer, executed, losses>>

Lose ==
  /\ losses < Losses
  /\ losses' = losses + 1
  /\ \/ toCtrl # <<>> /\ toCtrl' = Tail(toCtrl) /\ UNCHANGED toHost
     \/ toHost # <<>> /\ toHost' = Tail(toHost) /\ UNCHANGED toCtrl
  /\ UNCHANGED <<host, peer, executed>>

-----------------------------------------------------------------------------
Next == h5_recv \/ HostGoesOn \/ Alarm \/ PeerAsks \/ PeerReceives \/ PeerRepeats \/ Lose

Spec == Init /\ [][Next]_vars

\* The kernel schedules the process and delivers its alarm.
FairSpec == Spec /\ WF_vars(HostGoesOn) /\ WF_vars(h5_recv) /\ WF_vars(Alarm)

-----------------------------------------------------------------------------
\* Every value is one that the code's variables can hold.
TypeOK ==
  /\ board \in Boards
  /\ at \in {"start", "sync", "config", "lmp", "rom", "rate", "patch", "done", "failed"}
  /\ link_estab_state \in {"H5_SYNC", "H5_CONFIG", "H5_INIT", "H5_PATCH", "H5_ACTIVE"}
  /\ rxseq_txack \in 0 .. 7 /\ msgq_txseq \in 0 .. 7
  /\ host_last_cmd \in Frame \cup {NoFrame}
  /\ tx_index \in 0 .. 127 /\ rx_index \in -1 .. 127 /\ total_num \in 0 .. 127
  /\ hci_version_cmd_state \in {"cmd_not_send", "cmd_has_sent", "event_received"}
  /\ rom_version_cmd_state \in {"cmd_not_send", "cmd_has_sent", "event_received"}
  /\ retries \in 0 .. MaxRetries /\ handler \in {"kept", "once", "spent"}
  /\ toCtrl \in Seq(Frame) /\ toHost \in Seq(Frame)
  /\ peer \in [link : {"boot", "synced", "configured"}, expect : 0 .. 7, seq : 0 .. 7,
               unacked : Seq(Frame)]
  /\ executed \in Seq(Commands \X (0 .. 127))
  /\ losses \in 0 .. Losses
  /\ resynced \in BOOLEAN

\* What the controller should execute, in this order.
Plan(b) ==
  <<<<"lmp", 0>>>>
  \o (IF b.rom8723a THEN <<>> ELSE <<<<"rom", 0>>>>)
  \o (IF b.speed = "config" THEN <<<<"rate", 0>>>> ELSE <<>>)
  \o (IF b.chunks = 0 THEN <<>> ELSE [i \in 1 .. PatchTotal(b) + 1 |-> <<"patch", i - 1>>])

\* Whatever is lost, repeated or late, the controller executes each command once
\* and in order, and all of them when the host says that it is done
\* (h5_prepare_pkt's numbers, the stored command, the echo of the patch index).
ExecutesPlan ==
  /\ IsPrefix(executed, Plan(board))
  /\ at = "done" => executed = Plan(board)

\* The host sends commands only when the controller has taken its configuration:
\* one side's handshake is never over before the other has answered it.
CommandsOnlyWhenConfigured ==
  link_estab_state \notin {"H5_SYNC", "H5_CONFIG"} => peer.link = "configured"

\* After a download all sequence numbers are back at 0, where the driver that takes
\* over will start (the padding of rtk_download_fw_config).  With a speed from the
\* command line, counted as a command that was never sent, they all stop one short
\* of it.  The host's expectation is the exception, when it took over a number out
\* of order.
SequenceStartsOver ==
  LET last == IF board.speed = "config" THEN 0 ELSE 7
  IN at = "done" /\ board.chunks > 0 =>
       /\ msgq_txseq = last /\ peer.expect = last /\ peer.seq = last
       /\ resynced \/ rxseq_txack = last

Unanswered ==
  \/ at = "lmp" /\ hci_version_cmd_state # "event_received"
  \/ at = "rom" /\ rom_version_cmd_state # "event_received"
  \/ at = "rate" /\ link_estab_state = "H5_INIT"
  \/ at = "patch" /\ rx_index # tx_index

\* While an answer is missing, the command that an alarm would send again is the
\* one that is outstanding, unless the host took over a sequence number out of
\* order: then an event that comes twice frees the next command.
CommandKept ==
  Unanswered /\ ~resynced =>
    /\ host_last_cmd.kind = at
    /\ host_last_cmd.seq = (msgq_txseq + 7) % 8

\* Attaching comes to an end, good or bad, however often the controller repeats
\* itself and whatever the line does (the static counts of the alarm handlers).
Terminates == <>(at \in {"done", "failed"})

=============================================================================
