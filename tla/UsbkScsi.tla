------------------------------ MODULE UsbkScsi ------------------------------
(***************************************************************************)
(* The transport of the library: usbk_scsi.c over linux/usbk_sg_ctl.c.     *)
(* One exchange opens the device node, sends one command with its data and *)
(* closes the node.  Exchanges are independent: nothing ties a command and *)
(* the GET_STATUS that follows it together, so every operator below says   *)
(* what one exchange may do, given whether the device is plugged in and    *)
(* how many file descriptors of the process are already lost.              *)
(*                                                                         *)
(* An exchange ends within the timeout of 1000 ms.  When it fails the      *)
(* command may or may not have been executed, and the node stays open: the *)
(* early return skips usbk_sg_close.                                       *)
(***************************************************************************)
EXTENDS UsbkProtocol

CONSTANT MaxFds     \* file descriptors a process may hold (RLIMIT_NOFILE)

ASSUME FdsAssumption == MaxFds \in Nat /\ MaxFds >= 1

usbk_sg_open(plugged, fds) ==
    IF plugged /\ fds < MaxFds THEN USBK_SG_PASS ELSE USBK_SG_ERR_NOT_DEVICE

(* What the ioctl may report, and whether the device executed the command: *)
(* it did if the exchange passed, and nobody knows if it did not.          *)
usbk_sg_tansfer ==
    {[rtn |-> USBK_SG_PASS, executed |-> TRUE]}
    \cup [rtn : {USBK_SG_ERR_IOCTL_SCSI, USBK_SG_ERR_COMMAND_FAIL},
          executed : BOOLEAN]

(* Variants: the result of the transfer not looked at; the node never      *)
(* closed.                                                                 *)
Exchange_Unchecked(io, fds) ==
    [rtn |-> USBK_SCSI_PASS, executed |-> io.executed, fds |-> fds]

Exchange_NeverClosed(io, fds) ==
    [rtn |-> IF io.rtn < 0 THEN USBK_SCSI_TRANSFER_FAIL ELSE USBK_SCSI_PASS,
     executed |-> io.executed, fds |-> fds + 1]

(* The exchange on an open node: its result, whether the device executed   *)
(* the command, and the descriptors that stay open afterwards.             *)
Exchange(io, fds) ==
    IF io.rtn < 0
    THEN [rtn |-> USBK_SCSI_TRANSFER_FAIL, executed |-> io.executed, fds |-> fds + 1]
    ELSE [rtn |-> USBK_SCSI_PASS, executed |-> io.executed, fds |-> fds]

send_scsi_command(plugged, fds) ==
    IF usbk_sg_open(plugged, fds) < 0
    THEN {[rtn |-> USBK_SCSI_OPEN_FAIL, executed |-> FALSE, fds |-> fds]}
    ELSE {Exchange(io, fds) : io \in usbk_sg_tansfer}

=============================================================================
