---------------------------- MODULE UsbkProtocol ----------------------------
(***************************************************************************)
(* The numbers that travel between the application, the library and the    *)
(* device: results of the library (libusbk.h), states and verdicts of the  *)
(* device (uip.h), opcodes and results of the SCSI layer (usbk_scsi.h).    *)
(* They are numbers and not model values because the library computes with *)
(* them: it subtracts one from a verdict and negates results.              *)
(***************************************************************************)
EXTENDS Integers

(* Device states, the same numbers in libusbk.h and in uip.h.              *)
USBK_DS_ACTIVATE               == 1
USBK_DS_ACTIVATE_WITH_BACKDISK == 2
USBK_DS_DEACTIVATE             == 3
USBK_DS_FABRIC_DEFAULT         == 4
USBK_DS_MUST_REMOVE            == 5

USBK_DS == 1 .. 5

(* Results of the library, what the field lastopr is documented to hold.   *)
USBK_LO_PASS          == 0
USBK_LO_INVALID_KEYNO == 5
USBK_LO_INVALID_KEYSIZE == 6
USBK_LO_INVALID_PASS  == 8
USBK_LO_STATE_ERROR   == 10
USBK_LO_SCSI_ERROR    == 11
USBK_LO_INVALID_KEY   == 13
USBK_LO_UDEV_ERROR    == 14
USBK_LO_MEM_ERROR     == 15

USBK_LO == 0 .. 15

(* Verdicts of the device on the last command it executed.                 *)
OPRS_PASS           == 1
OPRS_GEN_FAIL       == 2
OPRS_FAILED_PASS    == 3
OPRS_FABRIC_RESET   == 4
OPRS_USBK_UNPLUGING == 5
OPRS_INVALID_KEYNO  == 6
OPRS_INVALID_NEWPASS == 10

OPRS == 1 .. 10

(* Vendor specific commands that change the device or make it work; the    *)
(* two queries GET_STATUS and GET_DEV_INFO are operations of their own in  *)
(* the model of the library.                                               *)
ACTIVATE_KEY    == 3
DEACTIVATE_KEY  == 4
CHANGE_PASS     == 5
SET_DEV_NAME    == 6
SET_AUTO_ACTIVE == 7
SET_KEY         == 8
GENERATE_KEY    == 9

Opcodes == 3 .. 9

(* What a SET_KEY command carries.                                         *)
SETKEY_NAMEONLY     == 0
SETKEY_NAME_AND_KEY == 1

(* Key sizes of the interface: none, 128, 192 and 256 bits.                *)
KEYSIZE_NULL   == 0
KEYSIZE_128BIT == 1
KEYSIZE_192BIT == 2
KEYSIZE_256BIT == 3

KEYSIZE == 0 .. 3

(* Results of the SCSI layer and of the SG layer below it.                 *)
USBK_SCSI_PASS          == 0
USBK_SCSI_OPEN_FAIL     == -1
USBK_SCSI_TRANSFER_FAIL == -2

USBK_SG_PASS             == 0
USBK_SG_ERR_NOT_DEVICE   == -2
USBK_SG_ERR_IOCTL_SCSI   == -3
USBK_SG_ERR_COMMAND_FAIL == -4

(* A number stored in a field of type uint8_t.                             *)
Byte(n) == n % 256

=============================================================================
