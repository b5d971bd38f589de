----------------------------- MODULE MCUsbkList -----------------------------
(***************************************************************************)
(* Bounds for model-checking UsbkList.                                     *)
(***************************************************************************)
EXTENDS UsbkList

(* No step reads the data of an entry, and of a list that was not returned *)
(* only that its memory is gone matters.  What the properties ask of an    *)
(* entry: the serial numbers while its name has not moved, the result      *)
(* since the last GET_DEV_INFO, label and state where that result is PASS. *)
EntryView(e) ==
    CASE heap[e] = Free -> Free
      [] e \in lost     -> Null
      [] OTHER          ->
            <<heap[e].dev, heap[e].next,
              IF heap[e].dev \in moved THEN Null
              ELSE <<heap[e].usb_serial, heap[e].serial>>,
              CASE heap[e].dev \notin asked       -> Null
                [] heap[e].lastopr # USBK_LO_PASS -> USBK_LO_SCSI_ERROR
                [] OTHER -> <<heap[e].dev_label, heap[e].dev_state>>>>

ListView ==
    <<outside, pc, todo, new_usbk, usbks, lost, [e \in Ids |-> EntryView(e)],
      list_entry, fds, moved, asked, quiet>>

=============================================================================
