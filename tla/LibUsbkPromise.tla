--------------------------- MODULE LibUsbkPromise ---------------------------
(***************************************************************************)
(* LibUsbk implements UsbkAtomic: the two exchanges of a call, the cached  *)
(* handles, lost replies and lost descriptors come to nothing more than    *)
(* commands that take effect once and verdicts that are told later.        *)
(***************************************************************************)
EXTENDS LibUsbk

(* A process is owed a verdict while it waits for a status.                *)
Owed ==
    [c \in Clients |-> CASE pc[c] \notin Awaiting -> 0
                         [] pc[c] \in Awaiting /\ sent[c].disturbed  -> 11
                         [] pc[c] \in Awaiting /\ ~sent[c].disturbed -> sent[c].verdict]

(* The result it was given last is in its handle.                          *)
Given == [c \in Clients |-> Abs(handle[c].lastopr)]

Atomic == INSTANCE UsbkAtomic WITH
    Factory <- FactoryDevice, device <- dev, owed <- Owed, answer <- Given

(* Whatever processes do at the same time, whatever is lost and whenever   *)
(* the device is unplugged: a call that does not end in an error of the    *)
(* transport was refused without touching the device, or its command took  *)
(* effect exactly once, between its beginning and its end, and its result  *)
(* is the verdict on that command, unless another use of the device came   *)
(* in between.  A failed call has at most executed its command once.       *)
KeepsPromise == Atomic!Spec

=============================================================================
