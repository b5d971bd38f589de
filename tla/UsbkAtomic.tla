----------------------------- MODULE UsbkAtomic -----------------------------
(***************************************************************************)
(* What the library promises its callers, without the exchanges, the       *)
(* handles and the descriptors it takes.  A command takes effect in one    *)
(* step, at most once, and the device owes its verdict to the caller; the  *)
(* caller is given that verdict, or hears of an error that says nothing    *)
(* about the command.  Only a caller in whose way another use of the       *)
(* device came may be given anything.                                      *)
(*                                                                         *)
(* The device is any that executes commands and leaves a verdict: what     *)
(* they do is a parameter.                                                 *)
(***************************************************************************)
EXTENDS UsbkProtocol

CONSTANTS
    Clients,            \* callers
    Requests,           \* commands they may ask for
    Factory,            \* the device at first
    Executed(_, _),     \* the devices that may result from a command
    PoweredOn(_)        \* the device after a replug

VARIABLES
    device,     \* the device; device.lastop is its last verdict
    owed,       \* owed[c]: the verdict on c's command, still to be told
    answer      \* answer[c]: the last result c was given, without its sign

Nothing  == 0       \* no verdict is owed
Anything == 11      \* the one that is owed may have been overwritten

vars == <<device, owed, answer>>

Init ==
    /\ device = Factory
    /\ owed = [c \in Clients |-> Nothing]
    /\ answer = [c \in Clients |-> USBK_LO_PASS]

(* Verdicts that somebody still waits for, when others use the device.     *)
Overwritten(others) ==
    [c \in Clients |-> IF c \in others /\ owed[c] # Nothing THEN Anything ELSE owed[c]]

(* A call is refused without a command, and the caller is not told PASS.   *)
Refuse(c) ==
    /\ owed[c] = Nothing
    /\ \E r \in {USBK_LO_INVALID_KEYNO, USBK_LO_INVALID_KEYSIZE, USBK_LO_STATE_ERROR} :
          answer' = [answer EXCEPT ![c] = r]
    /\ UNCHANGED <<device, owed>>

(* The device executes a command of c.                                     *)
Command(c) ==
    /\ owed[c] = Nothing
    /\ UNCHANGED answer
    /\ owed' = [Overwritten(Clients \ {c}) EXCEPT ![c] = device'.lastop]
    /\ \E m \in Requests : device' \in Executed(device, m)

(* The command or its reply is lost, and c hears of it at once.            *)
Lose(c) ==
    /\ owed[c] = Nothing
    /\ answer' = [answer EXCEPT ![c] = USBK_LO_SCSI_ERROR]
    /\ \/ UNCHANGED <<device, owed>>
       \/ /\ owed' = Overwritten(Clients \ {c})
          /\ \E m \in Requests : device' \in Executed(device, m)

(* The results a verdict may be told as.                                   *)
Told(verdict) ==
    {USBK_LO_SCSI_ERROR} \cup {v - 1 : v \in IF verdict = Anything THEN OPRS ELSE {verdict}}

Answer(c) ==
    /\ owed[c] # Nothing
    /\ \E r \in Told(owed[c]) : answer' = [answer EXCEPT ![c] = r]
    /\ owed' = [owed EXCEPT ![c] = Nothing]
    /\ UNCHANGED device

(* The device information is read, or cannot be.                           *)
Read(c) ==
    /\ owed[c] = Nothing
    /\ \E r \in {USBK_LO_PASS, USBK_LO_SCSI_ERROR} : answer' = [answer EXCEPT ![c] = r]
    /\ UNCHANGED <<device, owed>>

(* The caller goes away, also in the middle of a call.                     *)
Leave(c) ==
    /\ owed' = [owed EXCEPT ![c] = Nothing]
    /\ answer' = [answer EXCEPT ![c] = USBK_LO_PASS]
    /\ UNCHANGED device

(* The device starts anew.                                                 *)
Restart ==
    /\ device' = PoweredOn(device)
    /\ owed' = Overwritten(Clients)
    /\ UNCHANGED answer

Next ==
    \/ \E c \in Clients :
          Refuse(c) \/ Command(c) \/ Lose(c) \/ Answer(c) \/ Read(c) \/ Leave(c)
    \/ Restart

Spec == Init /\ [][Next]_vars

=============================================================================
