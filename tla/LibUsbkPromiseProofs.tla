------------------------ MODULE LibUsbkPromiseProofs ------------------------
(***************************************************************************)
(* LibUsbk implements UsbkAtomic: proofs, for every number of processes,   *)
(* that each step of the library is a step of what it promises, or none.   *)
(***************************************************************************)
EXTENDS LibUsbkStatusProofs, LibUsbkPromise

(* A waiting process is owed its verdict or, once overtaken, any; nobody   *)
(* else is owed anything.  Verdicts are numbered from one.                 *)
LEMMA OwedCases ==
    ASSUME TypeOK
    PROVE  /\ Owed = [c \in Clients |-> Owed[c]]
           /\ \A c \in Clients :
                /\ pc[c] \notin Awaiting => Owed[c] = 0
                /\ pc[c] \in Awaiting => Owed[c] # 0
                /\ pc[c] \in Awaiting /\ sent[c].disturbed => Owed[c] = 11
                /\ pc[c] \in Awaiting /\ ~sent[c].disturbed => Owed[c] = sent[c].verdict
<1>1. \A c \in Clients : sent[c].verdict \in 1 .. 10
  BY DEF TypeOK, Sent, OPRS
<1> QED BY <1>1 DEF Owed

(* A result stored with either sign is the same result.                    *)
LEMMA OutcomeAbs ==
    ASSUME NEW call, NEW code \in Nat
    PROVE  Abs(Outcome(call, code)) = code
  BY DEF Abs, Outcome

(* A handle with a result in it.                                           *)
LEMMA ResultStored ==
    ASSUME NEW h \in Handle, NEW x \in Codes
    PROVE  /\ [h EXCEPT !.lastopr = x] \in Handle
           /\ [h EXCEPT !.lastopr = x].lastopr = x
<1>1. [h EXCEPT !.lastopr = x] \in Handle
  BY HandleFields
<1>2. [h EXCEPT !.lastopr = x].lastopr = x
  BY DEF Handle
<1> QED BY <1>1, <1>2

(* Storing a result in lastopr is giving it to the process.                *)
LEMMA GivenStep ==
    ASSUME TypeOK, NEW c \in Clients, NEW code, NEW r, Abs(code) = r,
           NEW h \in Handle, h.lastopr = code, handle' = [handle EXCEPT ![c] = h]
    PROVE  Given' = [Given EXCEPT ![c] = r]
  BY DEF Given, TypeOK

(* What is owed does not change with what it does not look at.             *)
LEMMA OwedSame ==
    ASSUME pc' = pc, sent' = sent
    PROVE  Owed' = Owed
  BY DEF Owed

(* When the device is used, everybody who waits may be told anything.      *)
LEMMA DisturbedIsOverwritten ==
    ASSUME TypeOK, NEW others \in SUBSET Clients, pc' = pc, sent' = Disturbed(others)
    PROVE  Owed' = Atomic!Overwritten(others)
<1>1. TypeOK => sent \in [Clients -> Sent]
  BY DEF TypeOK
<1>2. ASSUME NEW x \in Clients
      PROVE  Owed'[x] = IF x \in others /\ Owed[x] # 0 THEN 11 ELSE Owed[x]
  <2>1. CASE x \in others /\ pc[x] \in Awaiting
    <3>1. sent'[x].disturbed
      BY <1>1, <2>1 DEF Disturbed, Sent
    <3>2. Owed'[x] = 11
      BY <2>1, <3>1 DEF Owed
    <3> QED BY <2>1, <3>2, OwedCases
  <2>2. CASE ~(x \in others /\ pc[x] \in Awaiting)
    <3>1. sent'[x] = sent[x]
      BY <2>2 DEF Disturbed
    <3>2. Owed'[x] = Owed[x]
      BY <3>1 DEF Owed
    <3> QED BY <2>2, <3>2, OwedCases
  <2> QED BY <2>1, <2>2
<1>3. Owed' = [x \in Clients |-> Owed'[x]]
  BY DEF Owed
<1> QED BY <1>2, <1>3 DEF Atomic!Overwritten, Atomic!Nothing, Atomic!Anything

-----------------------------------------------------------------------------
(* The steps of a call                                                     *)

(* An early return is a refusal that leaves the device alone.              *)
LEMMA ReturnRefuses ==
    ASSUME TypeOK, NEW c \in Clients, pc[c] = "idle", NEW call, NEW code \in Refusals,
           Return(c, call, code)
    PROVE  Atomic!Refuse(c)
<1>1. Owed[c] = 0
  BY OwedCases DEF Awaiting
<1>2. code \in Nat /\ code \in Codes
  BY RefusalsAreCodes DEF Refusals, USBK_LO_INVALID_KEYNO, USBK_LO_INVALID_KEYSIZE,
     USBK_LO_STATE_ERROR
<1>3. Given' = [Given EXCEPT ![c] = code]
  <2> DEFINE h == [handle[c] EXCEPT !.lastopr = Outcome(call, code)]
  <2>1. h \in Handle /\ h.lastopr = Outcome(call, code)
    <3>1. handle[c] \in Handle
      BY DEF TypeOK
    <3>2. Outcome(call, code) \in Codes
      BY <1>2, OutcomeType
    <3> QED BY <3>1, <3>2, ResultStored
  <2>2. handle' = [handle EXCEPT ![c] = h]
    BY DEF Return
  <2> HIDE DEF h
  <2> QED BY <1>2, <2>1, <2>2, OutcomeAbs, GivenStep
<1>4. dev' = dev /\ Owed' = Owed
  BY OwedSame DEF Return
<1> QED BY <1>1, <1>3, <1>4
       DEF Atomic!Refuse, Atomic!Nothing, Refusals, USBK_LO_INVALID_KEYNO,
           USBK_LO_INVALID_KEYSIZE, USBK_LO_STATE_ERROR, Atomic!USBK_LO_INVALID_KEYNO,
           Atomic!USBK_LO_INVALID_KEYSIZE, Atomic!USBK_LO_STATE_ERROR

(* A process that ends is owed nothing any more.                           *)
LEMMA GoneLeaves ==
    ASSUME TypeOK, NEW c \in Clients, Gone(c)
    PROVE  Atomic!Leave(c)
<1>1. Given' = [Given EXCEPT ![c] = USBK_LO_PASS]
  <2>1. NoHandle.lastopr = 0 /\ Abs(0) = USBK_LO_PASS
    BY DEF NoHandle, Abs, USBK_LO_PASS
  <2>2. handle' = [handle EXCEPT ![c] = NoHandle]
    BY DEF Gone
  <2> QED BY <2>1, <2>2, NoHandleType, GivenStep
<1>2. Owed' = [Owed EXCEPT ![c] = 0]
  <2>1. "none" \notin Awaiting
    BY DEF Awaiting
  <2> QED BY <2>1 DEF Gone, Owed, TypeOK
<1>3. dev' = dev
  BY DEF Gone
<1> QED BY <1>1, <1>2, <1>3
       DEF Atomic!Leave, Atomic!Nothing, USBK_LO_PASS, Atomic!USBK_LO_PASS

(* A command that was sent is executed at once, and the verdict is owed;   *)
(* one that was lost, or whose reply was, is reported at once.             *)
LEMMA SendCommands ==
    ASSUME TypeOK, NEW c \in Clients, pc[c] = "idle", NEW call \in Awaiting,
           NEW m \in Requests, Send(c, call, m)
    PROVE  Atomic!Command(c) \/ Atomic!Lose(c)
<1> DEFINE Others(io) == IF io.executed THEN Disturbed(Clients \ {c}) ELSE sent
<1>1. PICK io \in send_scsi_command(plugged, fds[c]) :
        /\ dev' \in IF io.executed THEN Executed(dev, m) ELSE {dev}
        /\ IF io.rtn < 0
           THEN /\ handle' = [handle EXCEPT
                                 ![c].lastopr = Outcome(call, USBK_LO_SCSI_ERROR)]
                /\ sent' = Others(io)
                /\ UNCHANGED pc
           ELSE /\ \E k \in Answers(m, dev'.lastop) :
                     sent' = [Others(io) EXCEPT ![c] =
                                [cmd |-> m, verdict |-> dev'.lastop,
                                 key |-> k, disturbed |-> FALSE]]
                /\ pc' = [pc EXCEPT ![c] = call]
                /\ UNCHANGED handle
  BY DEF Send
<1>2. Owed[c] = 0 /\ pc[c] \notin Awaiting
  BY OwedCases DEF Awaiting
<1>3. io.executed => \E n \in Requests : dev' \in Executed(dev, n)
  BY <1>1
<1>4. ~io.executed => dev' = dev
  BY <1>1
<1>5. ASSUME io.rtn < 0 PROVE Atomic!Lose(c)
  <2>1. Given' = [Given EXCEPT ![c] = USBK_LO_SCSI_ERROR]
    <3> DEFINE h == [handle[c] EXCEPT !.lastopr = Outcome(call, USBK_LO_SCSI_ERROR)]
    <3>1. USBK_LO_SCSI_ERROR \in Codes /\ USBK_LO_SCSI_ERROR \in Nat
      BY DEF USBK_LO_SCSI_ERROR, Codes
    <3>2. h \in Handle /\ h.lastopr = Outcome(call, USBK_LO_SCSI_ERROR)
      <4>1. handle[c] \in Handle
        BY DEF TypeOK
      <4>2. Outcome(call, USBK_LO_SCSI_ERROR) \in Codes
        BY <3>1, OutcomeType
      <4> QED BY <4>1, <4>2, ResultStored
    <3>3. handle' = [handle EXCEPT ![c] = h]
      BY <1>1, <1>5
    <3> HIDE DEF h
    <3> QED BY <3>1, <3>2, <3>3, OutcomeAbs, GivenStep
  <2>2. ~io.executed => Owed' = Owed
    BY <1>1, <1>5, OwedSame
  <2>3. io.executed => Owed' = Atomic!Overwritten(Clients \ {c})
    BY <1>1, <1>5, DisturbedIsOverwritten
  <2> QED BY <1>2, <1>3, <1>4, <2>1, <2>2, <2>3
          DEF Atomic!Lose, Atomic!Nothing, USBK_LO_SCSI_ERROR, Atomic!USBK_LO_SCSI_ERROR
<1>6. ASSUME ~(io.rtn < 0) PROVE Atomic!Command(c)
  <2>1. io.executed
    BY <1>6, PassedIsExecuted DEF TypeOK
  <2>2. PICK k \in Answers(m, dev'.lastop) :
          sent' = [Disturbed(Clients \ {c}) EXCEPT ![c] =
                     [cmd |-> m, verdict |-> dev'.lastop, key |-> k, disturbed |-> FALSE]]
    BY <1>1, <1>6, <2>1
  <2>3. Owed' = [Atomic!Overwritten(Clients \ {c}) EXCEPT ![c] = dev'.lastop]
    <3>1. Owed'[c] = dev'.lastop
      BY <1>1, <1>6, <2>2 DEF Owed, TypeOK, Disturbed
    <3>2. ASSUME NEW x \in Clients \ {c}
          PROVE  Owed'[x] = IF Owed[x] # 0 THEN 11 ELSE Owed[x]
      <4>1. pc'[x] = pc[x] /\ sent'[x] = Disturbed(Clients \ {c})[x]
        BY <1>1, <1>6, <2>2, <3>2 DEF TypeOK, Disturbed
      <4>2. CASE pc[x] \in Awaiting
        <5>1. sent'[x].disturbed
          BY <4>1, <4>2 DEF TypeOK, Disturbed, Sent
        <5>2. Owed'[x] = 11
          BY <4>1, <4>2, <5>1 DEF Owed
        <5> QED BY <4>2, <5>2, OwedCases
      <4>3. CASE pc[x] \notin Awaiting
        BY <4>1, <4>3, OwedCases DEF Owed
      <4> QED BY <4>2, <4>3
    <3>3. Owed' = [x \in Clients |-> Owed'[x]]
      BY DEF Owed
    <3> QED BY <3>1, <3>2, <3>3
            DEF Atomic!Overwritten, Atomic!Nothing, Atomic!Anything
  <2>4. Given' = Given
    BY <1>1, <1>6 DEF Given
  <2> QED BY <1>2, <1>3, <2>1, <2>3, <2>4 DEF Atomic!Command, Atomic!Nothing
<1> QED BY <1>5, <1>6

(* The verdict that commandstatus reads is one that may be told.           *)
LEMMA StatusAnswers ==
    ASSUME TypeOK, StatusStillMine, NEW c \in Clients, commandstatus(c)
    PROVE  Atomic!Answer(c)
<1>1. PICK io \in send_scsi_command(plugged, fds[c]) :
        Finish(c, io, StatusCode(c, io), StatusRetry(c, io), StatusKey(c, StatusCode(c, io)))
  BY DEF commandstatus
<1>2. pc[c] \in Awaiting
  BY DEF commandstatus
<1> DEFINE r == IF io.rtn < 0 THEN USBK_LO_SCSI_ERROR ELSE dev.lastop - 1
<1>3. dev.lastop \in OPRS /\ dev.lastop \in 1 .. 10
  BY DEF TypeOK, Device, OPRS
<1>4. Abs(StatusCode(c, io)) = r
  <2>1. CASE io.rtn < 0
    <3>1. \A n \in Nat : Abs(-n) = n /\ Abs(-(-n)) = n
      BY DEF Abs
    <3>2. USBK_LO_SCSI_ERROR \in Nat
      BY DEF USBK_LO_SCSI_ERROR
    <3> QED BY <2>1, <3>1, <3>2 DEF StatusCode, Outcome
  <2>2. CASE ~(io.rtn < 0)
    <3>1. dev.lastop - 1 \in Nat
      BY <1>3
    <3>2. Abs(Outcome(pc[c], dev.lastop - 1)) = dev.lastop - 1
      BY <3>1 DEF Abs, Outcome
    <3> QED BY <2>2, <3>2 DEF StatusCode
  <2> QED BY <2>1, <2>2
<1>5. r \in Atomic!Told(Owed[c])
  <2>1. CASE io.rtn < 0
    BY <2>1 DEF Atomic!Told, USBK_LO_SCSI_ERROR, Atomic!USBK_LO_SCSI_ERROR
  <2>2. CASE ~(io.rtn < 0) /\ sent[c].disturbed
    <3>1. Owed[c] = Atomic!Anything
      BY <1>2, <2>2, OwedCases DEF Atomic!Anything
    <3> QED BY <1>3, <2>2, <3>1 DEF Atomic!Told, Atomic!OPRS, OPRS
  <2>3. CASE ~(io.rtn < 0) /\ ~sent[c].disturbed
    <3>1. Owed[c] = dev.lastop
      BY <1>2, <2>3, OwedCases DEF StatusStillMine
    <3>2. Owed[c] # Atomic!Anything
      BY <1>3, <3>1 DEF OPRS, Atomic!Anything
    <3> QED BY <2>3, <3>1, <3>2 DEF Atomic!Told
  <2> QED BY <2>1, <2>2, <2>3
<1> HIDE DEF r
<1>6. Given' = [Given EXCEPT ![c] = r]
  <2> DEFINE h == [handle[c] EXCEPT !.lastopr = StatusCode(c, io),
                                    !.retry_num = StatusRetry(c, io)]
  <2>1. handle' = [handle EXCEPT ![c] = h]
    BY <1>1 DEF Finish, TypeOK
  <2>2. handle' \in [Clients -> Handle]
    BY StatusType DEF TypeOK
  <2>3. h \in Handle
    BY <2>1, <2>2 DEF TypeOK
  <2>4. h.lastopr = StatusCode(c, io)
    BY DEF TypeOK, Handle
  <2> HIDE DEF h
  <2> QED BY <1>4, <2>1, <2>3, <2>4, GivenStep
<1>7. Owed' = [Owed EXCEPT ![c] = 0]
  <2>1. "idle" \notin Awaiting
    BY DEF Awaiting
  <2> QED BY <1>1, <2>1 DEF Finish, Owed, TypeOK
<1>8. Owed[c] # 0 /\ dev' = dev
  BY <1>1, <1>2, OwedCases DEF Finish
<1> QED BY <1>5, <1>6, <1>7, <1>8 DEF Atomic!Answer, Atomic!Nothing

-----------------------------------------------------------------------------
(* Handles and surroundings                                                *)

(* Storing the result of a read, without a command, is a read.             *)
LEMMA ReadStep ==
    ASSUME TypeOK, NEW c \in Clients, NEW h \in Handle,
           h.lastopr \in {USBK_LO_PASS, USBK_LO_SCSI_ERROR},
           handle' = [handle EXCEPT ![c] = h],
           pc[c] \notin Awaiting, Owed' = Owed, dev' = dev
    PROVE  Atomic!Read(c)
<1>1. Abs(h.lastopr) = h.lastopr
  BY DEF Abs, USBK_LO_PASS, USBK_LO_SCSI_ERROR
<1>2. Given' = [Given EXCEPT ![c] = h.lastopr]
  BY <1>1, GivenStep
<1>3. Owed[c] = 0
  BY OwedCases
<1> QED BY <1>2, <1>3 DEF Atomic!Read, Atomic!Nothing, USBK_LO_PASS, USBK_LO_SCSI_ERROR,
           Atomic!USBK_LO_PASS, Atomic!USBK_LO_SCSI_ERROR

(* What the device tells of itself has the types a handle expects, and a   *)
(* handle filled with it holds PASS.                                       *)
LEMMA FilledPass ==
    ASSUME TypeOK, NEW h \in Handle
    PROVE  Filled(h, DevInfo(dev)) \in Handle /\ Filled(h, DevInfo(dev)).lastopr = USBK_LO_PASS
  BY FilledType DEF TypeOK, Filled, Handle

(* A process that opens the device is given PASS, or stays without.        *)
LEMMA NewReads ==
    ASSUME TypeOK, NEW c \in Clients, usbk_new(c)
    PROVE  Atomic!Read(c) \/ UNCHANGED <<dev, Owed, Given>>
<1>1. CASE UNCHANGED vars
  BY <1>1, OwedSame DEF vars, Given
<1>2. ASSUME NEW io \in send_scsi_command(plugged, fds[c]), ~(io.rtn < 0),
             handle' = [handle EXCEPT ![c] = Filled(NoHandle, DevInfo(dev))],
             pc' = [pc EXCEPT ![c] = "idle"], UNCHANGED <<dev, plugged, random_key, sent>>
      PROVE  Atomic!Read(c)
  <2>1. pc[c] \notin Awaiting /\ "idle" \notin Awaiting
    BY DEF usbk_new, Awaiting
  <2>2. Owed' = Owed
    BY <1>2, <2>1 DEF Owed, TypeOK
  <2> QED BY <1>2, <2>1, <2>2, NoHandleType, FilledPass, ReadStep
<1>3. ASSUME UNCHANGED <<handle, pc, dev, sent>>
      PROVE  UNCHANGED <<dev, Owed, Given>>
  BY <1>3, OwedSame DEF Given
<1> QED BY <1>1, <1>2, <1>3 DEF usbk_new

(* A refresh is a read.                                                    *)
LEMMA RefreshReads ==
    ASSUME TypeOK, NEW c \in Clients, usbk_refreshusbkinfo(c)
    PROVE  Atomic!Read(c)
<1>1. pc[c] \notin Awaiting /\ Owed' = Owed /\ dev' = dev
  BY OwedSame DEF usbk_refreshusbkinfo, Awaiting
<1>2. CASE handle' = [handle EXCEPT ![c].lastopr = USBK_LO_SCSI_ERROR]
  <2> DEFINE h == [handle[c] EXCEPT !.lastopr = USBK_LO_SCSI_ERROR]
  <2>0. USBK_LO_SCSI_ERROR \in Codes
    BY DEF USBK_LO_SCSI_ERROR, Codes
  <2>1. h \in Handle /\ h.lastopr = USBK_LO_SCSI_ERROR
    <3>1. handle[c] \in Handle
      BY DEF TypeOK
    <3> QED BY <2>0, <3>1, ResultStored
  <2>2. handle' = [handle EXCEPT ![c] = h]
    BY <1>2
  <2> HIDE DEF h
  <2> QED BY <1>1, <2>1, <2>2, ReadStep
<1>3. CASE handle' = [handle EXCEPT ![c] = Filled(@, DevInfo(dev))]
  <2>1. handle[c] \in Handle
    BY DEF TypeOK
  <2> QED BY <1>1, <1>3, <2>1, FilledPass, ReadStep
<1> QED BY <1>2, <1>3 DEF usbk_refreshusbkinfo

(* A handle that is released is no longer owed anything.                   *)
LEMMA ReleaseLeaves ==
    ASSUME TypeOK, NEW c \in Clients, usbk_release(c)
    PROVE  Atomic!Leave(c)
<1>1. Given' = [Given EXCEPT ![c] = USBK_LO_PASS]
  <2>1. NoHandle.lastopr = 0 /\ Abs(0) = USBK_LO_PASS
    BY DEF NoHandle, Abs, USBK_LO_PASS
  <2>2. handle' = [handle EXCEPT ![c] = NoHandle]
    BY DEF usbk_release
  <2> QED BY <2>1, <2>2, NoHandleType, GivenStep
<1>2. Owed' = [Owed EXCEPT ![c] = 0]
  <2>1. "none" \notin Awaiting
    BY DEF Awaiting
  <2> QED BY <2>1 DEF usbk_release, Owed, TypeOK
<1>3. dev' = dev
  BY DEF usbk_release
<1> QED BY <1>1, <1>2, <1>3
       DEF Atomic!Leave, Atomic!Nothing, USBK_LO_PASS, Atomic!USBK_LO_PASS

(* A replug starts the device anew under everybody who waits.              *)
LEMMA ReplugRestarts ==
    ASSUME TypeOK, Replug
    PROVE  Atomic!Restart
<1>1. Owed' = Atomic!Overwritten(Clients)
  BY DisturbedIsOverwritten DEF Replug
<1>2. Given' = Given /\ dev' = PoweredOn(dev)
  BY DEF Replug, Given
<1> QED BY <1>1, <1>2 DEF Atomic!Restart

-----------------------------------------------------------------------------
(* The library keeps its promise                                           *)

(* Each step of the library is one of the promise, or none.                *)
LEMMA PromiseStep ==
    TypeOK /\ StatusStillMine /\ [Next]_vars => [Atomic!Next]_(Atomic!vars)
<1> SUFFICES ASSUME TypeOK, StatusStillMine, [Next]_vars
             PROVE  Atomic!Next \/ UNCHANGED <<dev, Owed, Given>>
  BY DEF Atomic!vars
<1>1. ASSUME NEW c \in Clients, usbk_new(c)
      PROVE  Atomic!Next \/ UNCHANGED <<dev, Owed, Given>>
  BY <1>1, NewReads DEF Atomic!Next
<1>2. ASSUME NEW c \in Clients, usbk_refreshusbkinfo(c) PROVE Atomic!Next
  BY <1>2, RefreshReads DEF Atomic!Next
<1>3. ASSUME NEW c \in Clients, usbk_release(c) PROVE Atomic!Next
  BY <1>3, ReleaseLeaves DEF Atomic!Next
<1>4. ASSUME NEW c \in Clients, Call(c) PROVE Atomic!Next
  <2>1. pc[c] = "idle" /\ Begins(c)
    BY <1>4, CallBegins
  <2>2. Atomic!Refuse(c) \/ Atomic!Leave(c) \/ Atomic!Command(c) \/ Atomic!Lose(c)
    BY <2>1, ReturnRefuses, GoneLeaves, SendCommands DEF Begins
  <2> QED BY <2>2 DEF Atomic!Next
<1>5. ASSUME NEW c \in Clients, commandstatus(c) PROVE Atomic!Next
  BY <1>5, StatusAnswers DEF Atomic!Next
<1>6. ASSUME NEW c \in Clients, Exit(c) PROVE Atomic!Next
  BY <1>6, GoneLeaves DEF Exit, Atomic!Next
<1>7. CASE Unplug \/ UNCHANGED vars
  BY <1>7, OwedSame DEF Unplug, vars, Given
<1>8. CASE Replug
  BY <1>8, ReplugRestarts DEF Atomic!Next
<1> QED BY <1>1, <1>2, <1>3, <1>4, <1>5, <1>6, <1>7, <1>8 DEF Next, ClientStep

(* Nobody is owed anything at first.                                       *)
LEMMA PromiseInit == Init => Atomic!Init
  BY DEF Init, Atomic!Init, Owed, Given, Awaiting, NoHandle, Abs, Atomic!Nothing,
         USBK_LO_PASS, Atomic!USBK_LO_PASS

(* Whatever any number of processes do at the same time, whatever is lost  *)
(* and whenever the device is unplugged: a command takes effect in one     *)
(* step and at most once, and its caller is told the verdict on it, or of  *)
(* an error, unless another use of the device came in between.             *)
THEOREM PromiseKept == Spec => KeepsPromise
<1>1. Spec => Atomic!Init
  BY PromiseInit, PTL DEF Spec
<1>2. Spec => [][Atomic!Next]_(Atomic!vars)
  BY PromiseStep, TypeCorrect, StatusMine, PTL DEF Spec
<1> QED BY <1>1, <1>2, PTL DEF KeepsPromise, Atomic!Spec

=============================================================================
