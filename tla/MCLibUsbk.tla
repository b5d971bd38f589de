----------------------------- MODULE MCLibUsbk ------------------------------
(***************************************************************************)
(* Bounds for model-checking LibUsbk.                                      *)
(***************************************************************************)
EXTENDS LibUsbkPromise, TLC

(* A uint8_t key number reaches one past the capacity; an int may also be  *)
(* a number whose last byte is a slot.  All sizes but none are alike.      *)
MCKeyNumbers    == 0 .. MultiKeyCap + 1
MCKeySizes      == {KEYSIZE_NULL, KEYSIZE_256BIT}
MCIntKeyNumbers == MCKeyNumbers \cup {-255}

(* Processes are interchangeable in the runs that check no liveness.       *)
Symmetry == Permutations(Clients)

(* What a state can still do does not depend on the parts of it that no    *)
(* call reads again: the result of the last call, the displayed fields of  *)
(* a handle that is out of date, the last verdict nobody waits for.        *)
HandleView(c) ==
    <<handle[c].dev_state, handle[c].key_names,
      IF fresh[c] THEN [handle[c] EXCEPT !.lastopr = 0] ELSE NoHandle>>

(* Of a command that was overtaken only what its caller may be handed is   *)
(* still of use.                                                           *)
SentView(c) ==
    IF sent[c].disturbed THEN <<sent[c].cmd.op, sent[c].key>> ELSE sent[c]

View ==
    <<IF \E c \in Clients : pc[c] \in Awaiting THEN dev
      ELSE [dev EXCEPT !.lastop = OPRS_PASS],
      [c \in Clients |-> HandleView(c)], plugged, pc, fds, random_key,
      [c \in Clients |-> SentView(c)], fresh>>

(* Two processes on a device that stays plugged in and a transport that    *)
(* does not fail: what is left is their interleaving.                      *)
OnlyInterleaving == plugged /\ \A c \in Clients : fds[c] = 0

=============================================================================
