---------------------------- MODULE MCMmioBridge ----------------------------
(* Two instances in one run: two devices and one vCPU, after the other has  *)
(* timed out; or two vCPUs, after one of the devices was closed.            *)
EXTENDS MmioBridge

Resting(failed, gone) ==
  /\ stopped = FALSE /\ inbox = <<>> /\ pending = <<>>
  /\ active = {} /\ inflight = {} /\ bridge = "running"
  /\ state = [s \in BridgeSlot |-> IF s \in gone THEN "closed" ELSE "open"]
  /\ closed = [s \in BridgeSlot |-> s \in gone]
  /\ worker = [s \in BridgeSlot |-> IF s \in gone THEN "closed" ELSE "serving"]
  /\ vcpu = [v \in BridgeVcpu |-> IF v \in failed THEN "failed" ELSE "running"]
  /\ posted = [v \in BridgeVcpu |-> FALSE]
  /\ reply = [c \in Client |-> IF c \in failed \cup gone THEN "ok" ELSE "none"]
  /\ arrived = [s \in BridgeSlot |-> <<>>]

MCInit ==
  \/ \E v \in BridgeVcpu : Resting(BridgeVcpu \ {v}, {})
  \/ \E s \in BridgeSlot : Resting({}, BridgeSlot \ {s})

(* The bridge's task runs; REQUEST_TIMEOUT ends every operation, and       *)
(* select! picks among its ready branches at random, so that neither the   *)
(* queue nor an ended operation is passed over for ever.                   *)
MCSpec ==
  /\ MCInit /\ [][BridgeNext]_bridgeVars
  /\ WF_bridgeVars(Dispatch \/ Finish) /\ SF_bridgeVars(Receive)
  /\ \A c \in Client : SF_bridgeVars(Ends(c))

(* A device sees the accesses in the order they were sent, and none once   *)
(* it is closed; every vCPU that waits is held by the bridge, and every    *)
(* access that may run was admitted within its device's permits.           *)
BridgeHolds ==
  DevicesSeeSendOrder /\ ClosedDevicesAreLeftAlone /\ WaitingIsHeld /\ AccessIsAdmitted
=============================================================================
