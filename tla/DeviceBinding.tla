---------------------------- MODULE DeviceBinding ----------------------------
(***************************************************************************)
(* What binding a device promises, with no client, messages or storage: a  *)
(* one-time token is redeemed at most once, for one key pair, and a device *)
(* takes on the identity of a redeemed token at most once, with the key    *)
(* pair the token was redeemed for, and keeps it.                          *)
(***************************************************************************)
CONSTANTS Token, KeyPair, None

VARIABLES
  device,      \* None, or the identity [id, key] the device answers under
  registered   \* the key pair each token was redeemed for, or None

Unbound == device = None

Init ==
  /\ Unbound
  /\ registered = [t \in Token |-> None]

Redeem(t, k) ==
  /\ registered[t] = None
  /\ registered' = [registered EXCEPT ![t] = k]
  /\ UNCHANGED device

Bind(t) ==
  /\ Unbound
  /\ registered[t] # None
  /\ device' = [id |-> t, key |-> registered[t]]
  /\ UNCHANGED registered

Next == \E t \in Token : Bind(t) \/ \E k \in KeyPair : Redeem(t, k)

Spec == Init /\ [][Next]_<<device, registered>>

=============================================================================
