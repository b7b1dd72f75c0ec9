----------------------------- MODULE MCUdpChat -----------------------------
(***************************************************************************)
(* Bounds for TLC: up to two addresses, at the first of which a client may *)
(* be started under either of two ids.  The table has slots for two, so    *)
(* that texts are exchanged and both ids of an address may be registered.  *)
(***************************************************************************)
EXTENDS UdpChat, TLC

CONSTANTS a1, a2, x, y, z

TheirIds == [a \in Addresses |-> CASE a = a1 -> {x, y} [] OTHER -> {z}]

(* What the steps and the properties of MCUdpChat.cfg depend on: not the     *)
(* history.                                                                 *)
WithoutHistory == <<server, requests, replies, client, client_id, bounds>>
=============================================================================
