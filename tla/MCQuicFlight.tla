---------------------------- MODULE MCQuicFlight -----------------------------
(***************************************************************************)
(* Small instance of QuicFlight: a ClientHello of six units of stream.     *)
(*                                                                         *)
(*   a1 a2   its first half, and a copy of that                            *)
(*   b1      its second half, the ranges shuffled                          *)
(*   w1      all of it in three ranges                                     *)
(*   z1      its first unit, too little to be recognised                   *)
(*   n1      an Initial that only pings                                    *)
(*   f1 x1   one with another frame, one that does not decrypt             *)
(*   k1 t1 u1 e1   a STUN message, DHT, anything, nothing                  *)
(***************************************************************************)
EXTENDS QuicFlight, TLC

CONSTANTS a1, a2, b1, w1, z1, n1, f1, x1, k1, t1, u1, e1, open, quic, late

MCDatagram == {a1, a2, b1, w1, z1, n1, f1, x1, k1, t1, u1, e1}

R(o, l) == [offset |-> o, len |-> l]

MCCrypto ==
  (a1 :> <<R(0, 3)>>) @@ (a2 :> <<R(0, 3)>>) @@ (b1 :> <<R(5, 1), R(3, 2)>>)
  @@ (w1 :> <<R(2, 4), R(1, 1), R(0, 1)>>) @@ (z1 :> <<R(0, 1)>>)
  @@ [d \in MCDatagram |-> <<>>]
MCText ==
  (f1 :> "foreign") @@ (x1 :> "sealed") @@ [d \in MCDatagram |-> "crypto"]
MCKind ==
  (k1 :> "known") @@ (t1 :> "dht") @@ (u1 :> "unknown") @@ (e1 :> "empty")
  @@ [d \in MCDatagram |-> "initial"]
MCCleanLen == [d \in MCDatagram |-> 2]

(* open: anything, fakes and fragments, until the second datagram with data; *)
(* quic: lists, fakes and no hello without a name; late: from the second on, *)
(* fakes for what is known, DHT rewritten.                                   *)
MCAlters ==
  (open :> {"unknown", "known", "dht", "initial"}) @@ (quic :> {}) @@ (late :> {"dht"})
MCStart == (open :> 0) @@ (quic :> 0) @@ (late :> 2)
MCCutoff == (open :> 3) @@ (quic :> 0) @@ (late :> 0)
==============================================================================
