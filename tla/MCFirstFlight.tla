---------------------------- MODULE MCFirstFlight ----------------------------
(***************************************************************************)
(* A small instance of FirstFlight.  The stream:                           *)
(*                                                                         *)
(*   -1      k1          a keep-alive probe, behind the first byte         *)
(*    0      a1, a2      the first part of a ClientHello of three units    *)
(*                       and that part together with the second            *)
(*    1      b1, b2      its second part                                   *)
(*    2      c1          its third part and a unit of other data           *)
(*    4, 5   e1, f1      a second ClientHello in two parts                 *)
(*    6      h1          an HTTP request                                   *)
(*    7      g1          the first part of a ClientHello of nine units     *)
(*   16      x1          other data, where the cutoff is                   *)
(*                                                                         *)
(* b1 and b2 are the same segment twice, so that a retransmission can meet *)
(* the copy that is held; a2 is a retransmission cut otherwise.  Nobody    *)
(* has to send x1, so nothing that must happen waits for the cutoff.       *)
(***************************************************************************)
EXTENDS FirstFlight, TLC

CONSTANTS a1, a2, b1, b2, c1, e1, f1, g1, h1, k1, x1

MCSeqOf ==
  (a1 :> 0) @@ (a2 :> 0) @@ (b1 :> 1) @@ (b2 :> 1) @@ (c1 :> 2) @@
  (e1 :> 4) @@ (f1 :> 5) @@ (g1 :> 7) @@ (h1 :> 6) @@ (k1 :> -1) @@ (x1 :> 16)
MCLenOf == [p \in DOMAIN MCSeqOf |-> IF p \in {a2, c1} THEN 2 ELSE 1]
MCRecordLen ==
  [s \in {MCSeqOf[p] : p \in DOMAIN MCSeqOf} |->
     CASE s = 0 -> 3 [] s = 4 -> 2 [] s = 7 -> 9 [] OTHER -> 0]
MCHttpAt == {6}
==============================================================================
