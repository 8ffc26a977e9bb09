----------------------------- MODULE PacketRelay -----------------------------
(***************************************************************************)
(* What the packet engine owes the connection it stands in, whatever it    *)
(* decides about tampering: every packet it takes from utun is handed on   *)
(* to the BPF sender exactly once, at once or later.  It may keep packets  *)
(* back; the only way a packet it keeps is lost is that the engine forgets *)
(* the connection as a whole (the entry is purged or overwritten by a new  *)
(* SYN, or the process ends).                                              *)
(***************************************************************************)
EXTENDS Sequences, Naturals

CONSTANT Packet   \* the packets of one connection

VARIABLES
  inside,   \* the packets the relay keeps back
  sent,     \* what the last step handed on, in order
  lost      \* what the last step lost

rvars == <<inside, sent, lost>>

(* s lists every element of S once and nothing else. *)
Lists(s, S) ==
  /\ s \in Seq(S)
  /\ \A x \in S : \E i \in DOMAIN s : s[i] = x
  /\ \A i, j \in DOMAIN s : s[i] = s[j] => i = j

RelayInit == inside = {} /\ sent = <<>> /\ lost = {}

(* Hand on the packets of `released`, in some order, out of those at hand. *)
HandOn(atHand) ==
  \E released \in SUBSET atHand :
    /\ inside' = atHand \ released
    /\ Lists(sent', released)
    /\ lost' = {}

(* A packet comes in.  It and any of those kept may leave, in any order. *)
Take(p) == p \notin inside /\ HandOn(inside \cup {p})

(* Packets kept may also leave when the packet that came in is none of     *)
(* Packet: a bare acknowledgement passes and is never kept.                *)
Free == HandOn(inside)

Forget == inside' = {} /\ sent' = <<>> /\ lost' = inside

RelayNext == (\E p \in Packet : Take(p)) \/ Free \/ Forget

RelaySpec == RelayInit /\ [][RelayNext]_rvars
==============================================================================
