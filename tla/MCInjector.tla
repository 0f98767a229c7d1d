----------------------------- MODULE MCInjector -----------------------------
(***************************************************************************)
(* One connection with all that the constants allow, or several with the   *)
(* narrow choice below: late pops and the gauges are about connections     *)
(* that meet, and the sequence numbers are not.                            *)
(***************************************************************************)
EXTENDS Injector, TLC

CONSTANTS NarrowEp, NarrowMethod

ConnSymmetry == Permutations(Conn)

Accepted == {c \in Conn : id[c] # None}

\* seq and ack of the packets of a handshake whose two sides begin at 0.
NumbersAtZero == [syn |-> <<0, 0>>, synack |-> <<0, 1>>, ack |-> <<1, 1>>, other |-> <<0, 0>>]

Narrow ==
  /\ \A c \in Accepted :
       /\ id[c][2] = NarrowEp /\ bypass_method[c] = NarrowMethod
       /\ syn_seq[c] <= 0 /\ syn_ack_seq[c] <= 0
  /\ injpkt # None => <<injpkt.seq, injpkt.ack>> = NumbersAtZero[injpkt.flags]

Small == Cardinality(Accepted) <= 1 \/ Narrow
=============================================================================
