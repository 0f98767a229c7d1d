------------------------------- MODULE Bypass -------------------------------
(***************************************************************************)
(* What the injector promises handle() about one connection, without       *)
(* threads, locks, packets or counters: the handshake is observed, then    *)
(* the fake ClientHello is sent in segments, and the connection gets one   *)
(* verdict.  A good verdict follows a whole fake ClientHello, nothing fake *)
(* follows a verdict, and a verdict is never taken back.                   *)
(***************************************************************************)
EXTENDS Naturals

CONSTANT Conn

VARIABLES
  phase,   \* "observing", "sending", then "acked" or "closed" for good
  sent,    \* segments of the fake ClientHello on the wire
  whole    \* one whole fake ClientHello is among them

vars == <<phase, sent, whole>>

Init ==
  /\ phase = [c \in Conn |-> "observing"]
  /\ sent = [c \in Conn |-> 0]
  /\ whole = [c \in Conn |-> FALSE]

\* The TCP handshake has gone through.
Schedule(c) ==
  /\ phase[c] = "observing"
  /\ phase' = [phase EXCEPT ![c] = "sending"]
  /\ UNCHANGED <<sent, whole>>

SendOne(c) ==
  /\ phase[c] = "sending"
  /\ sent' = [sent EXCEPT ![c] = @ + 1]
  /\ whole' \in {whole, [whole EXCEPT ![c] = TRUE]}
  /\ UNCHANGED phase

\* The peer acknowledged the fake data.
Succeed(c) ==
  /\ phase[c] = "sending" /\ whole[c]
  /\ phase' = [phase EXCEPT ![c] = "acked"]
  /\ UNCHANGED <<sent, whole>>

\* An unexpected packet, or a driver that refuses to send.
Close(c) ==
  /\ phase[c] \in {"observing", "sending"}
  /\ phase' = [phase EXCEPT ![c] = "closed"]
  /\ UNCHANGED <<sent, whole>>

Next == \E c \in Conn : Schedule(c) \/ SendOne(c) \/ Succeed(c) \/ Close(c)

Spec == Init /\ [][Next]_vars
=============================================================================
