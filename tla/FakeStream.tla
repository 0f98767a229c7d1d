----------------------------- MODULE FakeStream -----------------------------
(***************************************************************************)
(* The bytes of one fake-send job of fake_tcp.py: how the payload is cut   *)
(* into segments, with which sequence numbers, lengths and IP idents they  *)
(* leave.  All segments of a job are one packet object, changed in place   *)
(* between two sends and again by the retry.  The payload is its length.   *)
(* The locks and the verdicts that may stop the job are in Injector.       *)
(***************************************************************************)
EXTENDS Integers, Sequences

CONSTANTS
  Methods,    \* wire methods to look at
  DataLens,   \* lengths of fake_data, never empty
  Extras,     \* bytes "padding" puts before and "double_sni" puts after it
  SeqSpace,     \* 2^32
  IdentMod,   \* 2^16
  HeaderLen,  \* total length of the bare ACK the job starts from
  SynSeqs, Idents

RealMethods == {"wrong_seq", "wrong_seq_ttl", "split_seq", "fragmented",
                "padding", "delayed_retry", "double_sni"}

ASSUME StreamAssumption ==
  /\ Methods \subseteq RealMethods
  /\ DataLens \subseteq Nat \ {0} /\ Extras \subseteq Nat
  /\ SeqSpace \in Nat \ {0} /\ IdentMod \in Nat /\ IdentMod > 3
  /\ \A n \in DataLens : 2 * n < SeqSpace /\ \A e \in Extras : 2 * (n + e) < SeqSpace
  /\ HeaderLen \in Nat
  /\ SynSeqs \subseteq 0 .. SeqSpace - 1 /\ Idents \subseteq 0 .. IdentMod - 1

VARIABLES
  wire_method,  \* bypass_method of the connection
  syn_seq,
  total,        \* bytes of payload one attempt puts on the wire
  packet,       \* the packet object: packet_len, payload, ident and seq_num
  base_len, base_ident,  \* taken from it at the start of an attempt
  attempt,
  step,         \* segment of the attempt that comes next
  phase,
  fake_sent,
  done,         \* history: bytes of the attempt that are on the wire
  idents        \* history: idents of the packets sent, with the ACK itself

jvars == <<wire_method, syn_seq, total, packet, base_len, base_ident, attempt, step,
          phase, fake_sent, done, idents>>

JInit ==
  /\ wire_method \in Methods /\ syn_seq \in SynSeqs
  /\ \E n \in DataLens : IF wire_method \in {"padding", "double_sni"}
                           THEN \E e \in Extras : total = n + e
                           ELSE total = n
  /\ \E ident \in Idents :
       /\ packet = [packet_len |-> HeaderLen, payload |-> 0, ident |-> ident,
                    seq_num |-> (syn_seq + 1) % SeqSpace]
       /\ base_ident = ident /\ idents = {ident}
  /\ base_len = HeaderLen
  /\ attempt = 1 /\ step = 1 /\ phase = "sending"
  /\ fake_sent = FALSE /\ done = 0

-----------------------------------------------------------------------------
(* Where the payload is cut. *)

AtLeastOne(n) == IF n < 1 THEN 1 ELSE n

\* Two halves, the first not empty.
Halves(n) == LET half == AtLeastOne(n \div 2) IN <<half, n - half>>

\* Mutant: the third piece is cut like the second one.
PiecesShort(n) ==
  IF n < 3 THEN <<n>>
  ELSE <<AtLeastOne((2 * n) \div 5), AtLeastOne((3 * n) \div 10), AtLeastOne((3 * n) \div 10)>>

\* 40%, 30% and the rest; a payload too small for three pieces stays whole.
Pieces(n) ==
  IF n < 3 THEN <<n>>
  ELSE LET len1 == AtLeastOne((2 * n) \div 5)
           third == AtLeastOne((3 * n) \div 10)
           len2 == IF len1 + third >= n THEN AtLeastOne((n - len1) \div 2) ELSE third
       IN  IF n - len1 - len2 < 1
             THEN <<len1, n - len1 - 1, 1>>
             ELSE <<len1, len2, n - len1 - len2>>

\* The segments of the attempt at hand.
Plan ==
  CASE wire_method = "fragmented" -> Pieces(total)
    [] wire_method = "split_seq" -> Halves(total)
    [] wire_method = "delayed_retry" /\ attempt = 2 -> Halves(total)
    [] OTHER -> <<total>>

\* Bytes of the payload before segment i.
Offset(i) == IF i = 1 THEN 0 ELSE IF i = 2 THEN Plan[1] ELSE Plan[1] + Plan[2]

\* Mutant: the sequence number of the ACK itself is not stepped over.
BaseAtSyn == (syn_seq - total) % SeqSpace

\* The whole payload ends where the real stream begins.
Base == (syn_seq + 1 - total) % SeqSpace

-----------------------------------------------------------------------------
\* Mutant: every segment of an attempt gets the same ident.
IdentOfAttempt(i) == (base_ident + 1) % IdentMod

IdentOf(i) == (base_ident + i) % IdentMod

\* The packet is made the next segment, and the last one of an attempt sets the
\* flag, before w.send() is called.
Fill ==
  /\ packet' = [packet_len |-> base_len + Plan[step], payload |-> Plan[step],
                ident |-> IdentOf(step), seq_num |-> (Base + Offset(step)) % SeqSpace]
  /\ fake_sent' = IF step < Len(Plan) THEN fake_sent ELSE TRUE

Send ==
  /\ phase = "sending" /\ Fill
  /\ done' = done + Plan[step]
  /\ idents' = idents \cup {IdentOf(step)}
  /\ IF step < Len(Plan)
       THEN step' = step + 1 /\ UNCHANGED phase
       ELSE /\ phase' = IF wire_method = "delayed_retry" /\ attempt = 1 THEN "pause" ELSE "end"
            /\ UNCHANGED step
  /\ UNCHANGED <<wire_method, syn_seq, total, base_len, base_ident, attempt>>

\* The driver refuses the segment; the connection is closed with the lock held.
SendFails ==
  /\ phase = "sending" /\ Fill
  /\ phase' = "closed"
  /\ UNCHANGED <<wire_method, syn_seq, total, base_len, base_ident, attempt, step, done, idents>>

\* Mutant: the packet is taken to be the bare ACK still.
RetryOnGrown ==
  /\ phase = "pause"
  /\ attempt' = 2 /\ step' = 1 /\ phase' = "sending" /\ done' = 0
  /\ base_len' = packet.packet_len
  /\ base_ident' = packet.ident
  /\ UNCHANGED <<wire_method, syn_seq, total, packet, fake_sent, idents>>

\* After 1.5 s the same packet again, with the length attempt 1 added taken off.
Retry ==
  /\ phase = "pause"
  /\ attempt' = 2 /\ step' = 1 /\ phase' = "sending" /\ done' = 0
  /\ base_len' = packet.packet_len - packet.payload
  /\ base_ident' = packet.ident
  /\ UNCHANGED <<wire_method, syn_seq, total, packet, fake_sent, idents>>

\* The connection has been given up or has its verdict.
Stop ==
  /\ phase \in {"sending", "pause"} /\ phase' = "end"
  /\ UNCHANGED <<wire_method, syn_seq, total, packet, base_len, base_ident, attempt, step,
                 fake_sent, done, idents>>

JNext == Send \/ SendFails \/ Retry \/ Stop

JSpec == JInit /\ [][JNext]_jvars

-----------------------------------------------------------------------------
(* Correctness. *)

\* Type invariant.
JTypeOK ==
  /\ wire_method \in Methods /\ syn_seq \in 0 .. SeqSpace - 1
  /\ total \in Nat \ {0} /\ 2 * total < SeqSpace
  /\ packet \in [packet_len : Nat, payload : Nat, ident : 0 .. IdentMod - 1,
                 seq_num : 0 .. SeqSpace - 1]
  /\ base_len \in Nat /\ base_ident \in 0 .. IdentMod - 1
  /\ attempt \in {1, 2} /\ step \in 1 .. 3 /\ phase \in {"sending", "pause", "end", "closed"}
  /\ fake_sent \in BOOLEAN /\ done \in 0 .. total
  /\ idents \subseteq 0 .. IdentMod - 1

\* How far before the first byte of the real stream a sequence number is.  A
\* receiver takes less than half of SeqSpace for old.
Behind(seq) == (syn_seq + 1 - seq) % SeqSpace

\* Every segment lies in old sequence space, right behind the segment before it,
\* wherever the sequence numbers wrap: the server has acknowledged all of it and
\* ignores it, and a box on the way reads the payload from its first byte on
\* (fake_tcp.py:56-58).
OldSpace ==
  done > 0 /\ phase # "closed" => Behind(packet.seq_num) = total - done + packet.payload

\* The flag the observer trusts (fake_tcp.py:440) is set only when the segments
\* of the attempt add up to the whole payload, however it was cut; a flag set for
\* a segment the driver refused is never seen, the connection is closed by then.
FlagEarned == fake_sent /\ attempt = 1 /\ phase # "closed" => done = total

\* The IP length of the packet is that of what it carries, although the length
\* is written before the payload and the packet is used again (fake_tcp.py:199).
LengthTrue == packet.packet_len = HeaderLen + packet.payload

\* No two packets of a job have the same IP ident.
IdentFresh == [][packet' # packet => packet'.ident \notin idents]_jvars

-----------------------------------------------------------------------------
\* The inductive invariant behind OldSpace, FlagEarned and LengthTrue: where the
\* attempt is in its plan.
Progress ==
  /\ base_len = HeaderLen
  /\ phase = "sending" => step <= Len(Plan) /\ done = Offset(step)
  /\ phase = "sending" /\ attempt = 1 => ~fake_sent
  /\ phase = "pause" => attempt = 1 /\ wire_method = "delayed_retry"

SInv == JTypeOK /\ Progress /\ OldSpace /\ FlagEarned /\ LengthTrue
=============================================================================
