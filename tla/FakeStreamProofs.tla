-------------------------- MODULE FakeStreamProofs --------------------------
(***************************************************************************)
(* Proofs about FakeStream, for every payload length, every initial        *)
(* sequence number and every modulus.  The library says little of % and    *)
(* \div: the first lemmas are the modular arithmetic the rest needs.       *)
(***************************************************************************)
EXTENDS FakeStream, TLAPS

\* Division with remainder.
LEMMA DivMod ==
  ASSUME NEW W \in Nat \ {0}, NEW a \in Int
  PROVE  a % W \in 0 .. W - 1 /\ a \div W \in Int /\ a = W * (a \div W) + (a % W)
  OBVIOUS

LEMMA RemainderUnique ==
  ASSUME NEW W \in Nat \ {0}, NEW q \in Int, NEW p \in Int,
         NEW r \in 0 .. W - 1, NEW s \in 0 .. W - 1, W * q + r = W * p + s
  PROVE  r = s
  <1>1. CASE q = p
    BY <1>1
  <1>2. CASE q >= p + 1
    <2>1. W * q >= W * (p + 1)
      BY <1>2
    <2>2. W * (p + 1) = W * p + W
      OBVIOUS
    <2>3. QED
      BY <2>1, <2>2
  <1>3. CASE p >= q + 1
    <2>1. W * p >= W * (q + 1)
      BY <1>3
    <2>2. W * (q + 1) = W * q + W
      OBVIOUS
    <2>3. QED
      BY <2>1, <2>2
  <1>4. QED
    BY <1>1, <1>2, <1>3

\* Whole turns do not show.
LEMMA TurnsVanish ==
  ASSUME NEW W \in Nat \ {0}, NEW x \in Int, NEW q \in Int
  PROVE  (x + W * q) % W = x % W
  <1> DEFINE y == x + W * q
             k == x \div W + q
             j == y \div W
             r == x % W
             s == y % W
  <1>1. y \in Int
    OBVIOUS
  <1>2. r \in 0 .. W - 1 /\ x \div W \in Int /\ x = W * (x \div W) + r
    BY DivMod
  <1>3. s \in 0 .. W - 1 /\ j \in Int /\ y = W * j + s
    BY <1>1, DivMod
  <1>4. k \in Int /\ W * k = W * (x \div W) + W * q
    BY <1>2
  <1>8. y = x + W * q /\ r \in Int /\ s \in Int /\ W * q \in Int /\ W * (x \div W) \in Int
    BY <1>2, <1>3
  <1> HIDE DEF y, k, j, r, s
  <1>5. W * k + r = W * j + s
    BY <1>2, <1>3, <1>4, <1>8
  <1>6. r = s
    BY <1>2, <1>3, <1>4, <1>5, RemainderUnique
  <1>7. QED
    BY <1>6 DEF r, s, y

LEMMA ModAdd ==
  ASSUME NEW W \in Nat \ {0}, NEW a \in Int, NEW b \in Int
  PROVE  ((a % W) + b) % W = (a + b) % W
  <1> DEFINE x == (a % W) + b
             q == a \div W
  <1>1. a % W \in Int /\ q \in Int /\ a = W * q + (a % W)
    BY DivMod
  <1>2. x \in Int /\ a + b = x + W * q
    BY <1>1
  <1> HIDE DEF x, q
  <1>3. (x + W * q) % W = x % W
    BY <1>1, <1>2, TurnsVanish
  <1>4. QED
    BY <1>2, <1>3 DEF x

LEMMA ModSub ==
  ASSUME NEW W \in Nat \ {0}, NEW a \in Int, NEW b \in Int
  PROVE  (b - (a % W)) % W = (b - a) % W
  <1> DEFINE x == b - a
             q == a \div W
  <1>1. a % W \in Int /\ q \in Int /\ a = W * q + (a % W)
    BY DivMod
  <1>2. x \in Int /\ b - (a % W) = x + W * q
    BY <1>1
  <1> HIDE DEF x, q
  <1>3. (x + W * q) % W = x % W
    BY <1>1, <1>2, TurnsVanish
  <1>4. QED
    BY <1>2, <1>3 DEF x

LEMMA ModSmall ==
  ASSUME NEW W \in Nat \ {0}, NEW a \in 0 .. W - 1
  PROVE  a % W = a
  OBVIOUS

-----------------------------------------------------------------------------
(* The cuts. *)

LEMMA PiecesTile ==
  ASSUME NEW n \in Nat, n >= 3
  PROVE  \E a, b, c \in Nat \ {0} : Pieces(n) = <<a, b, c>> /\ a + b + c = n
  <1> DEFINE len1 == AtLeastOne((2 * n) \div 5)
             third == AtLeastOne((3 * n) \div 10)
             len2 == IF len1 + third >= n THEN AtLeastOne((n - len1) \div 2) ELSE third
  <1>1. len1 \in Nat \ {0} /\ third \in Nat \ {0} /\ len1 + third < n
    BY DEF AtLeastOne
  <1>2. len2 = third
    BY <1>1
  <1>3. Pieces(n) = <<len1, len2, n - len1 - len2>>
    BY <1>1, <1>2 DEF Pieces
  <1>4. QED
    BY <1>1, <1>2, <1>3

LEMMA HalvesTile ==
  ASSUME NEW n \in Nat \ {0}
  PROVE  \E a \in Nat \ {0}, b \in Nat : Halves(n) = <<a, b>> /\ a + b = n
  <1> DEFINE half == AtLeastOne(n \div 2)
  <1>1. half \in Nat \ {0} /\ n - half \in Nat
    BY DEF AtLeastOne
  <1>2. QED
    BY <1>1 DEF Halves

\* The segments of an attempt follow each other and make up the payload.
LEMMA PlanTiles ==
  ASSUME total \in Nat \ {0}
  PROVE  /\ Len(Plan) \in 1 .. 3 /\ Plan[1] \in Nat \ {0}
         /\ \A i \in 1 .. Len(Plan) :
              /\ Plan[i] \in Nat /\ Offset(i) \in Nat /\ Offset(i) + Plan[i] <= total
              /\ i < Len(Plan) => Offset(i + 1) = Offset(i) + Plan[i]
              /\ i = Len(Plan) => Offset(i) + Plan[i] = total
  <1>1. CASE Plan = <<total>>
    BY <1>1 DEF Offset
  <1>2. ASSUME NEW a \in Nat \ {0}, NEW b \in Nat, Plan = <<a, b>>, a + b = total
        PROVE  /\ Len(Plan) \in 1 .. 3 /\ Plan[1] \in Nat \ {0}
               /\ \A i \in 1 .. Len(Plan) :
                    /\ Plan[i] \in Nat /\ Offset(i) \in Nat /\ Offset(i) + Plan[i] <= total
                    /\ i < Len(Plan) => Offset(i + 1) = Offset(i) + Plan[i]
                    /\ i = Len(Plan) => Offset(i) + Plan[i] = total
    BY <1>2 DEF Offset
  <1>3. ASSUME NEW a \in Nat \ {0}, NEW b \in Nat \ {0}, NEW c \in Nat \ {0},
               Plan = <<a, b, c>>, a + b + c = total
        PROVE  /\ Len(Plan) \in 1 .. 3 /\ Plan[1] \in Nat \ {0}
               /\ \A i \in 1 .. Len(Plan) :
                    /\ Plan[i] \in Nat /\ Offset(i) \in Nat /\ Offset(i) + Plan[i] <= total
                    /\ i < Len(Plan) => Offset(i + 1) = Offset(i) + Plan[i]
                    /\ i = Len(Plan) => Offset(i) + Plan[i] = total
    BY <1>3 DEF Offset
  <1>4. \/ Plan = <<total>>
        \/ \E a \in Nat \ {0}, b \in Nat : Plan = <<a, b>> /\ a + b = total
        \/ \E a, b, c \in Nat \ {0} : Plan = <<a, b, c>> /\ a + b + c = total
    <2>1. CASE wire_method = "fragmented" /\ total >= 3
      <3>1. Plan = Pieces(total)
        BY <2>1 DEF Plan
      <3>2. QED
        BY <2>1, <3>1, PiecesTile
    <2>2. CASE wire_method = "fragmented" /\ ~(total >= 3)
      BY <2>2 DEF Plan, Pieces
    <2>3. CASE wire_method = "split_seq" \/ (wire_method = "delayed_retry" /\ attempt = 2)
      <3>1. Plan = Halves(total)
        BY <2>3 DEF Plan
      <3>2. QED
        BY <3>1, HalvesTile
    <2>4. CASE ~(wire_method = "fragmented" \/ wire_method = "split_seq"
                 \/ (wire_method = "delayed_retry" /\ attempt = 2))
      BY <2>4 DEF Plan
    <2>5. QED
      BY <2>1, <2>2, <2>3, <2>4
  <1>5. QED
    BY <1>1, <1>2, <1>3, <1>4

-----------------------------------------------------------------------------
(* Sequence numbers. *)

\* A byte at an offset of the payload is as far behind the real stream as the
\* payload has bytes left.
LEMMA BehindOffset ==
  ASSUME JTypeOK, NEW off \in 0 .. total
  PROVE  /\ (Base + off) % SeqSpace \in 0 .. SeqSpace - 1
         /\ Behind((Base + off) % SeqSpace) = total - off
  <1>1. SeqSpace \in Nat \ {0} /\ syn_seq \in Int /\ total \in Nat /\ total < SeqSpace
    BY StreamAssumption DEF JTypeOK
  <1> DEFINE a == syn_seq + 1 - total
             b == syn_seq + 1
             z == (Base + off) % SeqSpace
  <1>2. a \in Int /\ b \in Int /\ off \in Int /\ a + off \in Int /\ b - (a + off) = total - off
    BY <1>1
  <1>3. Base = a % SeqSpace
    BY DEF Base
  <1>4. z = (Base + off) % SeqSpace
    OBVIOUS
  <1> HIDE DEF z
  <1>5. Behind(z) = (syn_seq + 1 - z) % SeqSpace
    BY Zenon DEF Behind
  <1>6. Behind(z) = (b - z) % SeqSpace
    <2>1. Base \in Int /\ Base + off \in Int
      BY <1>1, <1>2, <1>3, DivMod
    <2>2. z \in Int
      BY <1>1, <1>4, <2>1, DivMod
    <2>3. syn_seq + 1 - z = b - z
      BY <1>1, <2>2
    <2>4. QED
      BY <1>5, <2>3
  <1> HIDE DEF a, b
  <1>7. z = (a + off) % SeqSpace
    BY <1>1, <1>2, <1>3, <1>4, ModAdd
  <1>8. (a + off) % SeqSpace \in 0 .. SeqSpace - 1
    BY <1>1, <1>2, DivMod
  <1>9. (b - ((a + off) % SeqSpace)) % SeqSpace = (b - (a + off)) % SeqSpace
    BY <1>1, <1>2, ModSub
  <1>10. total - off \in 0 .. SeqSpace - 1
    BY <1>1
  <1>11. (total - off) % SeqSpace = total - off
    BY <1>1, <1>10, ModSmall
  <1>12. QED
    BY <1>2, <1>7, <1>8, <1>9, <1>11, <1>4, <1>6

-----------------------------------------------------------------------------
LEMMA SInit == JInit => SInv
  <1> SUFFICES ASSUME JInit PROVE SInv
    OBVIOUS
  <1>1. total \in Nat \ {0} /\ 2 * total < SeqSpace
    BY StreamAssumption DEF JInit
  <1>2. (syn_seq + 1) % SeqSpace \in 0 .. SeqSpace - 1
    <2>1. syn_seq + 1 \in Int /\ SeqSpace \in Nat \ {0}
      BY StreamAssumption DEF JInit
    <2>2. QED
      BY <2>1, DivMod
  <1>3. JTypeOK
    <2>1. PICK ident \in Idents :
            /\ packet = [packet_len |-> HeaderLen, payload |-> 0, ident |-> ident,
                         seq_num |-> (syn_seq + 1) % SeqSpace]
            /\ base_ident = ident /\ idents = {ident}
      BY DEF JInit
    <2>2. ident \in 0 .. IdentMod - 1 /\ syn_seq \in 0 .. SeqSpace - 1 /\ HeaderLen \in Nat
      BY StreamAssumption DEF JInit
    <2>3. packet \in [packet_len : Nat, payload : Nat, ident : 0 .. IdentMod - 1,
                      seq_num : 0 .. SeqSpace - 1]
      BY <1>2, <2>1, <2>2
    <2>4. base_len \in Nat /\ base_ident \in 0 .. IdentMod - 1 /\ idents \subseteq 0 .. IdentMod - 1
      BY <2>1, <2>2 DEF JInit
    <2>5. /\ wire_method \in Methods /\ attempt \in {1, 2} /\ step \in 1 .. 3
          /\ phase \in {"sending", "pause", "end"} /\ done \in 0 .. total
      BY <1>1 DEF JInit
    <2>6. fake_sent \in BOOLEAN
      BY DEF JInit
    <2>7. QED
      BY <1>1, <2>2, <2>3, <2>4, <2>5, <2>6 DEF JTypeOK
  <1>4. Progress /\ OldSpace /\ FlagEarned /\ LengthTrue
    BY <1>1, PlanTiles, StreamAssumption DEF JInit, Progress, OldSpace, FlagEarned, LengthTrue, Offset
  <1>5. QED
    BY <1>3, <1>4 DEF SInv

\* What both outcomes of a send share: the packet is the next segment of the plan.
LEMMA Filled ==
  ASSUME SInv, phase = "sending", Fill
  PROVE  /\ packet' = [packet_len |-> HeaderLen + Plan[step], payload |-> Plan[step],
                       ident |-> IdentOf(step), seq_num |-> (Base + Offset(step)) % SeqSpace]
         /\ packet' \in [packet_len : Nat, payload : Nat, ident : 0 .. IdentMod - 1,
                         seq_num : 0 .. SeqSpace - 1]
         /\ Behind((Base + Offset(step)) % SeqSpace) = total - Offset(step)
         /\ fake_sent' \in BOOLEAN /\ IdentOf(step) \in 0 .. IdentMod - 1
  <1>1. total \in Nat \ {0} /\ step \in 1 .. Len(Plan)
    BY DEF SInv, JTypeOK, Progress
  <1>2. /\ Len(Plan) \in 1 .. 3 /\ Plan[step] \in Nat /\ Offset(step) \in 0 .. total
    BY <1>1, PlanTiles
  <1>3. packet' = [packet_len |-> HeaderLen + Plan[step], payload |-> Plan[step],
                   ident |-> IdentOf(step), seq_num |-> (Base + Offset(step)) % SeqSpace]
    BY DEF Fill, SInv, Progress
  <1>4. /\ (Base + Offset(step)) % SeqSpace \in 0 .. SeqSpace - 1
        /\ Behind((Base + Offset(step)) % SeqSpace) = total - Offset(step)
    BY <1>2, BehindOffset DEF SInv
  <1>5. IdentOf(step) \in 0 .. IdentMod - 1
    <2>1. base_ident + step \in Int /\ IdentMod \in Nat \ {0}
      BY <1>1, <1>2, StreamAssumption DEF SInv, JTypeOK
    <2>2. QED
      BY <2>1, DivMod DEF IdentOf
  <1>6. fake_sent' \in BOOLEAN
    BY DEF Fill, SInv, JTypeOK
  <1>7. HeaderLen + Plan[step] \in Nat
    BY <1>2, StreamAssumption
  <1>8. QED
    BY <1>2, <1>3, <1>4, <1>5, <1>6, <1>7

LEMMA SendStep == SInv /\ Send => SInv'
  <1> SUFFICES ASSUME SInv, Send PROVE SInv'
    OBVIOUS
  <1> DEFINE size == Plan[step]
             off == Offset(step)
  <1>1. /\ total \in Nat \ {0} /\ step \in 1 .. Len(Plan) /\ done = off
        /\ attempt = 1 => ~fake_sent
    BY DEF SInv, JTypeOK, Progress, Send
  <1>2. /\ Len(Plan) \in 1 .. 3 /\ size \in Nat /\ off \in Nat /\ off + size <= total
        /\ step < Len(Plan) => Offset(step + 1) = off + size
        /\ step = Len(Plan) => off + size = total
    BY <1>1, PlanTiles
  <1>3. /\ packet' = [packet_len |-> HeaderLen + size, payload |-> size,
                      ident |-> IdentOf(step), seq_num |-> (Base + off) % SeqSpace]
        /\ packet' \in [packet_len : Nat, payload : Nat, ident : 0 .. IdentMod - 1,
                        seq_num : 0 .. SeqSpace - 1]
        /\ Behind((Base + off) % SeqSpace) = total - off
        /\ fake_sent' \in BOOLEAN /\ IdentOf(step) \in 0 .. IdentMod - 1
    BY Filled DEF Send
  <1>4. done' = off + size /\ UNCHANGED <<wire_method, syn_seq, total, base_len, base_ident, attempt>>
    BY <1>1 DEF Send
  <1>5. Plan' = Plan /\ \A i : Offset(i)' = Offset(i)
    BY <1>4 DEF Plan, Offset
  <1>6. /\ step' \in 1 .. 3 /\ phase' \in {"sending", "pause", "end"}
        /\ idents' \subseteq 0 .. IdentMod - 1
    <2>1. idents' \subseteq 0 .. IdentMod - 1
      BY <1>3 DEF Send, SInv, JTypeOK
    <2>2. step' \in 1 .. 3
      <3>1. step' = IF step < Len(Plan) THEN step + 1 ELSE step
        BY DEF Send
      <3> DEFINE n == Len(Plan)
      <3>2. n \in 1 .. 3 /\ step \in 1 .. n /\ step' = IF step < n THEN step + 1 ELSE step
        BY <1>1, <1>2, <3>1
      <3> HIDE DEF n
      <3>3. QED
        BY <3>2
    <2>3. phase' \in {"sending", "pause", "end"}
      BY DEF Send
    <2>4. QED
      BY <2>1, <2>2, <2>3
  <1> HIDE DEF size, off
  <1>7. JTypeOK'
    BY <1>1, <1>2, <1>3, <1>4, <1>6, StreamAssumption DEF SInv, JTypeOK
  <1>8. Progress'
    BY <1>1, <1>2, <1>4, <1>5 DEF Send, Fill, SInv, Progress, size, off
  <1>9. OldSpace'
    <2>1. Behind(packet.seq_num)' = Behind((Base + off) % SeqSpace)
      BY <1>3, <1>4 DEF Behind
    <2>2. QED
      BY <1>1, <1>2, <1>3, <1>4, <2>1 DEF OldSpace
  <1>10. FlagEarned'
    <2>1. CASE step < Len(Plan)
      BY <1>1, <1>4, <2>1 DEF Send, Fill, FlagEarned
    <2>2. CASE ~(step < Len(Plan))
      <3>1. step = Len(Plan)
        BY <1>1, <1>2, <2>2
      <3>2. QED
        BY <1>2, <1>4, <3>1 DEF FlagEarned
    <2>3. QED
      BY <2>1, <2>2
  <1>11. LengthTrue'
    BY <1>3 DEF LengthTrue
  <1>12. QED
    BY <1>7, <1>8, <1>9, <1>10, <1>11 DEF SInv

LEMMA SendFailsStep == SInv /\ SendFails => SInv'
  <1> SUFFICES ASSUME SInv, SendFails PROVE SInv'
    OBVIOUS
  <1>1. /\ packet' = [packet_len |-> HeaderLen + Plan[step], payload |-> Plan[step],
                      ident |-> IdentOf(step), seq_num |-> (Base + Offset(step)) % SeqSpace]
        /\ packet' \in [packet_len : Nat, payload : Nat, ident : 0 .. IdentMod - 1,
                        seq_num : 0 .. SeqSpace - 1]
        /\ fake_sent' \in BOOLEAN
    BY Filled DEF SendFails
  <1>2. phase' = "closed" /\ UNCHANGED <<wire_method, syn_seq, total, base_len, base_ident,
                                      attempt, step, done, idents>>
    BY DEF SendFails
  <1>3. JTypeOK'
    BY <1>1, <1>2 DEF SInv, JTypeOK
  <1>4. Progress' /\ OldSpace' /\ FlagEarned'
    BY <1>2 DEF SInv, Progress, OldSpace, FlagEarned
  <1>5. LengthTrue'
    BY <1>1 DEF LengthTrue
  <1>6. QED
    BY <1>3, <1>4, <1>5 DEF SInv

LEMMA RetryStep == SInv /\ Retry => SInv'
  <1> SUFFICES ASSUME SInv, Retry PROVE SInv'
    OBVIOUS
  <1>1. packet.packet_len = HeaderLen + packet.payload /\ packet.payload \in Nat /\ HeaderLen \in Nat
    BY StreamAssumption DEF SInv, LengthTrue, JTypeOK
  <1>2. base_len' = HeaderLen
    BY <1>1 DEF Retry
  <1>3. JTypeOK'
    BY <1>2, StreamAssumption DEF Retry, SInv, JTypeOK
  <1>4. Plan' = Halves(total)
    BY DEF Retry, SInv, Progress, Plan
  <1>5. Len(Plan') = 2
    BY <1>4, HalvesTile DEF SInv, JTypeOK
  <1>6. Progress'
    BY <1>2, <1>5 DEF Retry, SInv, Progress, Offset
  <1>7. OldSpace' /\ FlagEarned' /\ LengthTrue'
    BY DEF Retry, SInv, OldSpace, FlagEarned, LengthTrue
  <1>8. QED
    BY <1>3, <1>6, <1>7 DEF SInv

LEMMA StopStep == SInv /\ (Stop \/ UNCHANGED jvars) => SInv'
  <1> SUFFICES ASSUME SInv, Stop \/ UNCHANGED jvars PROVE SInv'
    OBVIOUS
  <1>1. /\ UNCHANGED <<wire_method, syn_seq, total, packet, base_len, base_ident, attempt, step,
                       fake_sent, done, idents>>
        /\ phase' = phase \/ (phase' = "end" /\ phase # "closed")
    BY DEF Stop, jvars
  <1>2. Plan' = Plan /\ Offset(step)' = Offset(step) /\ Behind(packet.seq_num)' = Behind(packet.seq_num)
    BY <1>1 DEF Plan, Offset, Behind
  <1>3. JTypeOK'
    BY <1>1 DEF SInv, JTypeOK
  <1>4. QED
    BY <1>1, <1>2, <1>3 DEF SInv, Progress, OldSpace, FlagEarned, LengthTrue

\* The inductive invariant of the fake stream.
THEOREM StreamInvariance == JSpec => []SInv
  <1>1. SInv /\ [JNext]_jvars => SInv'
    BY SendStep, SendFailsStep, RetryStep, StopStep DEF JNext
  <1>2. QED
    BY SInit, <1>1, PTL DEF JSpec

\* Every fake segment is in old sequence space, for every ISN, also where the
\* numbers wrap, and follows the one before it.
THEOREM SegmentsAreOld == JSpec => []OldSpace
  <1>1. SInv => OldSpace
    BY DEF SInv
  <1>2. QED
    BY StreamInvariance, <1>1, PTL

\* fake_sent means that the segments of the attempt make up the whole payload,
\* for every length of it.
THEOREM FlagIsEarned == JSpec => []FlagEarned
  <1>1. SInv => FlagEarned
    BY DEF SInv
  <1>2. QED
    BY StreamInvariance, <1>1, PTL

\* The IP length is right after every change of the packet, the retry included.
THEOREM LengthIsTrue == JSpec => []LengthTrue
  <1>1. SInv => LengthTrue
    BY DEF SInv
  <1>2. QED
    BY StreamInvariance, <1>1, PTL

\* Type correctness of a job: sequence numbers and idents never leave their fields,
\* for every width of them, and no attempt sends more than its payload.
THEOREM StreamTyped == JSpec => []JTypeOK
  <1>1. SInv => JTypeOK
    BY DEF SInv
  <1>2. QED
    BY StreamInvariance, <1>1, PTL

-----------------------------------------------------------------------------
(* No ident is used twice: a job sends three packets at most beside the ACK, *)
(* and there are more idents than that.                                      *)

\* The idents of the packets sent are the n + 1 that end at top.
Trail(n, top) == \A d \in idents : \E j \in 0 .. n : d = (top - j) % IdentMod

IdentInv ==
  /\ attempt = 2 => wire_method = "delayed_retry"
  /\ phase = "sending" => Trail(step + attempt - 2, base_ident + step - 1)
  /\ phase = "pause" => packet.ident = (base_ident + 1) % IdentMod /\ Trail(1, base_ident + 1)

\* Two numbers less than a turn apart have different remainders.
LEMMA ModDistinct ==
  ASSUME NEW W \in Nat \ {0}, NEW a \in Int, NEW k \in Int, 0 < k, k < W
  PROVE  (a + k) % W # a % W
  <1> DEFINE r == a % W
             q == a \div W
             s == (a + k) % W
             p == (a + k) \div W
  <1>1. r \in Int /\ q \in Int /\ a = W * q + r
    BY DivMod
  <1>2. a + k \in Int
    OBVIOUS
  <1>3. s \in Int /\ p \in Int /\ a + k = W * p + s
    BY <1>2, DivMod
  <1> HIDE DEF r, q, s, p
  <1>4. SUFFICES ASSUME s = r PROVE FALSE
    BY DEF s, r
  <1>5. W * p \in Int /\ W * q \in Int /\ k = W * p - W * q
    BY <1>1, <1>3, <1>4
  <1>6. CASE p >= q + 1
    <2>1. W * p >= W * (q + 1)
      BY <1>1, <1>3, <1>6
    <2>2. W * (q + 1) = W * q + W
      BY <1>1
    <2>3. QED
      BY <1>5, <2>1, <2>2
  <1>7. CASE q >= p
    <2>1. W * q >= W * p
      BY <1>1, <1>3, <1>7
    <2>2. QED
      BY <1>5, <2>1
  <1>8. QED
    BY <1>1, <1>3, <1>6, <1>7

\* A job sends at most three packets.
LEMMA FewPackets ==
  ASSUME SInv, IdentInv, phase = "sending"
  PROVE  /\ step \in 1 .. 3 /\ attempt \in {1, 2} /\ base_ident \in Nat
         /\ step + attempt \in 2 .. 4 /\ (attempt = 1 \/ step <= 2)
  <1>1. step \in 1 .. Len(Plan) /\ total \in Nat \ {0} /\ attempt \in {1, 2}
    BY DEF SInv, JTypeOK, Progress
  <1>2. Len(Plan) \in 1 .. 3
    BY <1>1, PlanTiles
  <1>3. base_ident \in Nat
    BY StreamAssumption DEF SInv, JTypeOK
  <1>4. ASSUME attempt = 2 PROVE Len(Plan) = 2
    <2>1. Plan = Halves(total)
      BY <1>4 DEF Plan, IdentInv
    <2>2. QED
      BY <1>1, <2>1, HalvesTile
  <1> DEFINE n == Len(Plan)
  <1>5. n \in 1 .. 3 /\ step \in 1 .. n /\ (attempt = 2 => n = 2)
    BY <1>1, <1>2, <1>4
  <1> HIDE DEF n
  <1>6. QED
    BY <1>1, <1>3, <1>5

\* The ident of the segment that comes next is new.
LEMMA NextIsNew ==
  ASSUME SInv, IdentInv, phase = "sending"
  PROVE  IdentOf(step) \notin idents
  <1>1. SUFFICES ASSUME NEW d \in idents PROVE d # (base_ident + step) % IdentMod
    BY DEF IdentOf
  <1>2. /\ step \in 1 .. 3 /\ attempt \in {1, 2} /\ base_ident \in Nat
        /\ step + attempt \in 2 .. 4
    BY FewPackets
  <1>3. PICK j \in 0 .. step + attempt - 2 : d = ((base_ident + step - 1) - j) % IdentMod
    <2>1. Trail(step + attempt - 2, base_ident + step - 1)
      BY DEF IdentInv
    <2>2. QED
      BY <2>1, Zenon DEF Trail
  <1> DEFINE a == (base_ident + step - 1) - j
             k == j + 1
  <1>4. a \in Int /\ k \in Int /\ 0 < k /\ k < IdentMod /\ a + k = base_ident + step
    BY <1>2, StreamAssumption
  <1>5. IdentMod \in Nat \ {0}
    BY StreamAssumption
  <1>6. d = a % IdentMod
    BY <1>3
  <1> HIDE DEF a, k
  <1>7. (a + k) % IdentMod # a % IdentMod
    BY <1>4, <1>5, ModDistinct
  <1>8. QED
    BY <1>4, <1>6, <1>7

LEMMA IdentStep == SInv /\ IdentInv /\ [JNext]_jvars => IdentInv'
  <1> SUFFICES ASSUME SInv, IdentInv, [JNext]_jvars PROVE IdentInv'
    OBVIOUS
  <1>1. CASE Send
    <2>1. /\ step \in 1 .. 3 /\ attempt \in {1, 2} /\ base_ident \in Nat
          /\ step + attempt \in 2 .. 4
      BY <1>1, FewPackets DEF Send
    <2>2. UNCHANGED <<wire_method, base_ident, attempt>> /\ idents' = idents \cup {IdentOf(step)}
      BY <1>1 DEF Send
    <2>4. \A d \in idents' : \E j \in 0 .. step + attempt - 1 : d = ((base_ident + step) - j) % IdentMod
      <3>1. ASSUME NEW d \in idents
            PROVE  \E j \in 0 .. step + attempt - 1 : d = ((base_ident + step) - j) % IdentMod
        <4>1. PICK i \in 0 .. step + attempt - 2 : d = ((base_ident + step - 1) - i) % IdentMod
          <5>1. Trail(step + attempt - 2, base_ident + step - 1)
            BY <1>1 DEF Send, IdentInv
          <5>2. QED
            BY <3>1, <5>1, Zenon DEF Trail
        <4>2. i + 1 \in 0 .. step + attempt - 1 /\ (base_ident + step) - (i + 1) = (base_ident + step - 1) - i
          BY <2>1
        <4>3. d = ((base_ident + step) - (i + 1)) % IdentMod
          BY <4>1, <4>2
        <4>4. QED
          BY <4>2, <4>3
      <3>2. \E j \in 0 .. step + attempt - 1 : IdentOf(step) = ((base_ident + step) - j) % IdentMod
        <4>1. 0 \in 0 .. step + attempt - 1 /\ (base_ident + step) - 0 = base_ident + step
          BY <2>1
        <4>2. IdentOf(step) = ((base_ident + step) - 0) % IdentMod
          BY <4>1 DEF IdentOf
        <4>3. QED
          BY <4>1, <4>2
      <3>3. QED
        BY <2>2, <3>1, <3>2
    <2>5. CASE phase' = "sending"
      <3>1. step' = step + 1
        BY <1>1, <2>5 DEF Send
      <3>2. step' + attempt' - 2 = step + attempt - 1 /\ base_ident' + step' - 1 = base_ident + step
        BY <2>1, <2>2, <3>1
      <3>3. \A d \in idents' :
              \E j \in 0 .. step' + attempt' - 2 : d = ((base_ident' + step' - 1) - j) % IdentMod
        BY <2>4, <3>2, Zenon
      <3>4. Trail(step + attempt - 2, base_ident + step - 1)'
        BY <3>3, Zenon DEF Trail
      <3>5. QED
        BY <2>2, <2>5, <3>4 DEF IdentInv
    <2>6. CASE phase' = "pause"
      <3>1. wire_method = "delayed_retry" /\ attempt = 1 /\ ~(step < Len(Plan))
        BY <1>1, <2>6 DEF Send
      <3>2. Len(Plan) = 1 /\ step = 1
        BY <1>1, <2>1, <3>1 DEF Send, Plan, SInv, Progress
      <3>3. packet'.ident = IdentOf(step)
        BY <1>1, Filled DEF Send
      <3>4. packet'.ident = (base_ident' + 1) % IdentMod
        BY <2>2, <3>2, <3>3 DEF IdentOf
      <3>5. Trail(1, base_ident + 1)'
        BY <2>1, <2>2, <2>4, <3>1, <3>2 DEF Trail
      <3>6. QED
        BY <2>2, <2>6, <3>4, <3>5 DEF IdentInv
    <2>7. CASE phase' \notin {"sending", "pause"}
      BY <2>2, <2>7 DEF IdentInv
    <2>8. QED
      BY <2>5, <2>6, <2>7
  <1>2. CASE SendFails
    BY <1>2 DEF SendFails, IdentInv
  <1>3. CASE Retry
    <2>1. /\ packet.ident = (base_ident + 1) % IdentMod /\ base_ident \in Nat
          /\ base_ident' = packet.ident /\ attempt' = 2 /\ step' = 1 /\ phase' = "sending"
          /\ UNCHANGED <<idents, wire_method>> /\ wire_method = "delayed_retry"
      BY <1>3, StreamAssumption DEF Retry, IdentInv, SInv, JTypeOK, Progress
    <2>2. ASSUME NEW d \in idents
          PROVE  \E j \in 0 .. 1 : d = (base_ident' - j) % IdentMod
      <3>1. PICK j \in 0 .. 1 : d = ((base_ident + 1) - j) % IdentMod
        <4>1. Trail(1, base_ident + 1)
          BY <1>3 DEF Retry, IdentInv
        <4>2. QED
          BY <2>2, <4>1, Zenon DEF Trail
      <3> DEFINE a == base_ident + 1
                 b == 0 - j
      <3>2. a \in Int /\ b \in Int /\ IdentMod \in Nat \ {0} /\ a + b = (base_ident + 1) - j
        BY <2>1, StreamAssumption
      <3>3. base_ident' = a % IdentMod /\ base_ident' \in Int
        BY <2>1, <3>2, DivMod
      <3>4. base_ident' - j = (a % IdentMod) + b
        BY <3>3
      <3>5. d = (a + b) % IdentMod
        BY <3>1, <3>2
      <3> HIDE DEF a, b
      <3>6. ((a % IdentMod) + b) % IdentMod = (a + b) % IdentMod
        BY <3>2, ModAdd
      <3>7. QED
        BY <3>4, <3>5, <3>6
    <2>3. base_ident' \in Int
      BY <2>1, StreamAssumption DEF Retry, SInv, JTypeOK
    <2>4. step' + attempt' - 2 = 1 /\ base_ident' + step' - 1 = base_ident'
      BY <2>1, <2>3
    <2>5. QED
      BY <2>1, <2>2, <2>4 DEF IdentInv, Trail
  <1>4. CASE Stop \/ UNCHANGED jvars
    BY <1>4 DEF Stop, jvars, IdentInv, Trail
  <1>5. QED
    BY <1>1, <1>2, <1>3, <1>4 DEF JNext

LEMMA IdentInit == JInit => IdentInv
  <1> SUFFICES ASSUME JInit PROVE IdentInv
    OBVIOUS
  <1>1. PICK ident \in Idents : base_ident = ident /\ idents = {ident}
    BY DEF JInit
  <1>2. ident \in 0 .. IdentMod - 1 /\ IdentMod \in Nat \ {0}
    BY StreamAssumption
  <1>3. ident % IdentMod = ident
    BY <1>2, ModSmall
  <1>4. step + attempt - 2 = 0 /\ (base_ident + step - 1) - 0 = ident /\ 0 \in 0 .. 0
    BY <1>1, <1>2 DEF JInit
  <1>5. \A d \in idents : d = ((base_ident + step - 1) - 0) % IdentMod
    BY <1>1, <1>3, <1>4
  <1>6. Trail(step + attempt - 2, base_ident + step - 1)
    <2>1. \A d \in idents :
            \E j \in 0 .. step + attempt - 2 : d = ((base_ident + step - 1) - j) % IdentMod
      BY <1>4, <1>5, Zenon
    <2>2. QED
      BY <2>1, Zenon DEF Trail
  <1>7. QED
    BY <1>6 DEF JInit, IdentInv

\* No two packets of a job have the same IP ident, with the retry and wherever the
\* idents wrap around.
THEOREM IdentsAreFresh == JSpec => IdentFresh
  <1>1. ASSUME SInv, IdentInv, [JNext]_jvars
        PROVE  [packet' # packet => packet'.ident \notin idents]_jvars
    <2>1. CASE Send \/ SendFails
      <3>1. phase = "sending" /\ Fill
        BY <2>1 DEF Send, SendFails
      <3>2. packet'.ident = IdentOf(step)
        BY <1>1, <3>1, Filled
      <3>3. QED
        BY <1>1, <3>1, <3>2, NextIsNew
    <2>2. CASE Retry \/ Stop \/ UNCHANGED jvars
      BY <2>2 DEF Retry, Stop, jvars
    <2>3. QED
      BY <1>1, <2>1, <2>2 DEF JNext
  <1>2. SInv /\ IdentInv /\ [JNext]_jvars => IdentInv'
    BY IdentStep
  <1>3. QED
    BY StreamInvariance, IdentInit, <1>1, <1>2, PTL DEF JSpec, IdentFresh
=============================================================================
