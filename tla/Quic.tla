--------------------------------- MODULE Quic ---------------------------------
(***************************************************************************)
(* utils/quic.py, byte by byte: the stub packet with a cleartext SNI, the  *)
(* scan that finds the SNI in a payload, and the swap of it.  Positions    *)
(* are counted from 0 as in the code.  A packet is built with one name and *)
(* then has its name swapped any number of times.                          *)
(***************************************************************************)
EXTENDS Integers, Sequences

CONSTANTS
  SNIS,       \* names, as bytes
  IDS,        \* answers of os.urandom(8)
  PADS,       \* answers of os.urandom(64)
  PNS         \* packet numbers

Bytes == 0 .. 255
Ascii == 0 .. 127

ASSUME QuicAssumption ==
  /\ SNIS \subseteq Seq(Ascii) /\ PNS \subseteq Bytes
  /\ IDS \subseteq [1 .. 8 -> Bytes] /\ PADS \subseteq [1 .. 64 -> Bytes]

VARIABLES
  stub,   \* the packet
  name,   \* history: the name it was given last
  built   \* history: the packet as it was built

qvars == <<stub, name, built>>

Dot == 46
Space == 32
Slash == 47
Byte(b, i) == b[i + 1]
Word(b, i) == 256 * Byte(b, i) + Byte(b, i + 1)
U16(v) == <<v \div 256, v % 256>>
Holds(s, v) == \E i \in DOMAIN s : s[i] = v
Cut(b, from, to) == SubSeq(b, from + 1, to)

QUIC_MAGIC == {80, 81, 82, 83}

\* Long header of type Initial, or a magic first byte of gQUIC.
IsQuic(b) ==
  /\ Len(b) >= 5
  /\ \/ Byte(b, 0) >= 128 /\ (Byte(b, 0) \div 16) % 4 = 0
     \/ Byte(b, 0) \in QUIC_MAGIC

-----------------------------------------------------------------------------
\* Mutant: the lengths inside the extension are not compared.
HeadedByType(b, i) == Byte(b, i) = 0 /\ Byte(b, i + 1) = 0 /\ Word(b, i + 7) \in 1 .. 253

\* What stands at i begins like a server_name extension: its three lengths agree.
Headed(b, i) ==
  /\ Byte(b, i) = 0 /\ Byte(b, i + 1) = 0
  /\ Word(b, i + 2) \in 7 .. 260
  /\ Word(b, i + 4) = Word(b, i + 2) - 2 /\ Byte(b, i + 6) = 0
  /\ Word(b, i + 7) \in 1 .. 253 /\ Word(b, i + 7) = Word(b, i + 2) - 5

SniLen(b, at) == Word(b, at + 7)
SniAt(b, at) == Cut(b, at + 9, at + 9 + SniLen(b, at))

\* A server_name extension with a host name starts at i.
Shape(b, i) == Headed(b, i) /\ i + 9 + SniLen(b, i) <= Len(b) /\ Holds(SniAt(b, i), Dot)

ScanLimit(b) == IF Len(b) - 9 < 8192 THEN Len(b) - 9 ELSE 8192

\* Where the first such extension starts, -1 when there is none.
FindExt(b) ==
  LET I == IF Len(b) < 15 THEN {} ELSE {i \in 0 .. ScanLimit(b) - 1 : Shape(b, i)}
  IN  IF I = {} THEN -1 ELSE CHOOSE i \in I : \A j \in I : i <= j

\* The SNI, empty when there is none.
Extract(b) == IF FindExt(b) < 0 THEN <<>> ELSE SniAt(b, FindExt(b))

ServerName(sni) == <<0, 0>> \o U16(5 + Len(sni)) \o U16(3 + Len(sni)) \o <<0>> \o U16(Len(sni)) \o sni

\* A name that can be put into a packet.
Fits(new) == Holds(new, Dot) /\ ~Holds(new, Space) /\ Len(new) <= 253

\* Mutant: the lengths in front of the SNI stay those of the old one.
ReplaceKeepsLengths(b, new) ==
  LET at == FindExt(b)
  IN  IF ~Fits(new) \/ at < 0 THEN b
      ELSE Cut(b, 0, at + 9) \o new \o Cut(b, at + 9 + SniLen(b, at), Len(b))

\* The same payload with another SNI; as it was when there is none to replace or
\* the new one is no host name.
Replace(b, new) ==
  LET at == FindExt(b)
  IN  IF ~Fits(new) \/ at < 0 THEN b
      ELSE Cut(b, 0, at) \o ServerName(new) \o Cut(b, at + 9 + SniLen(b, at), Len(b))

-----------------------------------------------------------------------------
\* Where s begins and ends when every v in front and behind is left out.
FirstNot(s, v) ==
  CHOOSE n \in 1 .. Len(s) + 1 : (n = Len(s) + 1 \/ s[n] # v) /\ \A k \in 1 .. n - 1 : s[k] = v
LastNot(s, v) ==
  CHOOSE n \in 0 .. Len(s) : (n = 0 \/ s[n] # v) /\ \A k \in n + 1 .. Len(s) : s[k] = v

\* The SNI as build_fake_quic_initial() takes it, without white space around it and
\* without the dots it ends with.
Trimmed(s) ==
  LET bare == SubSeq(s, FirstNot(s, Space), LastNot(s, Space))
  IN  SubSeq(bare, 1, LastNot(bare, Dot))

Buildable(sni) ==
  LET s == Trimmed(sni)
  IN  Holds(s, Dot) /\ ~Holds(s, Space) /\ ~Holds(s, Slash) /\ Len(s) <= 219

Varint(v) == IF v < 64 THEN <<v>> ELSE U16(v + 16384)

\* What stands in front of the extension: n is the length of the extension and the
\* padding behind it.
Header(dcid, scid, pn, n) ==
  <<192, 0, 0, 0, 1>> \o <<8>> \o dcid \o <<8>> \o scid \o Varint(0) \o Varint(1 + n) \o <<pn>>

\* The stub packet.
BuildInitial(sni, dcid, scid, pad, pn) ==
  LET payload == ServerName(Trimmed(sni)) \o pad
  IN  Header(dcid, scid, pn, Len(payload)) \o payload

-----------------------------------------------------------------------------
(* A packet, and the names it is given. *)

QInit ==
  \E sni \in SNIS, dcid, scid \in IDS, pad \in PADS, pn \in PNS :
    /\ Buildable(sni)
    /\ built = BuildInitial(sni, dcid, scid, pad, pn) /\ stub = built
    /\ name = Trimmed(sni)

Swap(new) ==
  /\ stub' = Replace(stub, new)
  /\ name' = IF Fits(new) /\ Len(name) > 1 THEN new ELSE name
  /\ UNCHANGED built

QNext == \E new \in SNIS : Swap(new)
QSpec == QInit /\ [][QNext]_qvars

\* The bytes of a connection id begin like an extension.
Spelt(b) == \E i \in 6 .. 16 : Headed(b, i)

\* However often its name is swapped, whatever its random bytes, a stub is taken for
\* QUIC and holds the name it was given last, and nothing else of it changes; swapping
\* a name and back is as if nothing had happened (quic.py:59-172).  Two kinds of packets
\* are left out: those whose random connection ids begin like an extension, which the
\* scan meets first, and those given a lone dot, which replace_sni_in_quic() puts in
\* and _find_sni_span() does not find.
QuicRoundTrip ==
  Len(name) > 1 /\ ~Spelt(built) =>
    /\ IsQuic(stub) /\ Extract(stub) = name
    /\ Cut(stub, 0, 27) = Cut(built, 0, 27)
    /\ Cut(stub, Len(stub) - 64, Len(stub)) = Cut(built, Len(built) - 64, Len(built))
    /\ Len(stub) = 27 + 9 + Len(name) + 64
    /\ \A new \in SNIS : Len(new) > 1 => Replace(Replace(stub, new), name) = stub
=============================================================================
