-------------------------------- MODULE Hello --------------------------------
(***************************************************************************)
(* The hello records of utils/tls_fingerprint.py and                       *)
(* utils/packet_templates.py, and the functions that read them back.  Bytes *)
(* are a sequence of fields <<length, value>>: a number the code computes  *)
(* has itself as value, fixed content is 0 and random content any number.  *)
(***************************************************************************)
EXTENDS Integers, Sequences

CONSTANTS
  PROFILES,   \* profile definitions
  SNI_LENS,   \* lengths of SNIs that _check_sni() lets pass
  APPS        \* lengths of the application data behind a server hello

Fields == Nat \X Int

\* Where each field ends, Ends(s)[0] being the start of the first.
Ends(s) == LET end[i \in 0 .. Len(s)] == IF i = 0 THEN 0 ELSE end[i - 1] + s[i][1] IN end
Size(s) == Ends(s)[Len(s)]

Begins(s, i, pos, k) == s[i][1] = k /\ Ends(s)[i - 1] = pos

\* The field of k > 0 bytes at byte pos (from 0), or -1 when the bytes there are
\* not one field.
FieldAt(s, pos, k) ==
  IF \E i \in DOMAIN s : Begins(s, i, pos, k)
  THEN s[CHOOSE i \in DOMAIN s : Begins(s, i, pos, k)][2] ELSE -1

-----------------------------------------------------------------------------
(* tls_fingerprint.py *)

Chrome == [ciphers |-> 17, curves |-> 4, alpn |-> 12, versions |-> 3, session_len |-> 32,
  ext_order |-> <<"grease", "sni", "ems", "reneg", "groups", "points", "ticket", "alpn",
                  "status", "sigalgs", "sct", "alps", "keyshare", "pskmode", "versions", "ech">>,
  keyshare_grease |-> TRUE, secp256 |-> FALSE, pad_to |-> 512]
Firefox == [ciphers |-> 16, curves |-> 6, alpn |-> 12, versions |-> 2, session_len |-> 0,
  ext_order |-> <<"sni", "groups", "points", "sigalgs", "alpn", "ems", "ticket", "versions",
                  "pskmode", "keyshare", "status", "reneg", "alps", "ech">>,
  keyshare_grease |-> FALSE, secp256 |-> TRUE, pad_to |-> 0]

\* Lists of two-byte codes are their lengths, alpn the bytes of its names.  The
\* profiles with a grease seed use different ones (the two Chromes differ in nothing
\* else): it stands for all.
PROFILE_DEFS == [
  chrome_120 |-> Chrome, chrome_124 |-> Chrome,
  firefox_122 |-> Firefox,
  firefox_124 |-> [Firefox EXCEPT !.ciphers = 18, !.versions = 3],
  custom |-> [Chrome EXCEPT !.curves = 5, !.alpn = 3,
    !.ext_order = <<"grease", "sni", "groups", "points", "alpn", "sigalgs", "ems", "ticket",
                    "versions", "keyshare", "pskmode", "status", "sct", "reneg", "alps", "ech">>]]

ExtTypes ==
  [grease |-> 10794, sni |-> 0, ems |-> 23, reneg |-> 65281, groups |-> 10, points |-> 11,
   ticket |-> 35, alpn |-> 16, status |-> 5, sigalgs |-> 13, sct |-> 18, alps |-> 28,
   keyshare |-> 51, pskmode |-> 45, versions |-> 43, ech |-> 65037, padding |-> 21]
ExtNames == DOMAIN ExtTypes

\* Length of the data of an extension.
DataLen(d, ext, sni) ==
  CASE ext \in {"grease", "ems", "ticket", "sct"} -> 0
    [] ext = "sni" -> 2 + 1 + 2 + sni
    [] ext = "reneg" -> 1
    [] ext = "groups" -> 2 + 2 * d.curves
    [] ext \in {"points", "pskmode"} -> 2
    [] ext = "alpn" -> 2 + d.alpn
    [] ext = "status" -> 5
    [] ext = "sigalgs" -> 2 + 2 * 9
    [] ext = "alps" -> 1 + 2 + 2 + 12
    [] ext = "keyshare" -> 2 + (IF d.keyshare_grease THEN 5 ELSE 0) + 36
                             + (IF d.secp256 THEN 69 ELSE 0)
    [] ext = "versions" -> 1 + 2 * d.versions
    [] ext = "ech" -> 1 + 1 + 32 + 2 + 16

\* The extensions of a hello, with the length of each.
Extension(ext, len) == [ext |-> ext, len |-> len]
ExtList(d, sni) == [i \in DOMAIN d.ext_order |->
                      Extension(d.ext_order[i], DataLen(d, d.ext_order[i], sni))]

Ext(e) == <<<<2, ExtTypes[e.ext]>>, <<2, e.len>>, <<e.len, 0>>>>
Extensions(list) ==
  LET joined[n \in 0 .. Len(list)] == IF n = 0 THEN <<>> ELSE joined[n - 1] \o Ext(list[n])
  IN  joined[Len(list)]

Body(d, exts) ==
  <<<<2, 771>>, <<32, 0>>, <<1, d.session_len>>, <<d.session_len, 0>>,
    <<2, 2 * d.ciphers>>, <<2 * d.ciphers, 0>>, <<1, 1>>, <<1, 0>>,
    <<2, Size(exts)>>>> \o exts
TlsRecord(body) ==
  <<<<1, 22>>, <<2, 769>>, <<2, 4 + Size(body)>>, <<1, 1>>, <<3, Size(body)>>>> \o body
HelloRecord(d, list) == TlsRecord(Body(d, Extensions(list)))

\* Mutant: the padding is put behind a body that is already measured.
BuildUnmeasured(d, sni) ==
  LET record == HelloRecord(d, ExtList(d, sni))
      need == d.pad_to - Size(record) - 4
  IN  IF need > 0 THEN record \o Ext(Extension("padding", need)) ELSE record

BuildClientHello(d, sni) ==
  LET list == ExtList(d, sni)
      need == d.pad_to - Size(HelloRecord(d, list)) - 4
  IN  HelloRecord(d, IF need > 0 THEN Append(list, Extension("padding", need)) ELSE list)

\* The types of the extensions from byte pos on, before byte end.  A turn of the loop
\* passes three fields: the type, the length and the data.
TypesFrom(data, pos, end) ==
  LET walk[n \in 0 .. Len(data) \div 3] ==
        IF n = 0 THEN [pos |-> pos, out |-> <<>>]
        ELSE LET w == walk[n - 1] IN
             IF w.pos + 4 > end THEN w
             ELSE [pos |-> w.pos + 4 + FieldAt(data, w.pos + 2, 2),
                   out |-> Append(w.out, FieldAt(data, w.pos, 2))]
  IN  walk[Len(data) \div 3].out

\* What find_client_hello_extensions() makes of the first n bytes of data.
FindExtensions(data, n) ==
  LET rec_end == 5 + FieldAt(data, 3, 2)
      hs_end == 9 + FieldAt(data, 6, 3)
      sess == 9 + 2 + 32
      ciphers == sess + 1 + FieldAt(data, sess, 1)
      comp == ciphers + 2 + FieldAt(data, ciphers, 2)
      exts == comp + 1 + FieldAt(data, comp, 1)
  IN  IF \/ n < 5 \/ FieldAt(data, 0, 1) # 22 \/ n < rec_end
         \/ rec_end < 9 \/ FieldAt(data, 5, 1) # 1 \/ rec_end < hs_end
         \/ sess + 1 > hs_end \/ ciphers + 2 > hs_end \/ comp + 1 > hs_end \/ exts + 2 > hs_end
      THEN <<>>
      ELSE LET end == exts + 2 + FieldAt(data, exts, 2)
           IN  TypesFrom(data, exts + 2, IF end < hs_end THEN end ELSE hs_end)

-----------------------------------------------------------------------------
(* packet_templates.py *)

MaxSni == 219

\* Mutant: the padding does not give way to the SNI.
ClientHelloUnpadded(rnd, sess, sni, len, key) ==
  <<<<11, 0>>, <<32, rnd>>, <<1, 32>>, <<32, sess>>, <<44, 0>>,
    <<2, len + 5>>, <<2, len + 3>>, <<1, 0>>, <<2, len>>, <<len, sni>>,
    <<135, 0>>, <<32, key>>, <<2, 21>>, <<2, MaxSni>>, <<MaxSni, 0>>>>

ClientHelloWith(rnd, sess, sni, len, key) ==
  <<<<11, 0>>, <<32, rnd>>, <<1, 32>>, <<32, sess>>, <<44, 0>>,
    <<2, len + 5>>, <<2, len + 3>>, <<1, 0>>, <<2, len>>, <<len, sni>>,
    <<135, 0>>, <<32, key>>, <<2, 21>>, <<2, MaxSni - len>>, <<MaxSni - len, 0>>>>

\* An assertion of a parser fails.
Rejected == <<>>

\* Both parsers assert a size first, and at last that what they have read makes the
\* same bytes again.
ParseClientHello(data) ==
  LET rnd == FieldAt(data, 11, 32)
      sess == FieldAt(data, 44, 32)
      len == FieldAt(data, 125, 2)
      sni == FieldAt(data, 127, len)
      key == FieldAt(data, 262 + len, 32)
  IN  IF Size(data) = 517 /\ ClientHelloWith(rnd, sess, sni, len, key) = data
      THEN [rnd |-> rnd, sess |-> sess, sni |-> sni, key |-> key] ELSE Rejected

ServerHelloWith(rnd, sess, key, app, len) ==
  <<<<11, 0>>, <<32, rnd>>, <<1, 32>>, <<32, sess>>, <<19, 0>>, <<32, key>>,
    <<6, 0>>, <<3, 0>>, <<2, len>>, <<len, app>>>>

ParseServerHello(data) ==
  LET rnd == FieldAt(data, 11, 32)
      sess == FieldAt(data, 44, 32)
      key == FieldAt(data, 95, 32)
      len == Size(data) - 138
      app == FieldAt(data, 138, len)
  IN  IF Size(data) >= 159 /\ ServerHelloWith(rnd, sess, key, app, len) = data
      THEN [rnd |-> rnd, sess |-> sess, key |-> key, app |-> app] ELSE Rejected

-----------------------------------------------------------------------------
(* What is built and read back. *)

ProfileDefs ==
  [ciphers : Nat, curves : Nat, alpn : Nat, versions : Nat, session_len : Nat,
   ext_order : Seq(ExtNames \ {"padding"}), keyshare_grease : BOOLEAN, secp256 : BOOLEAN,
   pad_to : Nat]

\* The lengths fit into their one and two bytes: the code would raise.
InWidth(d) ==
  /\ d.session_len < 256 /\ d.pad_to < 65536
  /\ \A n \in SNI_LENS : Size(HelloRecord(d, ExtList(d, n))) < 65536

ASSUME HelloAssumption ==
  /\ PROFILES \subseteq ProfileDefs /\ \A d \in PROFILES : InWidth(d)
  /\ SNI_LENS \subseteq 1 .. MaxSni
  /\ APPS \subseteq Nat \ {0}

VARIABLE hello

HInit == hello \in [kind : {"built"}, def : PROFILES, sni : SNI_LENS]
                   \cup [kind : {"template"}, sni : 0 .. MaxSni, app : APPS]
HSpec == HInit /\ [][UNCHANGED hello]_hello

\* The parser reads the extensions of a hello back in their order, the padding
\* too, so all the lengths inside agree; from a hello that is cut off anywhere it
\* reads nothing (tls_fingerprint.py:376-418).  "Fill so the whole record hits
\* pad_to" holds but for the sizes that leave no room for the header of the padding.
HelloReadBack ==
  hello.kind = "built" =>
    LET d == hello.def
        data == BuildClientHello(d, hello.sni)
        bare == Size(HelloRecord(d, ExtList(d, hello.sni)))
        sent == [i \in DOMAIN d.ext_order |-> ExtTypes[d.ext_order[i]]]
    IN  /\ FindExtensions(data, Size(data))
             = IF bare < d.pad_to - 4 THEN Append(sent, ExtTypes["padding"]) ELSE sent
        /\ Size(data) = IF bare < d.pad_to - 4 THEN d.pad_to ELSE bare
        /\ \A n \in 0 .. Size(data) - 1 : FindExtensions(data, n) = <<>>

\* The hello the engine sends is 517 bytes whatever the SNI, and both template
\* parsers get back what was put in, at the fixed offsets of the code, but for a
\* server hello with less than 21 bytes of application data: the maker makes one that
\* the parser refuses (packet_templates.py:31-45, 60-72).
TemplateRoundTrip ==
  hello.kind = "template" =>
    LET data == ClientHelloWith(1, 2, 3, hello.sni, 4)
        reply == ServerHelloWith(5, 6, 7, 8, hello.app)
    IN  /\ Size(data) = 517
        /\ hello.sni > 0 =>
             ParseClientHello(data) = [rnd |-> 1, sess |-> 2, sni |-> 3, key |-> 4]
        /\ ParseServerHello(reply) =
             IF hello.app < 21 THEN Rejected
             ELSE [rnd |-> 5, sess |-> 6, key |-> 7, app |-> 8]
=============================================================================
