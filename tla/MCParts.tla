------------------------------- MODULE MCParts -------------------------------
(***************************************************************************)
(* The parts that share no state with another one, side by side on small   *)
(* instances.  A behaviour is that of one fake-send job (FakeStream), of   *)
(* the accept loop and its handle()s (Engine), of the settings (Settings), *)
(* of a board (Board), of config.json (Config), of a call of the list      *)
(* loaders (Lists), of a hello record (Hello) or of a QUIC stub (Quic).    *)
(***************************************************************************)
EXTENDS FakeStream, Engine, Settings, Board, Config, MCLists, Hello, Quic

Symmetry == Permutations(Conn) \cup Permutations(REAL_METHODS)

VARIABLE part  \* the part that moves
pvars == <<jvars, vars, svars, bvars, cvars, asked, hello, qvars, part>>

Parts == {"job", "engine", "settings", "board", "file", "lists", "hello", "quic"}

-----------------------------------------------------------------------------
(* The hello records, and what may stand in config.json. *)

Profiles == {PROFILE_DEFS[p] : p \in DOMAIN PROFILE_DEFS}
SomeSnis == {1, 2, 219} \cup (130 .. 170)  \* where the room for the padding ends

SmallEntries == [form : {"dict", "str", "junk"}, ip : {"ip1", "bad", "blank", ""},
                 port : {8443, 0, NoNumber, AbsentPort}]
File0 == [ENDPOINTS |-> <<>>, CONNECT_IP |-> "ip3", CONNECT_PORT |-> 8443, FAKE_SNIS |-> <<>>,
          FAKE_SNI |-> "sni3", BYPASS_METHOD |-> "auto", number |-> "ok", listen |-> "ok",
          local |-> Absent]
EndpointFiles ==
  {[File0 EXCEPT !.ENDPOINTS = eps, !.CONNECT_IP = ip, !.CONNECT_PORT = p] :
     eps \in {<<>>, NoKeys.ENDPOINTS} \cup {<<e>> : e \in SmallEntries}
              \cup {<<Endpoint("ip2", AbsentPort), e>> : e \in SmallEntries},
     ip \in {"ip3", "bad", "blank", "", Absent}, p \in {443, NoNumber, AbsentPort, 8443}}
OtherFiles ==
  {[File0 EXCEPT !.FAKE_SNIS = ss, !.FAKE_SNI = s, !.BYPASS_METHOD = b, !.number = n, !.listen = l] :
     ss \in {NoKeys.FAKE_SNIS} \cup SeqOf({"sni1", "blank", "bad"}, 2), s \in {"sni3", "blank", "", Absent},
     b \in {"wrong_seq", "other", "blank", Absent}, n \in Numbers, l \in Numbers}
SmallFiles == {NoKeys} \cup EndpointFiles \cup OtherFiles
\* The second file: none, one of the GUI's keys only, or one that was saved before.
SmallFulls ==
  {NoKeys, [NoKeys EXCEPT !.local = "out"],
   [File0 EXCEPT !.ENDPOINTS = <<Endpoint("ip1", 443)>>, !.FAKE_SNIS = <<"sni2">>,
                 !.BYPASS_METHOD = "wrong_seq", !.local = "ok"]}

-----------------------------------------------------------------------------
(* Names and random bytes of a QUIC packet. *)

NameOf(n, dot) == [i \in 1 .. n |-> IF i = dot THEN Dot ELSE 97]
Repeat(v, n) == [i \in 1 .. n |-> v]
SmallSnis == {NameOf(3, 2), NameOf(182, 9), NameOf(219, 200), NameOf(220, 3),
              NameOf(5, 6), <<Dot>>, <<97, Space, Dot, 97>>, <<Space, 97, Dot, 97, Dot, Dot>>}
\* The last two begin like an extension, as the destination's and as the source's id.
SmallIds == {Repeat(0, 8), Repeat(Dot, 8), <<0, 0, 0, 13, 0, 11, 0, 0>>, <<9, 0, 0, 0, 69, 0, 67, 0>>}
SmallPads == {Repeat(0, 64), Repeat(Dot, 64)}

-----------------------------------------------------------------------------
(* One part moves, the others stand still. *)

StillJob ==
  /\ wire_method = "wrong_seq" /\ syn_seq = 0 /\ total = 1
  /\ packet = [packet_len |-> HeaderLen, payload |-> 0, ident |-> 0, seq_num |-> 1]
  /\ base_len = HeaderLen /\ base_ident = 0 /\ attempt = 1 /\ step = 1 /\ phase = "end"
  /\ fake_sent = FALSE /\ done = 0 /\ idents = {0}
StillSettings == SInit /\ config = 2 /\ full = [inj |-> 2, extra |-> 0]
StillAsked ==
  asked = [kind |-> "net", base |-> 32, size |-> 1, per_cidr |-> 1, pick |-> <<1>>]

StillStub == name = <<>> /\ stub = <<>> /\ built = <<>>  \* no packet

StillHello == hello = [kind |-> "template", sni |-> 0, app |-> 21]

PInit ==
  /\ part \in Parts
  /\ IF part = "job" THEN JInit ELSE StillJob
  /\ Init
  /\ IF part = "settings" THEN SInit ELSE StillSettings
  /\ BInit
  /\ IF part = "file" THEN CInit ELSE file = File0 /\ extra = NoKeys
  /\ IF part = "lists" THEN LInit ELSE StillAsked
  /\ IF part = "hello" THEN HInit ELSE StillHello
  /\ IF part = "quic" THEN QInit ELSE StillStub

PNext ==
  /\ UNCHANGED <<part, asked, hello>>
  /\ \/ part = "job" /\ JNext /\ UNCHANGED <<vars, svars, bvars, cvars, qvars>>
     \/ part = "engine" /\ Next /\ UNCHANGED <<jvars, svars, bvars, cvars, qvars>>
     \/ part = "settings" /\ SNext /\ UNCHANGED <<jvars, vars, bvars, cvars, qvars>>
     \/ part = "board" /\ BNext /\ UNCHANGED <<jvars, vars, svars, cvars, qvars>>
     \/ part = "file" /\ SaveFile /\ UNCHANGED <<jvars, vars, svars, bvars, qvars>>
     \/ part = "quic" /\ QNext /\ UNCHANGED <<jvars, vars, svars, bvars, cvars>>

PSpec == PInit /\ [][PNext]_pvars
=============================================================================
