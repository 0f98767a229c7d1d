-------------------------------- MODULE Config --------------------------------
(***************************************************************************)
(* What the two programs make of the keys of config.json: migrate(),       *)
(* validate(), injector_dict() and load() of utils/config_manager.py, and  *)
(* load_config() of main.py.  A dictionary is a record.  Of a text it      *)
(* matters whether it is an address or a host name; "blank" is white space *)
(* and Absent a key that is missing.  An entry of ENDPOINTS is             *)
(* [form, ip, port] with form "dict", "str" or "junk".  number stands for  *)
(* HANDSHAKE_TIMEOUT, MAX_CONNECTIONS and IDLE_TIMEOUT_S, listen for       *)
(* LISTEN_HOST and LISTEN_PORT, local for the GUI's two ports: "ok", "out" *)
(* of range, "nan".                                                        *)
(***************************************************************************)
EXTENDS Integers, Sequences

CONSTANTS
  IPs,                \* texts that are IPv4 addresses
  Hosts,              \* texts validate() takes for host names
  SUPPORTED_METHODS,
  OtherTexts,         \* texts that are none of these
  FILES,              \* what may stand in config.json at first,
  FULLS               \* and in the file beside it

Absent == "absent"
NoNumber == -1       \* a port that int() refuses
AbsentPort == -2

DefaultIP == "188.114.98.0"
DefaultSNI == "auth.vercel.com"

Texts == IPs \cup Hosts \cup SUPPORTED_METHODS \cup OtherTexts \cup {"", "blank", Absent}
Numbers == {"ok", "out", "nan", Absent}
Entries == [form : {"dict", "str", "junk", Absent}, ip : Texts, port : Int]
RawFiles ==
  [ENDPOINTS : Seq(Entries), CONNECT_IP : Texts, CONNECT_PORT : Int,
   FAKE_SNIS : Seq(Texts), FAKE_SNI : Texts, BYPASS_METHOD : Texts,
   number : Numbers, listen : Numbers, local : Numbers]
GuiKeys == {"local"}

\* {}, which is also what load() takes a missing or torn file for.  Absent is the
\* one element of a list whose key is missing.
NoKeys ==
  [ENDPOINTS |-> <<[form |-> Absent, ip |-> "", port |-> AbsentPort]>>,
   CONNECT_IP |-> Absent, CONNECT_PORT |-> AbsentPort,
   FAKE_SNIS |-> <<Absent>>, FAKE_SNI |-> Absent, BYPASS_METHOD |-> Absent,
   number |-> Absent, listen |-> Absent, local |-> Absent]

ASSUME ConfigAssumption ==
  /\ DefaultIP \in IPs /\ DefaultSNI \in Hosts /\ "auto" \in SUPPORTED_METHODS
  /\ (IPs \cup Hosts \cup SUPPORTED_METHODS) \cap {"", "blank", Absent} = {}
  /\ FILES \subseteq RawFiles /\ FULLS \subseteq RawFiles

VARIABLES
  file,  \* config.json
  extra  \* config.json.full.json

DEFAULTS ==
  [ENDPOINTS |-> <<>>, CONNECT_IP |-> DefaultIP, CONNECT_PORT |-> 443,
   FAKE_SNIS |-> <<>>, FAKE_SNI |-> DefaultSNI, BYPASS_METHOD |-> "auto",
   number |-> "ok", listen |-> "ok", local |-> "ok"]

\* Mutant: what both have is taken from the other dictionary.
MergedOver(raw, other) == [k \in DOMAIN raw |-> IF other[k] = NoKeys[k] THEN raw[k] ELSE other[k]]

\* The keys that raw has not are filled from another dictionary.
Merged(raw, other) == [k \in DOMAIN raw |-> IF raw[k] = NoKeys[k] THEN other[k] ELSE raw[k]]

Stripped(text) == IF text = "blank" THEN "" ELSE text
Default(v, d) == IF v = Absent THEN d ELSE v
AsInt(p, d) == IF p = NoNumber THEN d ELSE p
PortOr(p, d) == IF p = AbsentPort THEN d ELSE p
Ports == 1 .. 65535
Endpoint(ip, port) == [form |-> "dict", ip |-> ip, port |-> port]

\* The elements of s that are in good, in their order.
Kept(s, good) ==
  LET kept[n \in 0 .. Len(s)] ==
        IF n = 0 THEN <<>>
        ELSE IF s[n] \in good THEN Append(kept[n - 1], s[n]) ELSE kept[n - 1]
  IN  kept[Len(s)]

Named(s) == Kept([i \in DOMAIN s |-> Stripped(s[i])], Texts \ {""})

\* An entry is taken when it is a dictionary with an "ip", or a text.
Taken ==
  {e \in Entries : \/ e.form = "dict" /\ e.ip \notin {"", Absent}
                   \/ e.form = "str" /\ Stripped(e.ip) # ""}

\* Mutant: the fallback port stays the text it was.
EntryRaw(e, connect_port) ==
  Endpoint(Stripped(e.ip), PortOr(IF e.form = "dict" THEN e.port ELSE AbsentPort, connect_port))

Entry(e, connect_port) ==
  Endpoint(Stripped(e.ip),
           AsInt(PortOr(IF e.form = "dict" THEN e.port ELSE AbsentPort, connect_port), 443))

Normed(s, connect_port) == [i \in DOMAIN s |-> Entry(s[i], connect_port)]

PortOf(raw) == PortOr(raw.CONNECT_PORT, 443)
MethodOf(raw) ==
  LET method == Stripped(Default(raw.BYPASS_METHOD, "auto")) IN IF method = "" THEN "auto" ELSE method

\* The lists, built from the single values when they are empty; entries that are
\* no endpoint are dropped.
EndpointsOf(raw) ==
  LET ip == Stripped(raw.CONNECT_IP)
  IN  IF raw.ENDPOINTS # <<>> THEN Normed(Kept(raw.ENDPOINTS, Taken), PortOf(raw))
      ELSE IF ip = "" THEN <<>> ELSE <<Endpoint(ip, AsInt(PortOf(raw), 443))>>
SnisOf(raw) ==
  Named(IF raw.FAKE_SNIS # <<>> THEN raw.FAKE_SNIS ELSE <<Stripped(raw.FAKE_SNI)>>)
NumberOf(raw) == IF raw.number = "nan" THEN "ok" ELSE raw.number

\* migrate()
Migrate(cfg) ==
  LET out == Merged(cfg, DEFAULTS)
  IN  [out EXCEPT !.ENDPOINTS = EndpointsOf(out), !.FAKE_SNIS = SnisOf(out),
                  !.BYPASS_METHOD = MethodOf(out), !.number = NumberOf(out)]

\* load()
LoadFiles(raw, full) == Migrate(Merged(raw, full))

\* Mutant: ports of endpoints are not looked at.
ValidPorts(cfg) ==
  /\ cfg.listen = "ok" /\ cfg.local = "ok" /\ cfg.CONNECT_PORT \in Ports
  /\ cfg.ENDPOINTS # <<>> /\ \A i \in DOMAIN cfg.ENDPOINTS : cfg.ENDPOINTS[i].ip \in IPs
  /\ cfg.FAKE_SNIS # <<>> /\ \A i \in DOMAIN cfg.FAKE_SNIS : cfg.FAKE_SNIS[i] \in Hosts
  /\ cfg.BYPASS_METHOD \in SUPPORTED_METHODS
  /\ cfg.number = "ok"

\* validate() finds nothing to say.
Valid(cfg) ==
  /\ cfg.listen = "ok" /\ cfg.local = "ok" /\ cfg.CONNECT_PORT \in Ports
  /\ cfg.ENDPOINTS # <<>>
  /\ \A i \in DOMAIN cfg.ENDPOINTS :
       cfg.ENDPOINTS[i].ip \in IPs /\ cfg.ENDPOINTS[i].port \in Ports
  /\ cfg.FAKE_SNIS # <<>> /\ \A i \in DOMAIN cfg.FAKE_SNIS : cfg.FAKE_SNIS[i] \in Hosts
  /\ cfg.BYPASS_METHOD \in SUPPORTED_METHODS
  /\ cfg.number = "ok"

\* injector_dict(): the single values are those of the first list entries, and
\* the GUI's keys are left out.
InjectorDict(cfg) ==
  LET c == Migrate(cfg)
      primary == IF c.ENDPOINTS = <<>> THEN Endpoint("", 443) ELSE Head(c.ENDPOINTS)
      first == IF c.FAKE_SNIS = <<>> THEN "" ELSE Head(c.FAKE_SNIS)
  IN  [c EXCEPT !.CONNECT_IP = primary.ip, !.CONNECT_PORT = primary.port, !.FAKE_SNI = first,
                !.local = Absent]

-----------------------------------------------------------------------------
(* The engine reads config.json by itself. *)

Refused == [ENDPOINTS |-> <<>>, FAKE_SNIS |-> <<>>, BYPASS_METHOD |-> ""]

EngineTaken == {e \in Entries : (e.form = "dict" /\ e.ip \notin {"", Absent}) \/ e.form = "str"}

\* Mutant: an entry without a port gets 443, whatever CONNECT_PORT says.
EngineEntry443(e, connect_port) ==
  Endpoint(Stripped(e.ip), PortOr(IF e.form = "dict" THEN e.port ELSE AbsentPort, 443))

EngineEntry(e, connect_port) ==
  Endpoint(Stripped(e.ip), PortOr(IF e.form = "dict" THEN e.port ELSE AbsentPort, connect_port))

EngineNormed(s, connect_port) == [i \in DOMAIN s |-> EngineEntry(s[i], connect_port)]

EngineEndpointsOf(raw) ==
  IF raw.ENDPOINTS \notin {<<>>, NoKeys.ENDPOINTS}
    THEN EngineNormed(Kept(raw.ENDPOINTS, EngineTaken), PortOf(raw))
  ELSE IF raw.CONNECT_IP \in {Absent, ""} THEN <<>>
  ELSE <<Endpoint(Stripped(raw.CONNECT_IP), PortOf(raw))>>
EngineSnisOf(raw) ==
  IF raw.FAKE_SNIS \notin {<<>>, NoKeys.FAKE_SNIS} THEN Named(raw.FAKE_SNIS)
  ELSE IF raw.FAKE_SNI \in {Absent, ""} THEN <<>> ELSE <<Stripped(raw.FAKE_SNI)>>

\* load_config(), Refused when it raises.
LoadConfig(raw) ==
  LET eps == EngineEndpointsOf(raw)
      snis == EngineSnisOf(raw)
  IN  IF \/ eps = <<>> \/ \E i \in DOMAIN eps : eps[i].port = NoNumber
         \/ snis = <<>> \/ MethodOf(raw) \notin SUPPORTED_METHODS
         \/ raw.number = "nan" \/ raw.listen = "nan"
        THEN Refused
        ELSE [ENDPOINTS |-> eps, FAKE_SNIS |-> snis, BYPASS_METHOD |-> MethodOf(raw)]

-----------------------------------------------------------------------------
(* The life of the two files. *)

cvars == <<file, extra>>

Loaded == LoadFiles(file, extra)

CInit == file \in FILES /\ extra \in FULLS

\* save() of what was loaded: _collect() refuses what is not valid.  It may be
\* broken off before the second file is opened, or in the middle of writing it.
SaveFile ==
  /\ Valid(Loaded)
  /\ file' = InjectorDict(Loaded)
  /\ extra' \in {Migrate(Loaded), extra, NoKeys}

CSpec == CInit /\ [][SaveFile]_cvars

Engine(cfg) == [ENDPOINTS |-> cfg.ENDPOINTS, FAKE_SNIS |-> cfg.FAKE_SNIS,
                BYPASS_METHOD |-> cfg.BYPASS_METHOD]

\* What validate() has nothing against the engine accepts from config.json after
\* a save, with the same endpoints, SNIs and method, all of them usable, from
\* whichever of the two files it was read.  (Of the length of an SNI neither says
\* anything: one of more than 219 bytes passes both.)
ValidIsRunnable ==
  LET run == LoadConfig(InjectorDict(Loaded))
  IN  Valid(Loaded) =>
        /\ run = Engine(Loaded) /\ run # Refused
        /\ \A i \in DOMAIN run.ENDPOINTS :
             run.ENDPOINTS[i].ip \in IPs /\ run.ENDPOINTS[i].port \in Ports

\* A name in the file is only white space.
HasBlank(raw) ==
  \/ \E i \in DOMAIN raw.ENDPOINTS : raw.ENDPOINTS[i].ip \in {"", "blank"}
  \/ raw.CONNECT_IP = "blank" \/ raw.FAKE_SNI = "blank"

\* No key the engine reads is missing in raw and stands in full.
OnItsOwn(raw, full) ==
  \A k \in DOMAIN raw \ GuiKeys : raw[k] = NoKeys[k] => full[k] = NoKeys[k]

\* A file the engine accepts it reads as the GUI does, although each has a parser
\* of its own, unless a name in it is only white space or the second file has a
\* key of the engine's that config.json has not, which load() then takes from
\* there and the engine does without.  A valid configuration comes back from the
\* files as it was saved, whether the second file is the new one, the one before or
\* torn, the GUI's own ports aside, and the single values a v1 program reads are
\* the first of the lists.
ReadAlike ==
  /\ LoadConfig(file) # Refused /\ ~HasBlank(file) /\ OnItsOwn(file, extra)
       => LoadConfig(file) = Engine(Loaded)
  /\ Valid(Loaded) =>
       \A second \in {Migrate(Loaded), extra, NoKeys} :
         LET again == LoadFiles(InjectorDict(Loaded), second)
         IN  /\ Engine(again) = Engine(Loaded)
             /\ Valid(again) \/ second.local \notin {"ok", Absent}
             /\ Endpoint(again.CONNECT_IP, again.CONNECT_PORT) = Head(Loaded.ENDPOINTS)
             /\ again.FAKE_SNI = Head(Loaded.FAKE_SNIS)
=============================================================================
