-------------------------------- MODULE MCLists --------------------------------
(***************************************************************************)
(* What the list loaders are asked on small instances: every text of up to *)
(* three tokens on one line or on two, and small networks with every       *)
(* answer of the random generator.                                         *)
(***************************************************************************)
EXTENDS Lists, SequencesExt, FiniteSetsExt

SniTok(n, ok, h) == [name |-> n, plausible |-> ok, hash |-> h, line |-> 1]
SniToks == {SniTok("a", TRUE, "none"), SniTok("b", TRUE, "inside"), SniTok("c", FALSE, "none"),
            SniTok("d", TRUE, "start"), SniTok("e", TRUE, "none")}
IpTok(base, size, port, h) == [base |-> base, size |-> size, port |-> port, hash |-> h, line |-> 1]
IpToks == {IpTok(10, 0, NoPort, "none"), IpTok(10, 0, 0, "none"), IpTok(11, 0, 8443, "inside"),
           IpTok(0, NoNet, NoPort, "none"), IpTok(12, 0, NoPort, "start"),
           IpTok(8, 4, NoPort, "none"), IpTok(16, 16, NoPort, "none")}
OnLine(tok, n) == [tok EXCEPT !.line = n]
\* On one line, or on two.
Texts3(toks) == SeqOf(toks, 3) \cup {<<x, OnLine(y, 2), OnLine(z, 2)>> : x, y, z \in toks}
\* An offset is drawn for every host that is wanted.
Nets(n, per) == [kind : {"net"}, base : {32}, size : {n}, per_cidr : {per},
                 pick : [1 .. per -> 1 .. Max({1, n - 2})]]
SmallAsked ==
  [kind : {"snis"}, toks : Texts3(SniToks), max_total : {1, 2, 9}]
  \cup [kind : {"ips"}, toks : Texts3(IpToks), default_port : {443}, per_cidr : {2},
        max_total : {1, 3, 9}, pick : {<<1, 2>>}]
  \cup UNION {Nets(n, per) : n \in {1, 2, 4, 8, 16}, per \in 1 .. 3}
================================================================================
