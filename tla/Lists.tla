--------------------------------- MODULE Lists ---------------------------------
(***************************************************************************)
(* utils/lists.py: candidate SNIs and endpoints out of texts.  A text is   *)
(* the sequence of its tokens.  Of an SNI list a token is                  *)
(* [name, plausible, hash, line], of an endpoint list                      *)
(* [base, size, port, hash, line]: size is that of the network, 0 for an   *)
(* address without a prefix length and NoNet for what is no address.  hash *)
(* tells where the token has a '#', line which line it stands on.          *)
(***************************************************************************)
EXTENDS Integers, Sequences

CONSTANTS
  Names,      \* what may stand in an SNI list
  ASKED       \* the calls of the loaders

NoNet == -1
NoPort == -1     \* no ":port"
Hashes == {"none", "start", "inside"}
Positive == Nat \ {0}
Sizes == Nat \cup {NoNet}

SniTokens == [name : Names, plausible : BOOLEAN, hash : Hashes, line : Nat]
IpTokens == [base : Nat, size : Sizes, port : Int, hash : Hashes, line : Nat]

\* Calls of load_sni_list(), load_ip_list() and _sample_hosts(); pick is what the
\* random generator answers for the offsets.
SniCalls == [kind : {"snis"}, toks : Seq(SniTokens), max_total : Positive]
IpCalls == [kind : {"ips"}, toks : Seq(IpTokens), default_port : Int, per_cidr : Positive,
            max_total : Positive, pick : Seq(Nat)]
NetCalls == [kind : {"net"}, base : Nat, size : Positive, per_cidr : Positive, pick : Seq(Nat)]

ASSUME ListsAssumption == ASKED \subseteq SniCalls \cup IpCalls \cup NetCalls

VARIABLE asked

Least(m, n) == IF m < n THEN m ELSE n
AtMost(s, n) == SubSeq(s, 1, Least(n, Len(s)))

AddNew(out, x, max_total) ==
  IF Len(out) >= max_total \/ \E i \in DOMAIN out : out[i] = x THEN out ELSE Append(out, x)

\* Mutant: the limit is looked at between two tokens only.
AddAllLate(out, s, max_total) ==
  LET added[n \in 0 .. Len(s)] == IF n = 0 THEN out ELSE AddNew(added[n - 1], s[n], 1000)
  IN  IF Len(out) >= max_total THEN out ELSE added[Len(s)]

\* The elements of s pushed one by one, each once, until there are max_total.
AddAll(out, s, max_total) ==
  LET added[n \in 0 .. Len(s)] == IF n = 0 THEN out ELSE AddNew(added[n - 1], s[n], max_total)
  IN  added[Len(s)]

\* The same for every token: items[n] is what the n-th stands for.
Collect(items, max_total) ==
  LET loaded[n \in 0 .. Len(items)] ==
        IF n = 0 THEN <<>> ELSE AddAll(loaded[n - 1], items[n], max_total)
  IN  loaded[Len(items)]

-----------------------------------------------------------------------------
\* Of a token of load_sni_list() what stands before a '#' of its own counts; the
\* text is not cut into lines.
SniItems(toks) ==
  [i \in DOMAIN toks |->
     IF toks[i].hash = "start" \/ ~toks[i].plausible THEN <<>> ELSE <<toks[i].name>>]

LoadSniList(toks, max_total) == Collect(SniItems(toks), max_total)

-----------------------------------------------------------------------------
\* Mutant: the network address is handed out.
FirstHostsFromBase(base, size, per_cidr) == [i \in 1 .. Least(per_cidr, size - 2) |-> base + i - 1]

FirstHosts(base, size, per_cidr) == [i \in 1 .. Least(per_cidr, size - 2) |-> base + i]

\* Hosts of a network.
SampleHosts(base, size, per_cidr, pick) ==
  LET random == IF size > per_cidr * 4 THEN [i \in DOMAIN pick |-> base + pick[i]] ELSE <<>>
      hosts == FirstHosts(base, size, per_cidr) \o random
  IN  IF size = 1 THEN <<base>>
      ELSE IF size = 2 THEN AtMost(<<base, base + 1>>, per_cidr)
      ELSE AtMost(AddAll(<<>>, hosts, 2 * per_cidr), per_cidr)

\* What stands behind a '#' of its line is a comment.
Commented(toks, i) ==
  \/ toks[i].hash = "start"
  \/ \E j \in 1 .. i - 1 : toks[j].line = toks[i].line /\ toks[j].hash # "none"

ValidPort(p) == p \in 1 .. 65535

\* The endpoints a token stands for.
Expand(tok, default_port, per_cidr, pick) ==
  LET port == IF tok.port = NoPort THEN default_port ELSE tok.port
      hosts == IF tok.size = NoNet \/ ~ValidPort(port) THEN <<>>
               ELSE IF tok.size = 0 THEN <<tok.base>>
               ELSE SampleHosts(tok.base, tok.size, per_cidr, pick)
  IN  [i \in DOMAIN hosts |-> <<hosts[i], port>>]

IpItems(toks, default_port, per_cidr, pick) ==
  [i \in DOMAIN toks |->
     IF Commented(toks, i) THEN <<>> ELSE Expand(toks[i], default_port, per_cidr, pick)]

LoadIpList(toks, default_port, per_cidr, max_total, pick) ==
  Collect(IpItems(toks, default_port, per_cidr, pick), max_total)

-----------------------------------------------------------------------------
(* Every call is on its own. *)

LInit == asked \in ASKED
LSpec == LInit /\ [][UNCHANGED asked]_asked

Places(items) == UNION {{i} \X DOMAIN items[i] : i \in DOMAIN items}
At(items, p) == items[p[1]][p[2]]
Earlier(p, q) == p[1] < q[1] \/ (p[1] = q[1] /\ p[2] < q[2])

CameBefore(out, k, x) == \E j \in 1 .. k - 1 : out[j] = x

\* Each element of out is new, and what stands at an earlier place came before it.
InTurn(out, items, Q) ==
  \A k \in DOMAIN out :
    /\ ~CameBefore(out, k, out[k])
    /\ \E p \in Q : /\ At(items, p) = out[k]
                    /\ \A q \in Q : Earlier(q, p) => CameBefore(out, k, At(items, q))

AllIn(out, items, Q) == \A p \in Q : \E k \in DOMAIN out : out[k] = At(items, p)

\* out is what is new at each place of Q in turn, until there are max_total.
FirstOf(out, items, Q, max_total) ==
  /\ Len(out) <= max_total /\ InTurn(out, items, Q)
  /\ Len(out) = max_total \/ AllIn(out, items, Q)

\* The address x is one of the network of tok, or the address it is.
Within(x, tok) == tok.base <= x /\ x <= tok.base + (IF tok.size = 0 THEN 0 ELSE tok.size - 1)

\* What the loaders of the candidate lists return of any text, limits, repeated
\* tokens included: every name or endpoint that a token stands for once, in the
\* order of their first places, cut at the limit inside a network as well;
\* endpoints come from outside the comments and have a valid port
\* (lists.py:24-41, 95-179).  Which names stand in a comment it does not ask.
ListsClean ==
  /\ asked.kind = "snis" =>
       FirstOf(LoadSniList(asked.toks, asked.max_total), SniItems(asked.toks),
               Places(SniItems(asked.toks)), asked.max_total)
  /\ asked.kind = "ips" =>
       LET items == IpItems(asked.toks, asked.default_port, asked.per_cidr, asked.pick)
           out == LoadIpList(asked.toks, asked.default_port, asked.per_cidr, asked.max_total, asked.pick)
       IN  /\ FirstOf(out, items, Places(items), asked.max_total)
           /\ \A k \in DOMAIN out :
                /\ ValidPort(out[k][2])
                /\ \E i \in DOMAIN asked.toks :
                     ~Commented(asked.toks, i) /\ Within(out[k][1], asked.toks[i])

Usable(size) == IF size > 2 THEN size - 2 ELSE size

\* Of a network as many hosts are taken as were asked for, or all there are, each
\* once and all of the network, never its own address or the broadcast address of
\* one that has them (lists.py:45-92).
SampleUsable ==
  asked.kind = "net" =>
    LET out == SampleHosts(asked.base, asked.size, asked.per_cidr, asked.pick)
        last == asked.base + asked.size - 1
    IN  /\ Len(out) = Least(asked.per_cidr, Usable(asked.size))
        /\ \A i \in DOMAIN out :
             /\ asked.base <= out[i] /\ out[i] <= last
             /\ asked.size > 2 => out[i] # asked.base /\ out[i] # last
             /\ ~CameBefore(out, i, out[i])

\* A '#' stands before every other token of the line.
OnCommentLine(toks, i) ==
  \E j \in 1 .. i : /\ toks[j].line = toks[i].line /\ toks[j].hash = "start"
                    /\ \A k \in 1 .. j - 1 : toks[k].line # toks[i].line

\* "Skips blanks and lines starting with '#'." (lists.py:12): every name that is
\* loaded stands on another line as well.
CommentLinesSkipped ==
  asked.kind = "snis" =>
    \A k \in DOMAIN LoadSniList(asked.toks, asked.max_total) :
      \E i \in DOMAIN asked.toks :
        /\ ~OnCommentLine(asked.toks, i)
        /\ asked.toks[i].name = LoadSniList(asked.toks, asked.max_total)[k]

\* "For larger nets, add a few random offsets for diversity." (lists.py:74): when
\* the random generator names another host than the first ones, the sample of a
\* larger network has one.
DiversityPicked ==
  asked.kind = "net" =>
    LET first == FirstHosts(asked.base, asked.size, asked.per_cidr)
        out == SampleHosts(asked.base, asked.size, asked.per_cidr, asked.pick)
        IsFirst(h) == \E i \in DOMAIN first : first[i] = h
    IN  asked.size > asked.per_cidr * 4 /\ (\E i \in DOMAIN asked.pick : ~IsFirst(asked.base + asked.pick[i]))
          => \E k \in DOMAIN out : ~IsFirst(out[k])
=============================================================================
