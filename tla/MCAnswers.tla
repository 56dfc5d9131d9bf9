------------------------------- MODULE MCAnswers -------------------------------
(* Instances of Answers: zones with every combination of a host, a name    *)
(* below it, two wildcards and two aliases, signed by two keys, by one or  *)
(* by none, under different orders of the hashes.                          *)
EXTENDS Answers

z == <<"z">>
n == <<"n", "z">>
a == <<"a", "z">>
c == <<"c", "z">>
ba == <<"b", "a", "z">>
xa == <<"x", "a", "z">>
x == <<"x", "z">>
yx == <<"y", "x", "z">>

Zone1 == z
Fakes == {<<"yz">>}
A(name) == RR(name, "A", <<<<"1">>>>)
Base == {RR(z, "SOA", <<n>>), RR(z, "NS", <<n>>), A(n)}
Pool == {A(a), A(ba), A(Wild(z)), RR(Wild(a), "CNAME", <<n>>), RR(c, "CNAME", <<a>>)}

MCZones == {Base \cup pick : pick \in SUBSET Pool}
    \cup {{RR(z, "SOA", <<z>>), RR(z, "NS", <<z>>), A(z)},
          Base \cup {RR(c, "CNAME", <<n>>), A(c)},
          {RR(z, "SOA", <<n>>), RR(z, "NS", <<n>>)}}
    \cup {Base \cup {RR(c, "CNAME", <<x>>), r} :
             r \in {A(x), A(a), RR(x, "CNAME", <<c>>), RR(x, "CNAME", <<n>>), RR(x, "CNAME", <<a>>),
                   RR(x, "CNAME", <<x>>), RR(x, "CNAME", <<<<"q">>>>),
                   RR(x, "CNAME", <<<<"yz">>>>)}}

(* With an empty non-terminal, a.z.                                        *)
HoleZones == {Base \cup {A(ba)}}

Key(id, role) == [id |-> id, role |-> role]
MCKeySets == {{}, {Key("k", "ksk"), Key("z", "zsk")}, {Key("k", "ksk")}}

Names == <<z, n, a, c, ba, xa, x, yx, Wild(z), Wild(n), Wild(a), Wild(c), Wild(ba),
           Wild(xa), Wild(x), Wild(yx)>>
Order(f(_)) == [m \in Range(Names) |-> f(CHOOSE i \in DOMAIN Names : Names[i] = m)]
MCHashes == {Order(LAMBDA i : i), Order(LAMBDA i : (7 * i) % 17), Order(LAMBDA i : (5 * i + 3) % 17)}

KnownTypes == {"SOA", "NS", "A", "AAAA", "CNAME", "TXT", "DNSKEY"}

OPT(do, version, size) ==
    [type |-> "OPT", present |-> TRUE, do |-> do, version |-> version, udpSize |-> size]
Ask(name, type) ==
    [questions |-> 1, intact |-> TRUE, opcode |-> "QUERY", type |-> type, name |-> name,
     legal |-> TRUE, via |-> "tcp", additional |-> <<[type |-> "other"], OPT(TRUE, 0, 9)>>]
Lame(q) == [q EXCEPT !.via = "udp", !.additional = <<>>]
UpperX == [l \in {"X"} |-> "x"]

MCQueries ==
    {Ask(name, type) : name \in {n, a, c, ba, xa, x, yx}, type \in {"A", "CNAME", "TXT"}}
    \cup {Ask(z, "DNSKEY"), Ask(c, "DNSKEY"), Ask(z, "SOA"), Ask(<<"q">>, "A"), Ask(<<"X", "a", "z">>, "A"),
          Ask(z, "AXFR"), Ask(z, "unknown"), Lame(Ask(x, "A")), Lame(Ask(z, "TXT")),
          [Ask(x, "A") EXCEPT !.via = "udp", !.additional = <<OPT(TRUE, 0, 3)>>],
          [Ask(x, "A") EXCEPT !.via = "udp", !.additional = <<OPT(TRUE, 0, 9)>>],
          [Ask(x, "A") EXCEPT !.additional = <<OPT(FALSE, 1, 9)>>],
          [Ask(z, "SOA") EXCEPT !.opcode = "UPDATE"], [Ask(x, "A") EXCEPT !.legal = FALSE],
          [Ask(z, "SOA") EXCEPT !.questions = 2], [Ask(z, "SOA") EXCEPT !.intact = FALSE]}
===============================================================================
