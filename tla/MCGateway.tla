------------------------------- MODULE MCGateway -------------------------------
(* Instances of Gateway: the messages a few clients send, among them late, *)
(* early, badly signed and malformed ones.                                 *)
EXTENDS Gateway

Ours == <<"z", ".">>
ToLower == [c \in {"A"} |-> "a"]
Types == {"A", "TXT"}
Decodes(type, rdata) == rdata # <<0>>

Key1 == "k1"
Key2 == "k2"
KeysOfSecret == {Key1}
Interchangeable == Permutations(Slots)

ab == <<"a", ".", "z", ".">>
AB == <<"A", ".", "z", ".">>
dash == <<"a", "-", "z", ".">>
long == <<"a", "a", "a", "a", ".", "z", ".">>

RR(class, name, type, rdata) ==
    [class |-> class, ttl |-> 0, name |-> name, type |-> type, rdata |-> rdata]
Add(name, n) == RR("IN", name, "A", <<n>>)

Plain(updates) ==
    [parses |-> TRUE, opcode |-> "UPDATE", zones |-> <<Ours>>, prerequisites |-> <<>>,
     updates |-> updates, additional |-> <<>>]
Sign(m, key, time, fudge) ==
    LET t == [type |-> "TSIG", rdataParses |-> TRUE, alg |-> "hmac-sha256.", time |-> time,
              fudge |-> fudge]
        over == <<m.opcode, m.zones, m.prerequisites, m.updates, m.additional, t.alg, time, fudge>>
    IN [m EXCEPT !.additional = Append(@, t @@ [mac |-> [key |-> key, over |-> over]])]
Signed(updates) == Sign(Plain(updates), Key1, 0, 1)

Manually == {[cr |-> <<"A", <<"m">>, <<1>>>>, labelled |-> FALSE, name |-> ab, type |-> "A",
              rdata |-> <<1>>]}

Traffic == <<
    Signed(<<Add(ab, 1)>>),
    Signed(<<RR("ANY", ab, "A", <<>>), Add(AB, 1)>>),
    Signed(<<RR("NONE", AB, "A", <<1>>)>>),
    Signed(<<RR("ANY", ab, "ANY", <<>>), RR("IN", ab, "HINFO", <<1>>)>>),
    Sign(Plain(<<Add(ab, 3), Add(long, 1)>>), Key1, 2, 0),
    Sign(Plain(<<Add(ab, 4)>>), Key2, 0, 1),
    Sign([Plain(<<Add(ab, 4)>>) EXCEPT !.zones = <<<<"y", ".">>>>], Key1, 0, 1),
    Sign([Plain(<<Add(ab, 4)>>) EXCEPT !.prerequisites = <<"p">>], Key1, 0, 1),
    [Plain(<<>>) EXCEPT !.parses = FALSE] >>

Collision == <<Signed(<<Add(ab, 1)>>), Signed(<<RR("NONE", dash, "A", <<1>>)>>)>>
===============================================================================
