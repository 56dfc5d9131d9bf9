-------------------------------- MODULE ZoneDB --------------------------------
(***************************************************************************)
(* The in-memory database of a zone (internal/db): lookups, wildcards and  *)
(* the sanity checks.  A database is a set of records; its two indexes     *)
(* need no state of their own.  A domain name is the sequence of its       *)
(* labels, in lower case as NewDomain leaves it, the rightmost label last. *)
(* data is a tuple whose form depends on the type; for types that refer to *)
(* a name (SOA, NS, CNAME) it holds that name.                             *)
(***************************************************************************)
EXTENDS Naturals, Sequences, SequencesExt, FiniteSets

CONSTANTS Apex,           \* db.Zone
          Lookalike       \* foreign names whose text ends in the text of the zone

RR(name, type, data) == [name |-> name, type |-> type, data |-> data]
Target(r) == r.data[1]

(* The keys of ByName, and LookupByType and LookupByName, which agree on   *)
(* names in lower case.                                                    *)
ByName(d) == {r.name : r \in d}
Lookup(d, name, type) == {r \in d : r.name = name /\ r.type = type}
ByType(d, type) == {r \in d : r.type = type}

(* name without its first k labels, and the wildcard below a name.         *)
Up(name, k) == SubSeq(name, k + 1, Len(name))
Wild(name) == <<"*">> \o name

Least(S) == CHOOSE x \in S : \A y \in S : x <= y

(* How many labels may be cut before the walk of WildcardLookup ends: it   *)
(* stops at the zone, or at the root for a name outside of the zone.       *)
Depth(name) == IF IsSuffix(Apex, name) THEN Len(name) - Len(Apex) ELSE Len(name)

(* A name between the queried one and the wildcard blocks the wildcard     *)
(* when it exists or has names below it.                                   *)
Blocks(d, name) == \E n \in ByName(d) : IsSuffix(name, n)

(* Mutant of WildcardLookup: nothing blocks a wildcard.                    *)
WildcardLookupUnblocked(d, name) ==
    LET found == {k \in 1..Depth(name) : Wild(Up(name, k)) \in ByName(d)}
    IN IF name = Apex \/ found = {} THEN {} ELSE {Wild(Up(name, Least(found)))}

WildcardLookup(d, name) ==
    LET found == {k \in 1..Depth(name) : Wild(Up(name, k)) \in ByName(d)}
        k == Least(found)
    IN IF name = Apex \/ found = {} \/ \E j \in 1..(k - 1) : Blocks(d, Up(name, j))
       THEN {} ELSE {Wild(Up(name, k))}

(* Addresses of the names that answers of these types refer to.            *)
LookupAdditional(d, answers) ==
    LET targets == {Target(r) : r \in {a \in answers : a.type \in {"CNAME", "MX", "NS", "SRV"}}}
    IN UNION {Lookup(d, n, "A") \cup Lookup(d, n, "AAAA") : n \in targets}

-----------------------------------------------------------------------------
cnameCompatibleRRtype(type) == type \in {"CNAME", "RRSIG", "NSEC3", "NSEC3PARAM"}

HasAddress(d, name) == Lookup(d, name, "A") \cup Lookup(d, name, "AAAA") # {}

(* HasSuffix on the text of the names, which knows no label boundary.      *)
inZone(name) == IsSuffix(Apex, name) \/ name \in Lookalike

(* Following CNAMEs from a name reaches an address, or leaves the zone,    *)
(* within as many steps as there are records.                              *)
ResolvesIn(d) ==
    LET cnames == ByType(d, "CNAME")
        names == {Target(c) : c \in cnames}
        within[k \in 0..Cardinality(d)] ==
            {n \in names : k > 0 /\ \/ HasAddress(d, n)
                                    \/ \E c \in Lookup(d, n, "CNAME") :
                                          ~inZone(Target(c)) \/ Target(c) \in within[k - 1]}
    IN within[Cardinality(d)]

(* Mutant of SanityChecks: CNAMEs are followed for one step only.          *)
SanityChecksOneStep(d) ==
    LET soas == ByType(d, "SOA")
        nss == ByType(d, "NS")
        cnames == ByType(d, "CNAME")
    IN
    /\ Cardinality(soas) = 1
    /\ \A soa \in soas : \E ns \in nss : Target(ns) = Target(soa)
    /\ \A ns \in nss : HasAddress(d, Target(ns))
    /\ Lookup(d, Apex, "CNAME") = {}
    /\ \A c \in cnames :
          /\ Cardinality(Lookup(d, c.name, "CNAME")) = 1
          /\ \A r \in d : r.name = c.name => cnameCompatibleRRtype(r.type)
          /\ Target(c) # c.name
          /\ inZone(Target(c)) =>
                HasAddress(d, Target(c)) \/ Lookup(d, Target(c), "CNAME") # {}

(* The serial is the clock's and never zero.                               *)
SanityChecks(d) ==
    LET soas == ByType(d, "SOA")
        nss == ByType(d, "NS")
        cnames == ByType(d, "CNAME")
    IN
    /\ Cardinality(soas) = 1
    /\ \A soa \in soas : \E ns \in nss : Target(ns) = Target(soa)
    /\ \A ns \in nss : HasAddress(d, Target(ns))
    /\ Lookup(d, Apex, "CNAME") = {}
    /\ \A c \in cnames :
          /\ Cardinality(Lookup(d, c.name, "CNAME")) = 1
          /\ \A r \in d : r.name = c.name => cnameCompatibleRRtype(r.type)
          /\ Target(c) # c.name
          /\ inZone(Target(c)) => Target(c) \in ResolvesIn(d)
===============================================================================
