-------------------------------- MODULE Answers --------------------------------
(***************************************************************************)
(* From the records of a zone to the answers of a slave: the master checks *)
(* and signs the zone (rebuild), a slave takes it over (swapDB), and       *)
(* handleDNS answers queries from it.  Sections of an answer are sets, as  *)
(* the order of records means nothing.                                     *)
(***************************************************************************)
EXTENDS Signing

CONSTANTS Zones,          \* the record sets to look at
          KeySets,        \* the signing keys to look at; {} is no DNSSEC
          Hashes,         \* the hash functions to look at
          Known,          \* keys of RRtypeFromWire
          Lower,          \* ToLower on labels: those it changes
          Queries,        \* the messages to look at, malformed ones among them
          UDPLimit,       \* records that fit 512 bytes,
          MaxUDP,         \* maxUDPMsgSize
          MaxTCP          \* and maxTCPResponseSize

(* Zones are finite, names are sequences of labels, the CRD's enum of      *)
(* rrtype leaves out the records that signing adds, and a key signs keys   *)
(* or data.  No two names that occur share a hash, or its base32 label,    *)
(* there is a largest hash among them, and the names of the zones are      *)
(* among them.                                                             *)
ASSUME AnswersAssumption ==
    /\ Apex \in Seq(STRING)
    /\ \A d \in Zones : IsFiniteSet(d)
    /\ \A d \in Zones : \A r \in d :
          /\ r = RR(r.name, r.type, r.data) /\ r.name \in Seq(STRING)
          /\ r.type \notin {"DNSKEY", "RRSIG", "NSEC3", "NSEC3PARAM"}
    /\ \A ks \in KeySets : \A k \in ks : k.role \in {"ksk", "zsk"}
    /\ \A h \in Hashes :
          /\ \A n \in DOMAIN h : h[n] \in Nat /\ ToString(h[n]) \in STRING \ {"*"}
          /\ \A m, n \in DOMAIN h : ToString(h[m]) = ToString(h[n]) => m = n
          /\ \E m \in DOMAIN h : \A n \in DOMAIN h : h[n] <= h[m]
          /\ \A d \in Zones : ByName(d) \cup {Apex} \subseteq DOMAIN h

VARIABLES
    records, keys, hash,  \* the zone, its keys and the hash; never changed
    current,              \* the master's database
    currDB, nsec3Chain,   \* the slave's database and chain
    query, resp           \* the last query and its answer

vars == <<records, keys, hash, current, currDB, nsec3Chain, query, resp>>

NoDB == {}                \* no database: a checked one has a SOA record

Response(rcode, answers, additional, authority) ==
    [rcode |-> rcode, answers |-> answers, additional |-> additional,
     authority |-> authority, opt |-> FALSE, tc |-> FALSE]
Empty(rcode) == Response(rcode, {}, {}, {})
NoResponse == Empty("none")
NoQuery == [questions |-> 0]

Init ==
    /\ records \in Zones /\ keys \in KeySets /\ hash \in Hashes
    /\ current = NoDB /\ currDB = NoDB /\ nsec3Chain = {}
    /\ query = NoQuery /\ resp = NoResponse

-----------------------------------------------------------------------------
(* The part of rebuild that makes the database.                            *)
Rebuild ==
    /\ current = NoDB /\ SanityChecks(records)
    /\ current' = IF keys = {} THEN records ELSE signDB(records, keys, hash)
    /\ UNCHANGED <<records, keys, hash, currDB, nsec3Chain, query, resp>>

DNSSECEnabled == keys # {}

(* The database travels as JSON and is indexed again; the chain is rebuilt *)
(* from its NSEC3 records.                                                 *)
swapDB ==
    /\ current # NoDB /\ currDB' = current
    /\ nsec3Chain' = IF DNSSECEnabled THEN ByType(current, "NSEC3") ELSE {}
    /\ UNCHANGED <<records, keys, hash, current, query, resp>>

-----------------------------------------------------------------------------
synthesiseAnswers(rrs, name) == {[r EXCEPT !.name = name] : r \in rrs}

(* The records at node that answer a query for type: those of the type, or *)
(* else the CNAME.                                                         *)
Matching(d, node, type) ==
    IF Lookup(d, node, type) # {} THEN Lookup(d, node, type)
    ELSE Lookup(d, node, "CNAME")

(* The rcode, the answers and the node they come from.                     *)
lookupRRset(d, name, type) ==
    LET wildcard == WildcardLookup(d, name)
        answer(rcode, answers, owner) ==
            [rcode |-> rcode, answers |-> answers, owner |-> owner]
    IN IF name \in ByName(d) THEN answer("NOERROR", Matching(d, name, type), name)
       ELSE IF wildcard = {} THEN answer("NXDOMAIN", {}, name)
       ELSE LET owner == CHOOSE w \in wildcard : TRUE
            IN answer("NOERROR", synthesiseAnswers(Matching(d, owner, type), name), owner)

SigsOf(d, owner, type) == {s \in Lookup(d, owner, "RRSIG") : Covers(s) = type}

(* Mutant of AnswerSigs: signatures of the type that was asked for.        *)
AnswerSigsAsked(d, found, type) ==
    IF found.answers = {} THEN {} ELSE SigsOf(d, found.owner, type)

(* appendDNSSEC: signatures of the type that is answered, under the name   *)
(* they are stored with, and the proof of an NXDOMAIN with its signatures. *)
AnswerSigs(d, found, type) ==
    LET plain == {r \in found.answers : r.type # "RRSIG"}
        typeCovered == IF plain = {} THEN type ELSE (CHOOSE r \in plain : TRUE).type
    IN IF found.answers = {} THEN {} ELSE SigsOf(d, found.owner, typeCovered)

Denial(d, chain, h, found, name) ==
    LET proof == ClosestEncloserProof(d, chain, name, h)
    IN IF found.rcode # "NXDOMAIN" THEN {}
       ELSE proof \cup UNION {SigsOf(d, n.name, "NSEC3") : n \in proof}

(* The SOA of a negative answer, and its signatures.                       *)
appendNegativeAuthority(d, found, do) ==
    IF found.rcode = "NOERROR" /\ found.answers # {} THEN {}
    ELSE Lookup(d, Apex, "SOA") \cup IF do THEN SigsOf(d, Apex, "SOA") ELSE {}

(* The answer of a database and its chain; do is the DO bit of the query   *)
(* for a database with DNSSEC.                                             *)
Resolve(d, chain, h, name, type, do) ==
    LET found == lookupRRset(d, name, type)
    IN Response(found.rcode,
                found.answers \cup IF do THEN AnswerSigs(d, found, type) ELSE {},
                LookupAdditional(d, found.answers),
                appendNegativeAuthority(d, found, do)
                    \cup IF do THEN Denial(d, chain, h, found, name) ELSE {})

(* Reading a message: query.New refuses what is cut off, has a bad label   *)
(* or not exactly one question; NewDomain turns the name into lower case   *)
(* and refuses empty labels; parseOPT takes the first OPT record.          *)
Parses(q) == q.questions = 1 /\ q.intact

NewDomain(name) == [i \in DOMAIN name |-> IF name[i] \in DOMAIN Lower THEN Lower[name[i]] ELSE name[i]]

(* Names of queries are sequences of labels too, and those of the zone are *)
(* hashed on their way to the apex, with the wildcards.                    *)
ASSUME QueriesAssumption ==
    \A q \in Queries :
        Parses(q) => LET name == NewDomain(q.name) IN
            /\ name \in Seq(STRING)
            /\ IsSuffix(Apex, name) =>
                  \A h \in Hashes : \A k \in 0..(Len(name) - Len(Apex)) :
                      {Up(name, k), Wild(Up(name, k))} \subseteq DOMAIN h

NoOPT == [type |-> "OPT", present |-> FALSE, do |-> FALSE, version |-> 0, udpSize |-> 0]
parseOPT(q) ==
    LET opts == SelectSeq(q.additional, LAMBDA r : r.type = "OPT")
    IN IF opts = <<>> THEN NoOPT ELSE Head(opts)

WithOPT(r, present) == [r EXCEPT !.opt = present]

FromDB(q) ==
    Resolve(currDB, nsec3Chain, hash, NewDomain(q.name), q.type, parseOPT(q).do /\ DNSSECEnabled)

(* Mutant of Answer: without a database or a legal name, SERVFAIL.         *)
AnswerServFail(q) ==
    LET edns == parseOPT(q) IN
    IF q.opcode # "QUERY" \/ q.type \in {"AXFR", "IXFR"} THEN Empty("REFUSED")
    ELSE IF q.type \notin Known THEN WithOPT(Empty("NOERROR"), edns.present)
    ELSE IF edns.present /\ edns.version # 0 THEN WithOPT(Empty("BADVERS"), TRUE)
    ELSE IF currDB = NoDB \/ ~q.legal THEN WithOPT(Empty("SERVFAIL"), edns.present)
    ELSE WithOPT(FromDB(q), edns.present)

(* handleDNS, with the early answers in the order of the code.             *)
Answer(q) ==
    LET edns == parseOPT(q) IN
    IF q.opcode # "QUERY" \/ q.type \in {"AXFR", "IXFR"} THEN Empty("REFUSED")
    ELSE IF q.type \notin Known THEN WithOPT(Empty("NOERROR"), edns.present)
    ELSE IF edns.present /\ edns.version # 0 THEN WithOPT(Empty("BADVERS"), TRUE)
    ELSE IF currDB = NoDB \/ ~q.legal THEN WithOPT(Empty("REFUSED"), edns.present)
    ELSE WithOPT(FromDB(q), edns.present)

(* An answer that does not fit is replaced by an empty one with TC.  A UDP *)
(* size in the query (0 without EDNS) counts from 512 bytes up to the      *)
(* server's own maximum.                                                   *)
Size(r) == Cardinality(r.answers) + Cardinality(r.additional) + Cardinality(r.authority)
             + IF r.opt THEN 1 ELSE 0
Limit(q) ==
    LET size == parseOPT(q).udpSize IN
    IF q.via = "tcp" THEN MaxTCP
    ELSE IF size > MaxUDP THEN MaxUDP
    ELSE IF size < UDPLimit THEN UDPLimit ELSE size
Fitted(q, r) == IF Size(r) > Limit(q) THEN [Empty("NOERROR") EXCEPT !.tc = TRUE] ELSE r

handleDNS(q) ==
    /\ resp' = IF Parses(q) THEN Fitted(q, Answer(q)) ELSE NoResponse
    /\ query' = q
    /\ UNCHANGED <<records, keys, hash, current, currDB, nsec3Chain>>

Next == Rebuild \/ swapDB \/ \E q \in Queries : handleDNS(q)

Spec == Init /\ [][Next]_vars

-----------------------------------------------------------------------------
TypeOK ==
    /\ records \in Zones /\ keys \in KeySets /\ hash \in Hashes
    /\ current \in {NoDB, IF keys = {} THEN records ELSE signDB(records, keys, hash)}
    /\ currDB \in {NoDB, current} /\ nsec3Chain \subseteq currDB
    /\ query \in Queries \cup {NoQuery}
    /\ resp.rcode \in {"none", "NOERROR", "NXDOMAIN", "REFUSED", "BADVERS"}

(* What the slave was asked and answered in full from a database.  The     *)
(* owner names of the NSEC3s, which are made of hashes, are names like     *)
(* others to this program; queries at or below one are left aside.         *)
QName == NewDomain(query.name)
OfHashes(name) == \E k \in 0..Len(name) : Up(name, k) \in ByName(nsec3Chain)
Served ==
    /\ query # NoQuery /\ resp # NoResponse /\ ~resp.tc
    /\ query.opcode = "QUERY" /\ query.type \in Known /\ query.legal
    /\ resp.rcode \in {"NOERROR", "NXDOMAIN"} /\ IsSuffix(Apex, QName) /\ ~OfHashes(QName)
Secured == Served /\ DNSSECEnabled /\ parseOPT(query).do

OfType(section, type) == {r \in section : r.type = type}
Plain(section) == {r \in section : r.type # "RRSIG"}

(* The tree of names of RFC 1034 and 4592, as the zone's authors wrote it: *)
(* a name exists when a record is at it or below it.                       *)
Exists(name) == \E r \in records : IsSuffix(name, r.name)
EmptyNonTerminal(name) == Exists(name) /\ name \notin ByName(records)
ClosestEncloser(name) == Up(name, Least({k \in 0..Len(name) : Exists(Up(name, k))}))
SourceOf(name) == IF Exists(name) THEN name ELSE Wild(ClosestEncloser(name))

(* Names on the way to an existing name that own no records themselves are *)
(* unknown to this program; what follows leaves them aside.                *)
NoHoles(name) == \A k \in 0..(Len(name) - Len(Apex)) : ~EmptyNonTerminal(Up(name, k))

Expected(name, type) ==
    LET here == {r \in records : r.name = SourceOf(name)}
        rrset == IF OfType(here, type) # {} THEN OfType(here, type) ELSE OfType(here, "CNAME")
    IN [rcode |-> IF here = {} THEN "NXDOMAIN" ELSE "NOERROR",
        answers |-> {[r EXCEPT !.name = name] : r \in rrset}]

(* An answer says of the name what the zone says: the records of the type, *)
(* or the CNAME, at the name or at the wildcard of its closest encloser;   *)
(* NXDOMAIN when neither is there; and the SOA when there are none.  Names *)
(* and signatures that signing adds to the database change nothing of that *)
(* (lookupRRset and WildcardLookup against signDB).                        *)
AnswersRight ==
    Served /\ ~EmptyNonTerminal(QName) /\ query.type \in {"A", "CNAME", "TXT", "SOA"} =>
        LET expected == Expected(QName, query.type) IN
        /\ resp.rcode = expected.rcode
        /\ Plain(resp.answers) = expected.answers
        /\ OfType(resp.authority, "SOA") # {} <=> expected.answers = {}

(* The NSEC3s the slave has divide the hash space: the hash of an owner is *)
(* matched by an NSEC3 that lists its types and is covered by none, every  *)
(* other hash is covered by exactly one (BuildNSEC3Chain, the transfer and *)
(* RebuildNSEC3Chain, covers).  NSEC3PARAM, added after the chain is       *)
(* built, is missing from the apex's list.                                 *)
RingSound ==
    DNSSECEnabled /\ currDB # NoDB =>
        \A n \in DOMAIN hash :
            LET matching == {m \in nsec3Chain : OwnerHash(m, hash) = hash[n]}
                covering == Covering(nsec3Chain, hash[n], hash)
            IN IF n \in ByName(records) \cup {Apex}
               THEN /\ covering = {} /\ Cardinality(matching) = 1
                    /\ \A m \in matching :
                         Types(m) = {r.type : r \in {s \in currDB : s.name = n}} \ {"NSEC3PARAM"}
               ELSE matching = {} /\ Cardinality(covering) = 1

(* A validator's view of a signature: made by a key of the zone, over just *)
(* these records.                                                          *)
Valid(sig, rrset) ==
    /\ Signed(sig) = rrset
    /\ \E k \in keys : DNSKEY(k) \in currDB /\ Signer(sig) = k.id

(* What the NSEC3s of a response prove of a name.                          *)
Shown == OfType(resp.authority, "NSEC3")
MatchedBy(name) == \E n \in Shown : OwnerHash(n, hash) = hash[name]
CoveredBy(name) == \E n \in Shown : covers(OwnerHash(n, hash), NextHash(n), hash[name])

(* A validator that is told NXDOMAIN finds signed NSEC3s that prove it: an *)
(* ancestor is matched, the name below it on the way to the queried one    *)
(* and the wildcard are covered (appendDNSSEC, ClosestEncloserProof).      *)
DenialProved ==
    Secured /\ resp.rcode = "NXDOMAIN" /\ NoHoles(QName) =>
        /\ \E k \in 1..(Len(QName) - Len(Apex)) :
              /\ MatchedBy(Up(QName, k)) /\ CoveredBy(Up(QName, k - 1))
              /\ CoveredBy(Wild(Up(QName, k)))
        /\ \A n \in Shown \cup OfType(resp.authority, "SOA") :
              \E sig \in OfType(resp.authority, "RRSIG") : Valid(sig, {n})

(* A validator finds for the answers a signature of the zone over exactly  *)
(* these records, at the name they came from: the labels tell it that a    *)
(* wildcard was expanded, and which (the signature itself is sent under    *)
(* the wildcard's name).  The DNSKEYs are signed by KSKs where there are   *)
(* any, the rest by ZSKs (SignDB, SignRRset, appendDNSSEC).                *)
SignedAnswers ==
    Secured /\ Plain(resp.answers) # {} /\ ~EmptyNonTerminal(QName) =>
        \E sig \in OfType(resp.answers, "RRSIG"), k \in keys :
            /\ {[r EXCEPT !.name = QName] : r \in Signed(sig)} = Plain(resp.answers)
            /\ Valid(sig, Signed(sig)) /\ Signer(sig) = k.id
            /\ LET source == SourceOf(QName)
               IN Labels(sig) = IF source[1] = "*" THEN Len(source) - 1 ELSE Len(source)
            /\ LET role == IF OfType(resp.answers, "DNSKEY") # {} THEN "ksk" ELSE "zsk"
               IN k.role = role \/ \A j \in keys : j.role # role

(* The CNAMEs of a served zone lead somewhere: no set of them leads only   *)
(* back into itself, and one that leads out of them, within the zone, ends *)
(* at a name with an address (SanityChecks in rebuild).                    *)
AliasesEnd ==
    LET aliases == ByType(currDB, "CNAME")
        named(S) == {r.name : r \in S}
    IN
    /\ \A S \in (SUBSET aliases) \ {{}} : \E r \in S : Target(r) \notin named(S)
    /\ \A r \in aliases :
          IsSuffix(Apex, Target(r)) =>
              Target(r) \in named(aliases) \/ HasAddress(currDB, Target(r))

(* The NSEC3 that ClosestEncloserProof sends for the next closer name      *)
(* "proves name between CE and queried does not exist", so it denies no    *)
(* name of the zone.                                                       *)
DeniesOnlyAbsent ==
    Secured /\ resp.rcode = "NXDOMAIN" =>
        \A k \in 0..(Len(QName) - Len(Apex)) :
            CoveredBy(Up(QName, k)) => ~Exists(Up(QName, k))
===============================================================================
