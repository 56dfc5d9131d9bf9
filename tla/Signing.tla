-------------------------------- MODULE Signing --------------------------------
(***************************************************************************)
(* DNSSEC (internal/dnssec, and signDB of internal/master): signatures     *)
(* over RRsets, the NSEC3 ring and the proof that a name does not exist.   *)
(* A signature is what it was made of: the key and the RRset.  The hash of *)
(* a name is a number; hash is any injective function on the names that    *)
(* occur, so every order of the hashes is a possible one.                  *)
(***************************************************************************)
EXTENDS ZoneDB, TLC

(* LoadKeys; the role is the keyType of the Secret.                        *)
DNSKEY(k) == RR(Apex, "DNSKEY", <<<<k.id, k.role>>>>)
KSKs(keys) == {k \in keys : k.role = "ksk"}
ZSKs(keys) == {k \in keys : k.role = "zsk"}

(* Labels of a name, the wildcard not counted.                             *)
countLabels(name) == IF name[1] = "*" THEN Len(name) - 1 ELSE Len(name)

SignRRset(rrset, k) ==
    LET r == CHOOSE r \in rrset : TRUE
    IN RR(r.name, "RRSIG", <<r.type, k.id, countLabels(r.name), rrset>>)

Covers(sig) == sig.data[1]
Signer(sig) == sig.data[2]
Labels(sig) == sig.data[3]
Signed(sig) == sig.data[4]

RRsets(d) == {Lookup(d, r.name, r.type) : r \in {s \in d : s.type # "RRSIG"}}

(* KSKs sign the DNSKEY RRset and ZSKs the others; where there is one role *)
(* only, it signs all of them.                                             *)
SignDB(d, keys) ==
    LET ksks == IF KSKs(keys) = {} THEN ZSKs(keys) ELSE KSKs(keys)
        zsks == IF ZSKs(keys) = {} THEN KSKs(keys) ELSE ZSKs(keys)
        signers(rrset) == IF \E r \in rrset : r.type = "DNSKEY" THEN ksks ELSE zsks
    IN UNION {{SignRRset(rrset, k) : k \in signers(rrset)} : rrset \in RRsets(d)}

-----------------------------------------------------------------------------
(* The base32 label of a hash, in the order of the hashes.                 *)
HashOwner(h) == <<ToString(h)>> \o Apex
NextHash(nsec3) == nsec3.data[1]
Types(nsec3) == nsec3.data[2]

(* Mutant of BuildNSEC3Chain: the last NSEC3 does not point to the first.  *)
BuildNSEC3ChainOpen(d, hash) ==
    LET hashes == {hash[n] : n \in ByName(d)}
        next(h) == LET later == {g \in hashes : g > h}
                   IN Least(IF later = {} THEN {h} ELSE later)
        types(n) == {r.type : r \in {s \in d : s.name = n}} \cup {"RRSIG"}
    IN {RR(HashOwner(hash[n]), "NSEC3", <<next(hash[n]), types(n)>>) : n \in ByName(d)}

(* One NSEC3 for each owner name, linked in the order of the hashes and    *)
(* from the last back to the first.                                        *)
BuildNSEC3Chain(d, hash) ==
    LET hashes == {hash[n] : n \in ByName(d)}
        next(h) == LET later == {g \in hashes : g > h}
                   IN Least(IF later = {} THEN hashes ELSE later)
        types(n) == {r.type : r \in {s \in d : s.name = n}} \cup {"RRSIG"}
    IN {RR(HashOwner(hash[n]), "NSEC3", <<next(hash[n]), types(n)>>) : n \in ByName(d)}

NSEC3PARAM == RR(Apex, "NSEC3PARAM", <<>>)

(* The chain is built over the signed zone and signed afterwards.          *)
signDB(d, keys, hash) ==
    LET withKeys == d \cup {DNSKEY(k) : k \in keys}
        signed == withKeys \cup SignDB(withKeys, keys)
        denial == BuildNSEC3Chain(signed, hash) \cup {NSEC3PARAM}
        zsks == IF ZSKs(keys) = {} THEN keys ELSE ZSKs(keys)
    IN signed \cup denial \cup UNION {{SignRRset({r}, k) : k \in zsks} : r \in denial}

-----------------------------------------------------------------------------
(* RebuildNSEC3Chain and findCovering read the hash of an NSEC3 off its    *)
(* owner name.                                                             *)
OwnerHash(nsec3, hash) ==
    CHOOSE h \in {hash[n] : n \in DOMAIN hash} : HashOwner(h) = nsec3.name

covers(owner, next, h) ==
    IF owner < next THEN owner < h /\ h < next ELSE owner < h \/ h < next

Covering(chain, h, hash) == {n \in chain : covers(OwnerHash(n, hash), NextHash(n), h)}

(* The first of the chain in the order of its owners.                      *)
findCovering(chain, h, hash) ==
    CHOOSE n \in Covering(chain, h, hash) :
        \A m \in Covering(chain, h, hash) : OwnerHash(n, hash) <= OwnerHash(m, hash)

(* Mutant of ClosestEncloserProof: the queried name for the next closer.   *)
ClosestEncloserProofOfQueried(d, chain, name, hash) ==
    LET owners == {OwnerHash(n, hash) : n \in chain}
        below == Len(name) - Len(Apex)
        found == {k \in 0..below : hash[Up(name, k)] \in owners}
        depth == Least(found)
        ce == hash[Up(name, depth)]
        wild == hash[Wild(Up(name, depth))]
    IN IF \/ ~IsSuffix(Apex, name) \/ below = 0 \/ found = {} \/ depth = 0
          \/ Covering(chain, hash[name], hash) = {} \/ Covering(chain, wild, hash) = {}
       THEN {}
       ELSE Lookup(d, HashOwner(ce), "NSEC3")
            \cup {findCovering(chain, hash[name], hash), findCovering(chain, wild, hash)}

(* The NSEC3s for the closest encloser, the next closer name and the       *)
(* wildcard at the encloser; none when one of them cannot be had.  depth   *)
(* is how many labels are cut from the name to reach the closest encloser: *)
(* the nearest ancestor in the chain, or the apex.                         *)
ClosestEncloserProof(d, chain, name, hash) ==
    LET owners == {OwnerHash(n, hash) : n \in chain}
        below == Len(name) - Len(Apex)
        found == {k \in 0..below : hash[Up(name, k)] \in owners}
        depth == Least(found)
        ce == hash[Up(name, depth)]
        nc == hash[Up(name, depth - 1)]
        wild == hash[Wild(Up(name, depth))]
    IN IF \/ ~IsSuffix(Apex, name) \/ below = 0 \/ found = {} \/ depth = 0
          \/ Covering(chain, nc, hash) = {} \/ Covering(chain, wild, hash) = {}
       THEN {}
       ELSE Lookup(d, HashOwner(ce), "NSEC3")
            \cup {findCovering(chain, nc, hash), findCovering(chain, wild, hash)}
===============================================================================
