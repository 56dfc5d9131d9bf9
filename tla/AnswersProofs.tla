----------------------------- MODULE AnswersProofs -----------------------------
(***************************************************************************)
(* Proofs about Answers for every zone, every set of keys and every order  *)
(* of the hashes.                                                          *)
(***************************************************************************)
EXTENDS Answers, SequenceTheorems, FiniteSetTheorems, WellFoundedInduction, TLAPS

-----------------------------------------------------------------------------
(* Least and greatest elements.                                            *)

LEMMA LeastFacts ==
  ASSUME NEW S \in SUBSET Nat, S # {}
  PROVE  Least(S) \in S /\ \A y \in S : Least(S) <= y
<1>1. PICK x \in S : \A y \in S : ~(<<y, x>> \in OpToRel(<, Nat))
  BY NatLessThanWellFounded, WFMin
<1>2. \A y \in S : ~(y < x)
  BY <1>1, Zenon DEF OpToRel
<1>3. \A y \in S : x <= y
  BY <1>2
<1> QED BY <1>3 DEF Least

LEMMA GreatestExists ==
  ASSUME NEW S \in SUBSET Nat, S # {}, NEW b \in Nat, \A y \in S : y <= b
  PROVE  \E x \in S : \A y \in S : y <= x
<1> DEFINE Upper == {x \in Nat : \A y \in S : y <= x}
           m == Least(Upper)
<1>1. Upper \in SUBSET Nat /\ b \in Upper OBVIOUS
<1>2. m \in Upper /\ \A y \in Upper : m <= y
  <2> HIDE DEF Upper
  <2> QED BY <1>1, LeastFacts
<1>3. m \in Nat /\ \A y \in S : y <= m BY <1>2
<1>4. m \in S
  <2> SUFFICES ASSUME m \notin S PROVE FALSE
    OBVIOUS
  <2>1. \A y \in S : y < m /\ y \in Nat
    <3> HIDE DEF m
    <3> QED BY <1>3
  <2>2. m > 0
    <3> HIDE DEF m
    <3>1. PICK y \in S : TRUE OBVIOUS
    <3> QED BY <1>3, <2>1, <3>1
  <2>3. m - 1 \in Nat /\ \A y \in S : y <= m - 1
    <3> HIDE DEF m
    <3> QED BY <1>3, <2>1, <2>2
  <2>4. m - 1 \in Upper BY <2>3
  <2>5. m <= m - 1 BY <1>2, <2>4
  <2> HIDE DEF m
  <2> QED BY <1>3, <2>5
<1> QED BY <1>3, <1>4

-----------------------------------------------------------------------------
(* The ring.                                                               *)

Succ(H, h) == LET later == {g \in H : g > h} IN Least(IF later = {} THEN H ELSE later)

(* The next hash is the one after, or the first of all after the last.     *)
LEMMA SuccFacts ==
  ASSUME NEW H \in SUBSET Nat, NEW h \in H
  PROVE  /\ Succ(H, h) \in H
         /\ \/ /\ Succ(H, h) > h
               /\ \A g \in H : g > h => Succ(H, h) <= g
            \/ \A g \in H : g <= h /\ Succ(H, h) <= g
<1> DEFINE later == {g \in H : g > h}
<1>1. CASE later = {}
  <2>1. Succ(H, h) = Least(H) BY <1>1 DEF Succ
  <2>2. Least(H) \in H /\ \A g \in H : Least(H) <= g BY LeastFacts
  <2>3. \A g \in H : g <= h BY <1>1
  <2> QED BY <2>1, <2>2, <2>3
<1>2. CASE later # {}
  <2>1. Succ(H, h) = Least(later) BY <1>2 DEF Succ
  <2>2. later \in SUBSET Nat OBVIOUS
  <2>3. Least(later) \in later /\ \A g \in later : Least(later) <= g
    <3> HIDE DEF later
    <3> QED BY <1>2, <2>2, LeastFacts
  <2> QED BY <2>1, <2>3
<1> QED BY <1>1, <1>2

LEMMA NoneCoversMember ==
  ASSUME NEW H \in SUBSET Nat, NEW h \in H, NEW x \in H
  PROVE  ~covers(h, Succ(H, h), x)
<1> DEFINE s == Succ(H, h)
<1>1. /\ s \in H
      /\ \/ s > h /\ \A g \in H : g > h => s <= g
         \/ \A g \in H : g <= h /\ s <= g
  BY SuccFacts
<1> HIDE DEF s
<1>2. s \in Nat /\ h \in Nat /\ x \in Nat BY <1>1
<1>3. CASE s > h /\ \A g \in H : g > h => s <= g
  <2>1. x > h => s <= x BY <1>3
  <2> QED BY <1>2, <1>3, <2>1 DEF covers, s
<1>4. CASE \A g \in H : g <= h /\ s <= g
  <2>1. x <= h /\ s <= x /\ s <= h BY <1>4
  <2> QED BY <1>2, <2>1 DEF covers, s
<1> QED BY <1>1, <1>3, <1>4

LEMMA OneCoversOther ==
  ASSUME NEW H \in SUBSET Nat, H # {}, NEW b \in Nat, \A y \in H : y <= b,
         NEW x \in Nat \ H
  PROVE  \E h \in H : /\ covers(h, Succ(H, h), x)
                     /\ \A g \in H : covers(g, Succ(H, g), x) => g = h
<1> DEFINE lower == {g \in H : g < x}
<1>1. \E h \in H : covers(h, Succ(H, h), x)
  <2>1. CASE lower # {}
    <3>1. lower \in SUBSET Nat /\ \A y \in lower : y <= b OBVIOUS
    <3>2. PICK h \in lower : \A y \in lower : y <= h
      <4> HIDE DEF lower
      <4> QED BY <2>1, <3>1, GreatestExists
    <3>3. h \in H /\ h < x /\ h \in Nat BY <3>2
    <3> DEFINE s == Succ(H, h)
    <3>4. /\ s \in H
          /\ \/ s > h /\ \A g \in H : g > h => s <= g
             \/ \A g \in H : g <= h /\ s <= g
      BY <3>3, SuccFacts
    <3> HIDE DEF s
    <3>5. s \in Nat /\ s # x BY <3>4
    <3>6. s < x => s <= h BY <3>2, <3>4
    <3>7. covers(h, s, x)
      BY <3>3, <3>4, <3>5, <3>6 DEF covers
    <3> QED BY <3>3, <3>7 DEF s
  <2>2. CASE lower = {}
    <3>1. PICK h \in H : \A y \in H : y <= h BY GreatestExists
    <3> DEFINE s == Succ(H, h)
    <3>2. /\ s \in H
          /\ \/ s > h /\ \A g \in H : g > h => s <= g
             \/ \A g \in H : g <= h /\ s <= g
      BY <3>1, SuccFacts
    <3> HIDE DEF s
    <3>3. s \in Nat /\ s # x /\ ~(s < x) /\ s <= h /\ h \in Nat BY <2>2, <3>1, <3>2
    <3>4. covers(h, s, x) BY <3>3 DEF covers
    <3> QED BY <3>1, <3>4 DEF s
  <2> QED BY <2>1, <2>2
<1>2. ASSUME NEW g \in H, NEW h \in H, g < h,
             covers(g, Succ(H, g), x), covers(h, Succ(H, h), x)
      PROVE  FALSE
  <2> DEFINE s == Succ(H, g)
             t == Succ(H, h)
  <2>1. /\ s \in H
        /\ \/ s > g /\ \A f \in H : f > g => s <= f
           \/ \A f \in H : f <= g /\ s <= f
    BY SuccFacts
  <2>2. /\ t \in H
        /\ \/ t > h /\ \A f \in H : f > h => t <= f
           \/ \A f \in H : f <= h /\ t <= f
    BY SuccFacts
  <2>3. covers(g, s, x) /\ covers(h, t, x) BY <1>2
  <2> HIDE DEF s, t
  <2>4. s \in Nat /\ t \in Nat /\ g \in Nat /\ h \in Nat /\ x \in Nat BY <2>1, <2>2
  <2>5. s > g /\ s <= h BY <1>2, <2>1, <2>4
  <2>6. g < x /\ x < s BY <2>3, <2>4, <2>5 DEF covers
  <2>7. x < h /\ ~(t > h)
    BY <2>3, <2>4, <2>5, <2>6 DEF covers
  <2>8. t <= g BY <2>2, <2>7
  <2> QED BY <2>3, <2>4, <2>6, <2>7, <2>8 DEF covers
<1>3. PICK h \in H : covers(h, Succ(H, h), x) BY <1>1
<1>4. ASSUME NEW g \in H, covers(g, Succ(H, g), x) PROVE g = h
  <2>1. ~(g < h) /\ ~(h < g) BY <1>2, <1>3, <1>4
  <2> QED BY <2>1
<1> QED BY <1>3, <1>4

-----------------------------------------------------------------------------
(* Names.                                                                  *)

(* The provers do not know that "*" is a string.                           *)
Label == STRING \cup {"*"}
Name == Seq(Label)

LEMMA NamesAre == Apex \in Name /\ \A d \in Zones : \A r \in d : r.name \in Name
<1>1. Seq(STRING) \subseteq Name BY DEF Name, Label
<1> QED BY <1>1, AnswersAssumption

LEMMA SuffixIs ==
  ASSUME NEW s \in Name, NEW t \in Name
  PROVE  IsSuffix(s, t) <=> /\ Len(s) <= Len(t)
                            /\ \A i \in 1..Len(s) : s[i] = t[Len(t) - Len(s) + i]
<1> USE DEF Name
<1> DEFINE rs == Reverse(s)
           rt == Reverse(t)
<1>0. Len(s) \in Nat /\ Len(t) \in Nat BY LenProperties
<1>1. /\ rs = [i \in 1..Len(s) |-> s[(Len(s) - i) + 1]]
      /\ rt = [i \in 1..Len(t) |-> t[(Len(t) - i) + 1]]
  BY DEF Reverse
<1>2. rs \in Seq(Label) /\ Len(rs) = Len(s)
  BY <1>0, <1>1
<1>3. rt \in Seq(Label) /\ Len(rt) = Len(t)
  BY <1>0, <1>1
<1> HIDE DEF rs, rt
<1>4. CASE ~(Len(s) <= Len(t)) BY <1>2, <1>3, <1>4 DEF IsSuffix, IsPrefix, rs, rt
<1>5. CASE Len(s) <= Len(t)
  <2>1. IsSuffix(s, t) <=> SubSeq(rs, 1, Len(s)) = SubSeq(rt, 1, Len(s))
    BY <1>2, <1>3, <1>5 DEF IsSuffix, IsPrefix, rs, rt
  <2>2. /\ SubSeq(rs, 1, Len(s)) = [i \in 1..Len(s) |-> rs[i]]
        /\ SubSeq(rt, 1, Len(s)) = [i \in 1..Len(s) |-> rt[i]]
    BY <1>0, <1>2, <1>3, <1>5
  <2>3. SubSeq(rs, 1, Len(s)) = SubSeq(rt, 1, Len(s)) <=> \A i \in 1..Len(s) : rs[i] = rt[i]
    BY <2>2
  <2>4. \A i \in 1..Len(s) : rs[i] = s[Len(s) - i + 1] /\ rt[i] = t[Len(t) - i + 1]
    BY <1>0, <1>1, <1>5
  <2>5. ASSUME \A i \in 1..Len(s) : rs[i] = rt[i], NEW j \in 1..Len(s)
        PROVE  s[j] = t[Len(t) - Len(s) + j]
    <3> DEFINE i == Len(s) - j + 1
    <3>1. i \in 1..Len(s) /\ Len(s) - i + 1 = j /\ Len(t) - i + 1 = Len(t) - Len(s) + j
      BY <1>0
    <3> HIDE DEF i
    <3>2. rs[i] = s[Len(s) - i + 1] /\ rt[i] = t[Len(t) - i + 1] /\ rs[i] = rt[i]
      BY <2>4, <2>5, <3>1, Zenon
    <3> QED BY <3>1, <3>2
  <2>6. ASSUME \A i \in 1..Len(s) : s[i] = t[Len(t) - Len(s) + i], NEW j \in 1..Len(s)
        PROVE  rs[j] = rt[j]
    <3>1. Len(s) - j + 1 \in 1..Len(s) BY <1>0
    <3>2. s[Len(s) - j + 1] = t[Len(t) - Len(s) + (Len(s) - j + 1)] BY <2>6, <3>1
    <3>3. Len(t) - Len(s) + (Len(s) - j + 1) = Len(t) - j + 1 BY <1>0
    <3> QED BY <2>4, <3>2, <3>3
  <2> QED BY <1>5, <2>1, <2>3, <2>5, <2>6
<1> QED BY <1>4, <1>5

(* What cutting labels off a name and putting a wildcard before it gives.  *)
LEMMA UpFacts ==
  ASSUME NEW s \in Name, NEW k \in 0..Len(s)
  PROVE  /\ Up(s, k) \in Name /\ Len(Up(s, k)) = Len(s) - k
         /\ \A i \in 1..(Len(s) - k) : Up(s, k)[i] = s[k + i]
<1>1. Len(s) \in Nat /\ k \in Nat /\ k <= Len(s) BY LenProperties DEF Name
<1>2. Up(s, k) = SubSeq(s, k + 1, Len(s)) BY DEF Up
<1> QED BY <1>1, <1>2 DEF Name

LEMMA WildFacts ==
  ASSUME NEW s \in Name
  PROVE  /\ Wild(s) \in Name /\ Len(Wild(s)) = Len(s) + 1 /\ Wild(s)[1] = "*"
         /\ \A i \in 1..Len(s) : Wild(s)[i + 1] = s[i]
<1> DEFINE x == "*"
<1>1. x \in Label BY DEF Label
<1> HIDE DEF x
<1>3. /\ <<x>> \o s \in Name /\ Len(<<x>> \o s) = Len(s) + 1 /\ (<<x>> \o s)[1] = x
      /\ \A i \in 1..Len(s) : (<<x>> \o s)[i + 1] = s[i]
  BY <1>1 DEF Name
<1> QED BY <1>3 DEF Wild, x

LEMMA HashOwnerFacts ==
  ASSUME NEW h \in Hashes, NEW n \in DOMAIN h
  PROVE  /\ HashOwner(h[n]) \in Name /\ Len(HashOwner(h[n])) = Len(Apex) + 1
         /\ HashOwner(h[n])[1] = ToString(h[n]) /\ ToString(h[n]) # "*"
         /\ \A i \in 1..Len(Apex) : HashOwner(h[n])[i + 1] = Apex[i]
<1>1. ToString(h[n]) \in Label \ {"*"} /\ Apex \in Name BY AnswersAssumption, NamesAre DEF Label
<1> DEFINE x == ToString(h[n])
<1> HIDE DEF x
<1>2. x \in Label \ {"*"} BY <1>1 DEF x
<1>3. /\ <<x>> \o Apex \in Name /\ Len(<<x>> \o Apex) = Len(Apex) + 1
      /\ (<<x>> \o Apex)[1] = x
      /\ \A i \in 1..Len(Apex) : (<<x>> \o Apex)[i + 1] = Apex[i]
  BY <1>1, <1>2 DEF Name
<1> QED BY <1>2, <1>3 DEF HashOwner, x

LEMMA SuffixSelf ==
  ASSUME NEW s \in Name
  PROVE  IsSuffix(s, s)
<1>1. Len(s) \in Nat BY LenProperties DEF Name
<1>2. \A i \in 1..Len(s) : Len(s) - Len(s) + i = i BY <1>1
<1> QED BY <1>1, <1>2, SuffixIs

LEMMA SuffixTrans ==
  ASSUME NEW s \in Name, NEW t \in Name, NEW u \in Name, IsSuffix(s, t), IsSuffix(t, u)
  PROVE  IsSuffix(s, u)
<1>0. Len(s) \in Nat /\ Len(t) \in Nat /\ Len(u) \in Nat BY LenProperties DEF Name
<1>1. Len(s) <= Len(t) /\ \A i \in 1..Len(s) : s[i] = t[Len(t) - Len(s) + i] BY SuffixIs
<1>2. Len(t) <= Len(u) /\ \A i \in 1..Len(t) : t[i] = u[Len(u) - Len(t) + i] BY SuffixIs
<1>3. ASSUME NEW i \in 1..Len(s) PROVE s[i] = u[Len(u) - Len(s) + i]
  <2>1. Len(t) - Len(s) + i \in 1..Len(t) BY <1>0, <1>1
  <2>2. s[i] = u[Len(u) - Len(t) + (Len(t) - Len(s) + i)] BY <1>1, <1>2, <2>1
  <2>3. Len(u) - Len(t) + (Len(t) - Len(s) + i) = Len(u) - Len(s) + i BY <1>0
  <2> QED BY <2>2, <2>3
<1> QED BY <1>0, <1>1, <1>2, <1>3, SuffixIs
-----------------------------------------------------------------------------
(* The signed zone.                                                        *)

Sig(d, n, t, k) == RR(n, "RRSIG", <<t, k.id, countLabels(n), Lookup(d, n, t)>>)

LEMMA SignRRsetIs ==
  ASSUME NEW d, NEW r \in d, NEW k
  PROVE  SignRRset(Lookup(d, r.name, r.type), k) = Sig(d, r.name, r.type, k)
<1> DEFINE rrset == Lookup(d, r.name, r.type)
           c == CHOOSE x \in rrset : TRUE
<1>1. r \in rrset BY DEF Lookup
<1>2. c \in rrset
  <2> HIDE DEF rrset
  <2> QED BY <1>1
<1>3. c.name = r.name /\ c.type = r.type
  <2> HIDE DEF c
  <2> QED BY <1>2 DEF Lookup
<1>4. SignRRset(rrset, k) = RR(c.name, "RRSIG", <<c.type, k.id, countLabels(c.name), rrset>>)
  BY DEF SignRRset
<1> HIDE DEF c
<1> QED BY <1>3, <1>4 DEF Sig

(* The keys that sign the records of a type.                               *)
Signers(K, t) ==
    IF t = "DNSKEY" THEN IF KSKs(K) = {} THEN ZSKs(K) ELSE KSKs(K)
    ELSE IF ZSKs(K) = {} THEN KSKs(K) ELSE ZSKs(K)

LEMMA SignersAre ==
  ASSUME NEW K \in KeySets, NEW t
  PROVE  Signers(K, t) \subseteq K /\ (K # {} => Signers(K, t) # {})
<1>1. \A k \in K : k.role \in {"ksk", "zsk"} BY AnswersAssumption
<1> QED BY <1>1 DEF Signers, KSKs, ZSKs

LEMMA SignDBIs ==
  ASSUME NEW d, NEW K, NEW s
  PROVE  s \in SignDB(d, K) <=>
           \E r \in d : r.type # "RRSIG" /\ \E k \in Signers(K, r.type) : s = Sig(d, r.name, r.type, k)
<1> DEFINE signers(rrset) ==
             IF \E r \in rrset : r.type = "DNSKEY"
             THEN IF KSKs(K) = {} THEN ZSKs(K) ELSE KSKs(K)
             ELSE IF ZSKs(K) = {} THEN KSKs(K) ELSE ZSKs(K)
           set(r) == Lookup(d, r.name, r.type)
<1>1. s \in SignDB(d, K) <=> \E rrset \in RRsets(d) : \E k \in signers(rrset) : s = SignRRset(rrset, k)
  BY DEF SignDB
<1>2. \A rrset : rrset \in RRsets(d) <=> \E r \in d : r.type # "RRSIG" /\ rrset = set(r)
  BY DEF RRsets
<1>3. \A r \in d : signers(set(r)) = Signers(K, r.type)
  <2> SUFFICES ASSUME NEW r \in d PROVE signers(set(r)) = Signers(K, r.type)
    OBVIOUS
  <2>1. (\E x \in set(r) : x.type = "DNSKEY") <=> r.type = "DNSKEY" BY DEF Lookup
  <2> QED BY <2>1 DEF Signers
<1>4. \A r \in d : \A k : SignRRset(set(r), k) = Sig(d, r.name, r.type, k) BY SignRRsetIs
<1> HIDE DEF signers, set
<1>5. s \in SignDB(d, K) <=>
        \E r \in d : r.type # "RRSIG" /\ \E k \in signers(set(r)) : s = SignRRset(set(r), k)
  BY <1>1, <1>2
<1> QED BY <1>3, <1>4, <1>5

WithKeys(d, K) == d \cup {DNSKEY(k) : k \in K}
Signable(d, K) == WithKeys(d, K) \cup SignDB(WithKeys(d, K), K)
Owners(d) == ByName(d) \cup {Apex}

LEMMA DNSKEYIs == \A k : DNSKEY(k).name = Apex /\ DNSKEY(k).type = "DNSKEY"
BY DEF DNSKEY, RR

LEMMA SigIs ==
  \A d, n, t, k : /\ Sig(d, n, t, k).name = n /\ Sig(d, n, t, k).type = "RRSIG"
                  /\ Covers(Sig(d, n, t, k)) = t /\ Signer(Sig(d, n, t, k)) = k.id
                  /\ Labels(Sig(d, n, t, k)) = countLabels(n)
                  /\ Signed(Sig(d, n, t, k)) = Lookup(d, n, t)
BY DEF Sig, RR, Covers, Signer, Labels, Signed

LEMMA SignableNames ==
  ASSUME NEW d \in Zones, NEW K \in KeySets, K # {}
  PROVE  /\ ByName(Signable(d, K)) = Owners(d)
         /\ \A n \in Owners(d) : \E s \in Signable(d, K) : s.name = n /\ s.type = "RRSIG"
<1> DEFINE W == WithKeys(d, K)
<1>1. ByName(W) = Owners(d)
  <2>1. PICK k \in K : TRUE OBVIOUS
  <2>2. DNSKEY(k) \in W /\ DNSKEY(k).name = Apex BY <2>1, DNSKEYIs DEF WithKeys
  <2>3. \A r \in W : r \in d \/ r.name = Apex BY DNSKEYIs DEF WithKeys
  <2>4. d \subseteq W BY DEF WithKeys
  <2> HIDE DEF W
  <2> QED BY <2>2, <2>3, <2>4 DEF ByName, Owners
<1>2. \A r \in W : r.type # "RRSIG"
  <2>1. \A r \in d : r.type # "RRSIG" BY AnswersAssumption
  <2> QED BY <2>1, DNSKEYIs DEF WithKeys
<1> HIDE DEF W
<1>3. \A s \in SignDB(W, K) : s.name \in ByName(W)
  <2> SUFFICES ASSUME NEW s \in SignDB(W, K) PROVE s.name \in ByName(W)
    OBVIOUS
  <2>1. PICK r \in W : \E k \in Signers(K, r.type) : s = Sig(W, r.name, r.type, k) BY SignDBIs
  <2>2. s.name = r.name BY <2>1, SigIs
  <2> QED BY <2>2 DEF ByName
<1>4. ASSUME NEW n \in Owners(d)
      PROVE  \E s \in SignDB(W, K) : s.name = n /\ s.type = "RRSIG"
  <2>1. PICK r \in W : r.name = n BY <1>1 DEF ByName
  <2>2. PICK k \in Signers(K, r.type) : TRUE BY SignersAre
  <2>3. Sig(W, r.name, r.type, k) \in SignDB(W, K) BY <1>2, <2>1, <2>2, SignDBIs
  <2> QED BY <2>1, <2>3, SigIs
<1>5. Signable(d, K) = W \cup SignDB(W, K) BY DEF Signable, W
<1>6. ByName(Signable(d, K)) = ByName(W) BY <1>3, <1>5 DEF ByName
<1> QED BY <1>1, <1>4, <1>5, <1>6

-----------------------------------------------------------------------------
(* The chain.                                                              *)

TypesAt(d, n) == {r.type : r \in {s \in d : s.name = n}}
HashesOf(N, h) == {h[n] : n \in N}
Entry(d, N, n, h) ==
    RR(HashOwner(h[n]), "NSEC3", <<Succ(HashesOf(N, h), h[n]), TypesAt(d, n) \cup {"RRSIG"}>>)
Chain(d, K, h) == BuildNSEC3Chain(Signable(d, K), h)

LEMMA EntryIs ==
  \A d, N, n, h : /\ Entry(d, N, n, h).name = HashOwner(h[n]) /\ Entry(d, N, n, h).type = "NSEC3"
                  /\ NextHash(Entry(d, N, n, h)) = Succ(HashesOf(N, h), h[n])
                  /\ Types(Entry(d, N, n, h)) = TypesAt(d, n) \cup {"RRSIG"}
BY DEF Entry, RR, NextHash, Types

LEMMA ChainIs ==
  ASSUME NEW d \in Zones, NEW K \in KeySets, K # {}, NEW h
  PROVE  Chain(d, K, h) = {Entry(Signable(d, K), Owners(d), n, h) : n \in Owners(d)}
<1> DEFINE S == Signable(d, K)
<1>1. ByName(S) = Owners(d) BY SignableNames
<1> HIDE DEF S
<1>2. BuildNSEC3Chain(S, h) = {Entry(S, ByName(S), n, h) : n \in ByName(S)}
  BY DEF BuildNSEC3Chain, Entry, HashesOf, Succ, TypesAt
<1> QED BY <1>1, <1>2 DEF Chain, S

(* Owner names tell the hashed names apart.                                *)
LEMMA HashOwnersDiffer ==
  ASSUME NEW h \in Hashes, NEW m \in DOMAIN h, NEW n \in DOMAIN h,
         h[m] = h[n] \/ HashOwner(h[m]) = HashOwner(h[n])
  PROVE  m = n
<1>1. ToString(h[m]) = ToString(h[n]) BY HashOwnerFacts
<1> QED BY <1>1, AnswersAssumption

LEMMA OwnerHashIs ==
  ASSUME NEW h \in Hashes, NEW n \in DOMAIN h, NEW r, r.name = HashOwner(h[n])
  PROVE  OwnerHash(r, h) = h[n]
<1> DEFINE c == OwnerHash(r, h)
<1>1. c \in {h[m] : m \in DOMAIN h} /\ HashOwner(c) = HashOwner(h[n]) BY DEF OwnerHash
<1> HIDE DEF c
<1>2. PICK m \in DOMAIN h : c = h[m] BY <1>1
<1>3. m = n BY <1>1, <1>2, HashOwnersDiffer
<1> QED BY <1>2, <1>3 DEF c

LEMMA OwnersHashed ==
  ASSUME NEW d \in Zones, NEW h \in Hashes
  PROVE  /\ Owners(d) \subseteq DOMAIN h
         /\ HashesOf(Owners(d), h) \in SUBSET Nat /\ HashesOf(Owners(d), h) # {}
         /\ \E b \in Nat : \A y \in HashesOf(Owners(d), h) : y <= b
         /\ \A n \in DOMAIN h : h[n] \in Nat
<1>1. Owners(d) \subseteq DOMAIN h BY AnswersAssumption DEF Owners
<1>2. \A n \in DOMAIN h : h[n] \in Nat BY AnswersAssumption
<1>3. PICK m \in DOMAIN h : \A n \in DOMAIN h : h[n] <= h[m] BY AnswersAssumption
<1>4. Apex \in Owners(d) BY DEF Owners
<1> QED BY <1>1, <1>2, <1>3, <1>4 DEF HashesOf

(* A name of the zone is matched and not covered; another one is covered   *)
(* and not matched, each by just one NSEC3.                                *)
LEMMA ChainMatches ==
  ASSUME NEW d \in Zones, NEW K \in KeySets, K # {}, NEW h \in Hashes, NEW n \in DOMAIN h
  PROVE  LET matching == {m \in Chain(d, K, h) : OwnerHash(m, h) = h[n]}
             covering == Covering(Chain(d, K, h), h[n], h)
         IN IF n \in Owners(d)
            THEN matching = {Entry(Signable(d, K), Owners(d), n, h)} /\ covering = {}
            ELSE matching = {} /\ \E m \in Owners(d) : covering = {Entry(Signable(d, K), Owners(d), m, h)}
<1> DEFINE E(m) == Entry(Signable(d, K), Owners(d), m, h)
           C == Chain(d, K, h)
           N == Owners(d)
           H == HashesOf(N, h)
           matching == {m \in C : OwnerHash(m, h) = h[n]}
           covering == Covering(C, h[n], h)
<1>1. C = {E(m) : m \in N} BY ChainIs
<1>2. /\ N \subseteq DOMAIN h /\ H \in SUBSET Nat /\ H # {} /\ h[n] \in Nat
      /\ \E b \in Nat : \A y \in H : y <= b
  BY OwnersHashed
<1>3. \A m \in N : OwnerHash(E(m), h) = h[m] /\ NextHash(E(m)) = Succ(H, h[m]) /\ h[m] \in H
  <2> SUFFICES ASSUME NEW m \in N
      PROVE  OwnerHash(E(m), h) = h[m] /\ NextHash(E(m)) = Succ(H, h[m]) /\ h[m] \in H
    OBVIOUS
  <2>1. E(m).name = HashOwner(h[m]) /\ NextHash(E(m)) = Succ(H, h[m]) BY EntryIs
  <2>2. h[m] \in H BY DEF HashesOf
  <2>3. m \in DOMAIN h BY <1>2
  <2> HIDE DEF E, H, N
  <2>4. OwnerHash(E(m), h) = h[m] BY <2>1, <2>3, OwnerHashIs
  <2> QED BY <2>1, <2>2, <2>4
<1>4. \A x \in H : \E m \in N : x = h[m] BY DEF HashesOf
<1>5. \A m \in N : h[m] = h[n] => m = n BY <1>2, HashOwnersDiffer
<1> HIDE DEF E, N, H, C
<1>6. \A m : m \in matching <=> m \in C /\ OwnerHash(m, h) = h[n] OBVIOUS
<1>7. \A m : m \in covering <=> m \in C /\ covers(OwnerHash(m, h), NextHash(m), h[n])
  BY DEF Covering
<1> HIDE DEF matching, covering
<1>8. CASE n \in N
  <2>1. matching = {E(n)} BY <1>1, <1>3, <1>5, <1>6, <1>8
  <2>2. covering = {} BY <1>1, <1>2, <1>3, <1>7, <1>8, NoneCoversMember
  <2> QED BY <1>8, <2>1, <2>2 DEF matching, covering, C, E, N
<1>9. CASE n \notin N
  <2>1. h[n] \notin H BY <1>4, <1>5, <1>9
  <2>2. matching = {} BY <1>1, <1>3, <1>6, <2>1
  <2>3. PICK x \in H : /\ covers(x, Succ(H, x), h[n])
                       /\ \A g \in H : covers(g, Succ(H, g), h[n]) => g = x
    BY <1>2, <2>1, OneCoversOther
  <2>4. PICK m \in N : x = h[m] BY <1>4
  <2>5. \A g \in N : h[g] = h[m] => g = m BY <1>2, HashOwnersDiffer
  <2>6. covering = {E(m)} BY <1>1, <1>3, <1>7, <2>3, <2>4, <2>5
  <2> QED BY <1>9, <2>2, <2>6 DEF matching, covering, C, E, N
<1> QED BY <1>8, <1>9

-----------------------------------------------------------------------------
(* The database and what a slave answers from it.                          *)

Built(d, K, h) == IF K = {} THEN d ELSE signDB(d, K, h)

Answered == WithOPT(FromDB(query), parseOPT(query).present)

(* The slave has the zone as it was built, or nothing; its chain is that   *)
(* of its database; and an answer that is neither a refusal nor cut short  *)
(* comes from that database, which a later transfer does not change.       *)
Inv ==
    /\ records \in Zones /\ keys \in KeySets /\ hash \in Hashes
    /\ current \in {NoDB, Built(records, keys, hash)}
    /\ current # NoDB => SanityChecks(records)
    /\ currDB \in {NoDB, current}
    /\ nsec3Chain = IF keys # {} THEN ByType(currDB, "NSEC3") ELSE {}
    /\ query \in Queries \cup {NoQuery}
    /\ resp.rcode \in {"none", "NOERROR", "NXDOMAIN", "REFUSED", "BADVERS"}
    /\ query = NoQuery => resp = NoResponse
    /\ /\ resp # NoResponse /\ ~resp.tc /\ resp.rcode \in {"NOERROR", "NXDOMAIN"}
       /\ query.type \in Known
       => currDB # NoDB /\ Parses(query) /\ resp = Answered

LEMMA RcodeIs ==
  \A d, chain, h, name, type, do, b :
      LET r == WithOPT(Resolve(d, chain, h, name, type, do), b)
      IN /\ r.rcode = lookupRRset(d, name, type).rcode /\ ~r.tc
         /\ r.rcode \in {"NOERROR", "NXDOMAIN"}
BY DEF WithOPT, Resolve, Response, lookupRRset

LEMMA InvKept == Spec => []Inv
<1>1. Init => Inv
  BY DEF Init, Inv, NoDB, ByType, NoResponse, Empty, Response
<1>2. Inv /\ [Next]_vars => Inv'
  <2> SUFFICES ASSUME Inv, [Next]_vars PROVE Inv'
    OBVIOUS
  <2>1. CASE Rebuild
    BY <2>1 DEF Rebuild, Inv, NoDB, Built, Answered, FromDB, DNSSECEnabled
  <2>2. CASE swapDB
    BY <2>2 DEF swapDB, Inv, NoDB, Built, Answered, FromDB, DNSSECEnabled
  <2>3. CASE \E q \in Queries : handleDNS(q)
    <3> PICK q \in Queries : handleDNS(q) BY <2>3
    <3>1. resp' = (IF Parses(q) THEN Fitted(q, Answer(q)) ELSE NoResponse) /\ query' = q
          /\ UNCHANGED <<records, keys, hash, current, currDB, nsec3Chain>>
      BY DEF handleDNS
    <3> DEFINE r == Answer(q)
               full == WithOPT(FromDB(q), parseOPT(q).present)
    <3>2. /\ r.rcode \in {"NOERROR", "NXDOMAIN", "REFUSED", "BADVERS"}
          /\ r.rcode \in {"NOERROR", "NXDOMAIN"} /\ q.type \in Known => currDB # NoDB /\ r = full
      <4>1. full.rcode \in {"NOERROR", "NXDOMAIN"} BY RcodeIs DEF FromDB
      <4> HIDE DEF full
      <4>2. \A code, b : WithOPT(Empty(code), b).rcode = code /\ Empty(code).rcode = code
        BY DEF WithOPT, Empty, Response
      <4> QED BY <4>1, <4>2 DEF Answer, full
    <3>4. Answered' = full BY <3>1 DEF Answered, FromDB, DNSSECEnabled
    <3> HIDE DEF r, full
    <3>5. Fitted(q, r) = r \/ (Fitted(q, r).tc /\ Fitted(q, r).rcode = "NOERROR")
      BY DEF Fitted, Empty, Response
    <3>6. q = NoQuery => ~Parses(q) BY DEF NoQuery, Parses
    <3>7. NoResponse.rcode = "none" BY DEF NoResponse, Empty, Response
    <3>8. /\ resp'.rcode \in {"none", "NOERROR", "NXDOMAIN", "REFUSED", "BADVERS"}
          /\ query' = NoQuery => resp' = NoResponse
      BY <3>1, <3>2, <3>5, <3>6, <3>7 DEF r
    <3>9. ASSUME resp' # NoResponse, ~resp'.tc, resp'.rcode \in {"NOERROR", "NXDOMAIN"},
                 query'.type \in Known
          PROVE  currDB' # NoDB /\ Parses(query') /\ resp' = Answered'
      <4>1. Parses(q) /\ resp' = r BY <3>1, <3>5, <3>9 DEF r
      <4> QED BY <3>1, <3>2, <3>4, <3>9, <4>1
    <3>10. query' \in Queries BY <3>1
    <3> QED BY <3>1, <3>8, <3>9, <3>10 DEF Inv, NoDB, Built
  <2>4. CASE UNCHANGED vars
    BY <2>4 DEF vars, Inv, NoDB, Built, Answered, FromDB, DNSSECEnabled
  <2> QED BY <2>1, <2>2, <2>3, <2>4 DEF Next
<1> QED BY <1>1, <1>2, PTL DEF Spec

-----------------------------------------------------------------------------
(* What is in the signed database.                                         *)

SigOfOne(r, k) == RR(r.name, "RRSIG", <<r.type, k.id, countLabels(r.name), {r}>>)

LEMMA SigOfOneIs ==
  \A r, k : /\ SigOfOne(r, k).name = r.name /\ SigOfOne(r, k).type = "RRSIG"
            /\ Covers(SigOfOne(r, k)) = r.type /\ Signer(SigOfOne(r, k)) = k.id
            /\ Labels(SigOfOne(r, k)) = countLabels(r.name) /\ Signed(SigOfOne(r, k)) = {r}
BY DEF SigOfOne, RR, Covers, Signer, Labels, Signed

LEMMA SignedIs ==
  ASSUME NEW d \in Zones, NEW K \in KeySets, K # {}, NEW h, NEW s
  PROVE  s \in signDB(d, K, h) <=>
           \/ s \in Signable(d, K) \/ s \in Chain(d, K, h) \/ s = NSEC3PARAM
           \/ \E r \in Chain(d, K, h) \cup {NSEC3PARAM}, k \in Signers(K, "NSEC3") : s = SigOfOne(r, k)
<1> DEFINE denial == Chain(d, K, h) \cup {NSEC3PARAM}
           zsks == IF ZSKs(K) = {} THEN K ELSE ZSKs(K)
           sig(r, k) == SignRRset({r}, k)
<1>1. zsks = Signers(K, "NSEC3")
  <2>1. \A k \in K : k.role \in {"ksk", "zsk"} BY AnswersAssumption
  <2> QED BY <2>1 DEF Signers, KSKs, ZSKs
<1>2. ASSUME NEW r, NEW k PROVE sig(r, k) = SigOfOne(r, k)
  <2>1. (CHOOSE x \in {r} : TRUE) = r OBVIOUS
  <2> QED BY <2>1 DEF SignRRset, SigOfOne
<1>3. signDB(d, K, h) = Signable(d, K) \cup denial
                          \cup UNION {{sig(r, k) : k \in zsks} : r \in denial}
  BY DEF signDB, Signable, WithKeys, Chain
<1> HIDE DEF zsks, denial, sig
<1>4. s \in signDB(d, K, h) <=>
        s \in Signable(d, K) \/ s \in denial \/ \E r \in denial, k \in zsks : s = sig(r, k)
  BY <1>3
<1>5. s \in signDB(d, K, h) <=>
        s \in Signable(d, K) \/ s \in denial \/ \E r \in denial, k \in zsks : s = SigOfOne(r, k)
  BY <1>2, <1>4
<1> QED BY <1>1, <1>5 DEF denial

LEMMA ParamIs == NSEC3PARAM.name = Apex /\ NSEC3PARAM.type = "NSEC3PARAM"
BY DEF NSEC3PARAM, RR

AddedTypes == {"DNSKEY", "RRSIG", "NSEC3", "NSEC3PARAM"}

LEMMA SignableTypes ==
  ASSUME NEW d \in Zones, NEW K, NEW r \in Signable(d, K)
  PROVE  (r \in d /\ r.type \notin AddedTypes) \/ r.type = "RRSIG" \/ (r.type = "DNSKEY" /\ r.name = Apex)
<1>1. \A x \in d : x.type \notin AddedTypes BY AnswersAssumption DEF AddedTypes
<1>2. CASE r \in WithKeys(d, K) BY <1>1, <1>2, DNSKEYIs DEF WithKeys
<1>3. CASE r \in SignDB(WithKeys(d, K), K) BY <1>3, SignDBIs, SigIs
<1> QED BY <1>2, <1>3 DEF Signable

LEMMA ChainRecord ==
  ASSUME NEW d \in Zones, NEW K \in KeySets, K # {}, NEW h, NEW r \in Chain(d, K, h)
  PROVE  r.type = "NSEC3" /\ \E n \in Owners(d) : r.name = HashOwner(h[n])
BY ChainIs, EntryIs

(* The NSEC3s in the database are the chain, and signing leaves the        *)
(* records of the zone as they are.                                        *)
LEMMA SignedByType ==
  ASSUME NEW d \in Zones, NEW K \in KeySets, K # {}, NEW h
  PROVE  /\ ByType(signDB(d, K, h), "NSEC3") = Chain(d, K, h)
         /\ d \subseteq signDB(d, K, h)
         /\ \A r \in signDB(d, K, h) : r.type \notin AddedTypes => r \in d
<1>1. \A r \in Signable(d, K) : r.type # "NSEC3" /\ (r.type \notin AddedTypes => r \in d)
  BY SignableTypes DEF AddedTypes
<1>2. \A r \in Chain(d, K, h) : r.type = "NSEC3" BY ChainRecord
<1>3. \A s : s \in signDB(d, K, h) <=>
           \/ s \in Signable(d, K) \/ s \in Chain(d, K, h) \/ s = NSEC3PARAM
           \/ \E r \in Chain(d, K, h) \cup {NSEC3PARAM}, k \in Signers(K, "NSEC3") : s = SigOfOne(r, k)
  BY SignedIs
<1>4. d \subseteq Signable(d, K) BY DEF Signable, WithKeys
<1>5. \A s : s.type = "NSEC3" /\ s \in signDB(d, K, h) => s \in Chain(d, K, h)
  BY <1>1, <1>3, ParamIs, SigOfOneIs
<1>6. \A s \in signDB(d, K, h) : s.type \notin AddedTypes => s \in d
  BY <1>1, <1>2, <1>3, ParamIs, SigOfOneIs DEF AddedTypes
<1> QED BY <1>2, <1>3, <1>4, <1>5, <1>6 DEF ByType

(* No record is at or below an owner name of an NSEC3.                     *)
NoHashNames ==
    \A d \in Zones : \A r \in d : \A h \in Hashes : \A n \in DOMAIN h :
        ~IsSuffix(HashOwner(h[n]), r.name)

LEMMA OwnersNotHashes ==
  ASSUME NoHashNames, NEW d \in Zones, NEW h \in Hashes, NEW n \in DOMAIN h, NEW m \in Owners(d)
  PROVE  m # HashOwner(h[n]) /\ m \in Name
<1>1. HashOwner(h[n]) \in Name /\ Len(HashOwner(h[n])) = Len(Apex) + 1 BY HashOwnerFacts
<1>2. Apex \in Name /\ Len(Apex) \in Nat BY NamesAre, LenProperties DEF Name
<1>3. CASE m = Apex BY <1>1, <1>2, <1>3
<1>4. CASE m # Apex
  <2>1. PICK r \in d : m = r.name BY <1>4 DEF Owners, ByName
  <2>2. ~IsSuffix(HashOwner(h[n]), m) BY <2>1 DEF NoHashNames
  <2> QED BY <1>1, <2>1, <2>2, SuffixSelf, NamesAre
<1> QED BY <1>3, <1>4

LEMMA SignedTypesAt ==
  ASSUME NoHashNames, NEW d \in Zones, NEW K \in KeySets, K # {}, NEW h \in Hashes, NEW n \in Owners(d)
  PROVE  TypesAt(signDB(d, K, h), n) \ {"NSEC3PARAM"} = TypesAt(Signable(d, K), n) \cup {"RRSIG"}
<1> DEFINE D == signDB(d, K, h)
           S == Signable(d, K)
<1>1. S \subseteq D BY SignedIs
<1>2. \E s \in S : s.name = n /\ s.type = "RRSIG" BY SignableNames
<1>3. \A s \in S : s.type # "NSEC3PARAM" BY SignableTypes DEF AddedTypes
<1>4. \A m \in Owners(d) : n # HashOwner(h[m]) BY OwnersNotHashes, OwnersHashed
<1>5. ASSUME NEW s \in D, s.name = n PROVE s \in S \/ s.type \in {"RRSIG", "NSEC3PARAM"}
  BY <1>4, <1>5, SignedIs, ChainRecord, ParamIs, SigOfOneIs
<1> HIDE DEF D, S
<1> QED BY <1>1, <1>2, <1>3, <1>5 DEF TypesAt, D, S

-----------------------------------------------------------------------------
(* The variables of a served zone have their values: the slave has nothing *)
(* or the master's database, which is the zone as signDB makes it, and a   *)
(* response has one of the codes of handleDNS.                             *)
THEOREM TypeCorrect == Spec => []TypeOK
<1>1. Inv => TypeOK BY DEF Inv, TypeOK, Built, ByType, NoDB
<1> QED BY <1>1, InvKept, PTL

LEMMA ServedDB ==
  ASSUME Inv, currDB # NoDB
  PROVE  /\ records \in Zones /\ keys \in KeySets /\ hash \in Hashes
         /\ SanityChecks(records) /\ currDB = Built(records, keys, hash)
         /\ keys # {} => currDB = signDB(records, keys, hash) /\ nsec3Chain = Chain(records, keys, hash)
<1>1. /\ records \in Zones /\ keys \in KeySets /\ hash \in Hashes
      /\ SanityChecks(records) /\ currDB = Built(records, keys, hash)
      /\ keys # {} => nsec3Chain = ByType(currDB, "NSEC3")
  BY DEF Inv, NoDB
<1> QED BY <1>1, SignedByType DEF Built

(* In the zones of authors who use no owner names of NSEC3s, the chain a   *)
(* slave has divides the hash space: each owner is matched by one NSEC3    *)
(* with its types and covered by none, any other name covered by just one  *)
(* (BuildNSEC3Chain, covers), for every order of the hashes.               *)
THEOREM RingDivides == NoHashNames => (Spec => []RingSound)
<1> SUFFICES ASSUME NoHashNames PROVE Spec => []RingSound
  OBVIOUS
<1>1. ASSUME Inv PROVE RingSound
  <2> SUFFICES ASSUME keys # {}, currDB # NoDB, NEW n \in DOMAIN hash
               PROVE  LET matching == {m \in nsec3Chain : OwnerHash(m, hash) = hash[n]}
                          covering == Covering(nsec3Chain, hash[n], hash)
                      IN IF n \in ByName(records) \cup {Apex}
                         THEN /\ covering = {} /\ Cardinality(matching) = 1
                              /\ \A m \in matching :
                                   Types(m) = {r.type : r \in {s \in currDB : s.name = n}} \ {"NSEC3PARAM"}
                         ELSE matching = {} /\ Cardinality(covering) = 1
    BY DEF RingSound, DNSSECEnabled
  <2> DEFINE C == Chain(records, keys, hash)
             E(m) == Entry(Signable(records, keys), Owners(records), m, hash)
             matching == {m \in C : OwnerHash(m, hash) = hash[n]}
             covering == Covering(C, hash[n], hash)
  <2>1. /\ records \in Zones /\ keys \in KeySets /\ hash \in Hashes
        /\ currDB = signDB(records, keys, hash) /\ nsec3Chain = C
    BY <1>1, ServedDB
  <2>2. IF n \in Owners(records) THEN matching = {E(n)} /\ covering = {}
        ELSE matching = {} /\ \E m \in Owners(records) : covering = {E(m)}
    BY <2>1, ChainMatches
  <2>3. \A x : Cardinality({x}) = 1 BY FS_Singleton
  <2>4. ASSUME n \in Owners(records)
        PROVE  Types(E(n)) = TypesAt(currDB, n) \ {"NSEC3PARAM"}
    BY <2>1, <2>4, EntryIs, SignedTypesAt
  <2>5. Owners(records) = ByName(records) \cup {Apex} BY DEF Owners
  <2>6. TypesAt(currDB, n) = {r.type : r \in {s \in currDB : s.name = n}} BY DEF TypesAt
  <2> HIDE DEF E, C, matching, covering
  <2> QED BY <2>1, <2>2, <2>3, <2>4, <2>5, <2>6 DEF matching, covering
<1> QED BY <1>1, InvKept, PTL

-----------------------------------------------------------------------------
(* Chains of CNAMEs.                                                       *)

(* The names from which an address or a foreign name is one step away, or  *)
(* one step leads into X; none within no steps.                            *)
Resolving(d, k, X) ==
    {n \in {Target(c) : c \in ByType(d, "CNAME")} :
        k > 0 /\ \/ HasAddress(d, n)
                 \/ \E c \in Lookup(d, n, "CNAME") : ~inZone(Target(c)) \/ Target(c) \in X}

LEMMA WithinExists ==
  ASSUME NEW d, NEW m \in Nat
  PROVE  \E w : w = [k \in 0..m |-> Resolving(d, k, w[k - 1])]
<1> DEFINE Good(j) == \E w : w = [k \in 0..j |-> Resolving(d, k, w[k - 1])]
           bad == {j \in Nat : ~Good(j)}
<1>1. Good(0)
  <2> DEFINE w == [k \in 0..0 |-> {}]
  <2>1. \A X : Resolving(d, 0, X) = {} BY DEF Resolving
  <2>2. w = [k \in 0..0 |-> Resolving(d, k, w[k - 1])] BY <2>1
  <2> QED BY <2>2
<1>2. ASSUME NEW j \in Nat, Good(j) PROVE Good(j + 1)
  <2>1. PICK w : w = [k \in 0..j |-> Resolving(d, k, w[k - 1])] BY <1>2
  <2> DEFINE v == [k \in 0..(j + 1) |-> IF k = j + 1 THEN Resolving(d, j + 1, w[j]) ELSE w[k]]
  <2>2. ASSUME NEW k \in 0..(j + 1) PROVE v[k] = Resolving(d, k, v[k - 1])
    <3>1. CASE k = j + 1
      <4>1. k - 1 = j /\ j \in 0..(j + 1) /\ j # j + 1 BY <3>1
      <4>2. v[k - 1] = w[j] BY <4>1
      <4> QED BY <3>1, <4>2
    <3>2. CASE k \in 1..j
      <4>1. v[k] = w[k] /\ v[k - 1] = w[k - 1] BY <3>2
      <4>2. w[k] = Resolving(d, k, w[k - 1]) BY <2>1, <3>2
      <4> QED BY <4>1, <4>2
    <3>3. CASE k = 0
      <4>1. v[k] = w[0] BY <3>3
      <4>2. w[0] = Resolving(d, 0, w[0 - 1]) BY <2>1
      <4>3. \A X : Resolving(d, 0, X) = {} BY DEF Resolving
      <4> QED BY <3>3, <4>1, <4>2, <4>3
    <3> QED BY <3>1, <3>2, <3>3
  <2>3. v = [k \in 0..(j + 1) |-> Resolving(d, k, v[k - 1])]
    <3>1. v = [k \in 0..(j + 1) |-> v[k]] OBVIOUS
    <3> HIDE DEF v
    <3> QED BY <2>2, <3>1
  <2> QED BY <2>3
<1> HIDE DEF Good
<1>3. bad = {}
  <2> SUFFICES ASSUME bad # {} PROVE FALSE
    OBVIOUS
  <2>1. bad \in SUBSET Nat OBVIOUS
  <2>2. PICK j \in bad : \A i \in bad : j <= i
    <3> HIDE DEF bad
    <3> QED BY <2>1, LeastFacts
  <2>3. j # 0 BY <1>1
  <2>4. j - 1 \in Nat /\ j - 1 \notin bad BY <2>2, <2>3
  <2>5. Good((j - 1) + 1) BY <1>2, <2>4
  <2> QED BY <2>2, <2>5
<1> QED BY <1>3 DEF Good

LEMMA ResolvesInIs ==
  ASSUME NEW d, IsFiniteSet(d)
  PROVE  \E w : /\ ResolvesIn(d) = w[Cardinality(d)] /\ Cardinality(d) \in Nat
                /\ \A k \in 0..Cardinality(d) : w[k] = Resolving(d, k, w[k - 1])
<1> DEFINE N == Cardinality(d)
           w == CHOOSE w : w = [k \in 0..N |-> Resolving(d, k, w[k - 1])]
<1>1. N \in Nat BY FS_CardinalityType
<1>2. ResolvesIn(d) = w[N] BY DEF ResolvesIn, Resolving
<1>3. w = [k \in 0..N |-> Resolving(d, k, w[k - 1])]
  <2> HIDE DEF N
  <2> QED BY <1>1, WithinExists
<1> HIDE DEF w, N
<1>4. \A k \in 0..N : w[k] = Resolving(d, k, w[k - 1]) BY <1>3
<1> QED BY <1>1, <1>2, <1>4 DEF N

(* The records of the zone are in it.                                      *)
InZone == \A d \in Zones : \A r \in d : IsSuffix(Apex, r.name)

LEMMA BuiltKeeps ==
  ASSUME NEW d \in Zones, NEW K \in KeySets, NEW h
  PROVE  /\ d \subseteq Built(d, K, h)
         /\ \A r \in Built(d, K, h) : r.type \notin AddedTypes => r \in d
BY SignedByType DEF Built

(* A zone that passes the checks has no CNAMEs that lead only to each      *)
(* other, and those that stay in the zone end at an address.               *)
LEMMA CheckedAliases ==
  ASSUME InZone, NEW d \in Zones, SanityChecks(d)
  PROVE  LET aliases == ByType(d, "CNAME") IN
         /\ \A S \in (SUBSET aliases) \ {{}} : \E r \in S : Target(r) \notin {s.name : s \in S}
         /\ \A r \in aliases :
               IsSuffix(Apex, Target(r)) =>
                   Target(r) \in {s.name : s \in aliases} \/ HasAddress(d, Target(r))
<1> DEFINE aliases == ByType(d, "CNAME")
           N == Cardinality(d)
<1>1. IsFiniteSet(d) BY AnswersAssumption
<1>2. PICK w : /\ ResolvesIn(d) = w[N] /\ N \in Nat
               /\ \A k \in 0..N : w[k] = Resolving(d, k, w[k - 1])
  BY <1>1, ResolvesInIs
<1>3. \A c \in aliases :
         /\ Cardinality(Lookup(d, c.name, "CNAME")) = 1
         /\ \A r \in d : r.name = c.name => cnameCompatibleRRtype(r.type)
         /\ inZone(Target(c)) => Target(c) \in ResolvesIn(d)
  BY DEF SanityChecks
<1>4. \A c \in aliases : c \in d /\ c.type = "CNAME" BY DEF ByType
<1>5. \A c, e \in aliases : c.name = e.name => c = e
  <2> SUFFICES ASSUME NEW c \in aliases, NEW e \in aliases, c.name = e.name PROVE c = e
    OBVIOUS
  <2>1. c \in Lookup(d, c.name, "CNAME") /\ e \in Lookup(d, c.name, "CNAME") BY <1>4 DEF Lookup
  <2>2. IsFiniteSet(Lookup(d, c.name, "CNAME"))
    <3>1. Lookup(d, c.name, "CNAME") \subseteq d BY DEF Lookup
    <3> QED BY <1>1, <3>1, FS_Subset
  <2>3. PICK x : Lookup(d, c.name, "CNAME") = {x} BY <1>3, <2>2, FS_Singleton
  <2> QED BY <2>1, <2>3
<1>6. \A c \in aliases : ~HasAddress(d, c.name)
  BY <1>3 DEF HasAddress, Lookup, cnameCompatibleRRtype
<1>7. \A n, c : c \in Lookup(d, n, "CNAME") <=> c \in aliases /\ c.name = n
  BY DEF Lookup, ByType
<1>8. \A k \in 0..N : \A n : n \in w[k] =>
         k > 0 /\ (HasAddress(d, n) \/ \E c \in aliases : c.name = n /\ (~inZone(Target(c)) \/ Target(c) \in w[k - 1]))
  BY <1>2, <1>7 DEF Resolving
<1> HIDE DEF aliases, N
<1>9. ASSUME NEW S \in SUBSET aliases, S # {}, \A r \in S : Target(r) \in {s.name : s \in S}
      PROVE  FALSE
  <2>1. \A r \in S : \E s \in S : Target(r) = s.name BY <1>9
  <2>2. \A r \in S : inZone(Target(r)) BY <1>4, <2>1 DEF InZone, inZone
  <2>3. \A r \in S : Target(r) \in w[N] BY <1>2, <1>3, <2>2
  <2> DEFINE P == {k \in 0..N : \E r \in S : Target(r) \in w[k]}
  <2>4. N \in P BY <1>2, <1>9, <2>3
  <2>5. P \in SUBSET Nat BY <1>2
  <2>6. PICK k \in P : \A j \in P : k <= j
    <3> HIDE DEF P
    <3> QED BY <2>4, <2>5, LeastFacts
  <2>7. PICK r \in S : Target(r) \in w[k] BY <2>6
  <2>8. PICK s \in S : Target(r) = s.name BY <2>1
  <2>9. k > 0 /\ ~HasAddress(d, s.name) BY <1>6, <1>8, <2>6, <2>7
  <2>10. PICK c \in aliases : c.name = s.name /\ (~inZone(Target(c)) \/ Target(c) \in w[k - 1])
    BY <1>8, <2>6, <2>7, <2>8, <2>9
  <2>11. c = s BY <1>5, <2>10
  <2>12. Target(s) \in w[k - 1] BY <2>2, <2>10, <2>11
  <2>13. k - 1 \in 0..N BY <1>2, <2>6, <2>9
  <2>14. k - 1 \in P BY <2>12, <2>13
  <2> QED BY <2>5, <2>6, <2>14
<1>10. ASSUME NEW r \in aliases, IsSuffix(Apex, Target(r))
       PROVE  Target(r) \in {s.name : s \in aliases} \/ HasAddress(d, Target(r))
  <2>1. Target(r) \in w[N] BY <1>2, <1>3, <1>10 DEF inZone
  <2>2. N \in 0..N BY <1>2
  <2> QED BY <1>8, <2>1, <2>2
<1>11. \A S \in (SUBSET aliases) \ {{}} : \E r \in S : Target(r) \notin {s.name : s \in S}
  <2> SUFFICES ASSUME NEW S \in SUBSET aliases, S # {} PROVE \E r \in S : Target(r) \notin {s.name : s \in S}
    OBVIOUS
  <2> QED BY <1>9
<1> QED BY <1>10, <1>11 DEF aliases

(* In the zones of authors who stay inside their zone, every CNAME that a  *)
(* slave serves leads out of the zone or to a name with an address: none   *)
(* of them form a loop (SanityChecks before the database is taken over).   *)
THEOREM NoLoops == InZone => (Spec => []AliasesEnd)
<1> SUFFICES ASSUME InZone PROVE Spec => []AliasesEnd
  OBVIOUS
<1>1. ASSUME Inv PROVE AliasesEnd
  <2>1. CASE currDB = NoDB
    <3>1. ByType(currDB, "CNAME") = {} BY <2>1 DEF NoDB, ByType
    <3>2. \A S \in (SUBSET {}) \ {{}} : FALSE OBVIOUS
    <3> QED BY <3>1, <3>2 DEF AliasesEnd
  <2>2. CASE currDB # NoDB
    <3>1. /\ records \in Zones /\ keys \in KeySets /\ SanityChecks(records)
          /\ currDB = Built(records, keys, hash)
      BY <1>1, <2>2, ServedDB
    <3>2. records \subseteq currDB /\ \A r \in currDB : r.type \notin AddedTypes => r \in records
      BY <3>1, BuiltKeeps
    <3>3. ByType(currDB, "CNAME") = ByType(records, "CNAME") BY <3>2 DEF ByType, AddedTypes
    <3>4. \A n : HasAddress(records, n) => HasAddress(currDB, n) BY <3>2 DEF HasAddress, Lookup
    <3>5. LET aliases == ByType(records, "CNAME") IN
          /\ \A S \in (SUBSET aliases) \ {{}} : \E r \in S : Target(r) \notin {s.name : s \in S}
          /\ \A r \in aliases :
                IsSuffix(Apex, Target(r)) =>
                    Target(r) \in {s.name : s \in aliases} \/ HasAddress(records, Target(r))
      BY <3>1, CheckedAliases
    <3> QED BY <3>3, <3>4, <3>5 DEF AliasesEnd
  <2> QED BY <2>1, <2>2
<1> QED BY <1>1, InvKept, PTL

-----------------------------------------------------------------------------
(* Ancestors, wildcards and the closest encloser.                          *)

LEMMA SuffixSameLen ==
  ASSUME NEW s \in Name, NEW t \in Name, IsSuffix(s, t), Len(t) <= Len(s)
  PROVE  s = t
<1>0. Len(s) \in Nat /\ Len(t) \in Nat BY LenProperties DEF Name
<1>1. Len(s) <= Len(t) /\ \A i \in 1..Len(s) : s[i] = t[Len(t) - Len(s) + i] BY SuffixIs
<1>2. Len(s) = Len(t) BY <1>0, <1>1
<1>3. \A i \in 1..Len(s) : Len(t) - Len(s) + i = i BY <1>0, <1>2
<1>4. \A i \in 1..Len(s) : s[i] = t[i] BY <1>1, <1>3
<1> QED BY <1>2, <1>4, SeqEqual DEF Name

LEMMA UpSuffix ==
  ASSUME NEW s \in Name, NEW j \in 0..Len(s), NEW k \in j..Len(s)
  PROVE  IsSuffix(Up(s, k), Up(s, j))
<1>0. Len(s) \in Nat /\ j \in Nat /\ k \in Nat /\ j <= k /\ k <= Len(s) BY LenProperties DEF Name
<1>1. /\ Up(s, k) \in Name /\ Len(Up(s, k)) = Len(s) - k
      /\ \A i \in 1..(Len(s) - k) : Up(s, k)[i] = s[k + i]
  BY <1>0, UpFacts
<1>2. /\ Up(s, j) \in Name /\ Len(Up(s, j)) = Len(s) - j
      /\ \A i \in 1..(Len(s) - j) : Up(s, j)[i] = s[j + i]
  BY <1>0, UpFacts
<1>3. ASSUME NEW i \in 1..Len(Up(s, k))
      PROVE  Up(s, k)[i] = Up(s, j)[Len(Up(s, j)) - Len(Up(s, k)) + i]
  <2> DEFINE m == (k - j) + i
  <2>1. /\ Len(Up(s, j)) - Len(Up(s, k)) + i = m /\ j + m = k + i
        /\ m \in 1..(Len(s) - j) /\ i \in 1..(Len(s) - k)
    BY <1>0, <1>1, <1>2
  <2> HIDE DEF m
  <2>2. Up(s, k)[i] = s[k + i] BY <1>1, <2>1
  <2>3. Up(s, j)[m] = s[j + m] BY <1>2, <2>1
  <2> QED BY <2>1, <2>2, <2>3
<1>4. Len(Up(s, k)) <= Len(Up(s, j)) BY <1>0, <1>1, <1>2
<1> HIDE DEF Up
<1> QED BY <1>1, <1>2, <1>3, <1>4, SuffixIs

LEMMA UpZero ==
  ASSUME NEW s \in Name
  PROVE  Up(s, 0) = s
<1>0. Len(s) \in Nat /\ 0 \in 0..Len(s) BY LenProperties DEF Name
<1>1. Up(s, 0) \in Name /\ Len(Up(s, 0)) = Len(s) - 0
      /\ \A i \in 1..(Len(s) - 0) : Up(s, 0)[i] = s[0 + i]
  BY <1>0, UpFacts
<1>2. \A i \in 1..Len(s) : Up(s, 0)[i] = s[i] BY <1>0, <1>1
<1> QED BY <1>0, <1>1, <1>2, SeqEqual DEF Name

LEMMA SuffixIsUp ==
  ASSUME NEW s \in Name, NEW t \in Name, IsSuffix(s, t)
  PROVE  Len(t) - Len(s) \in 0..Len(t) /\ Up(t, Len(t) - Len(s)) = s
<1>0. Len(s) \in Nat /\ Len(t) \in Nat BY LenProperties DEF Name
<1>1. Len(s) <= Len(t) /\ \A i \in 1..Len(s) : s[i] = t[Len(t) - Len(s) + i] BY SuffixIs
<1> DEFINE k == Len(t) - Len(s)
<1>2. k \in 0..Len(t) /\ Len(t) - k = Len(s) BY <1>0, <1>1
<1> HIDE DEF k
<1>3. Up(t, k) \in Name /\ Len(Up(t, k)) = Len(t) - k
      /\ \A i \in 1..(Len(t) - k) : Up(t, k)[i] = t[k + i]
  BY <1>2, UpFacts
<1>4. \A i \in 1..Len(s) : Up(t, k)[i] = s[i] BY <1>1, <1>2, <1>3 DEF k
<1>5. Up(t, k) = s BY <1>2, <1>3, <1>4, SeqEqual DEF Name
<1> QED BY <1>2, <1>5 DEF k

LEMMA WildSuffix ==
  ASSUME NEW s \in Name
  PROVE  IsSuffix(s, Wild(s))
<1>0. Len(s) \in Nat BY LenProperties DEF Name
<1>1. /\ Wild(s) \in Name /\ Len(Wild(s)) = Len(s) + 1
      /\ \A i \in 1..Len(s) : Wild(s)[i + 1] = s[i]
  BY WildFacts
<1>2. \A i \in 1..Len(s) : Len(Wild(s)) - Len(s) + i = i + 1 BY <1>0, <1>1
<1>3. \A i \in 1..Len(s) : s[i] = Wild(s)[Len(Wild(s)) - Len(s) + i] BY <1>1, <1>2
<1>4. Len(s) <= Len(Wild(s)) BY <1>0, <1>1
<1> QED BY <1>1, <1>3, <1>4, SuffixIs

(* The SOA is at the apex.                                                 *)
SOAAtApex == \A d \in Zones : \A r \in d : r.type = "SOA" => r.name = Apex

LEMMA ApexOwned ==
  ASSUME SOAAtApex, NEW d \in Zones, SanityChecks(d)
  PROVE  Lookup(d, Apex, "SOA") # {} /\ Apex \in ByName(d) /\ Owners(d) = ByName(d)
<1>1. Cardinality(ByType(d, "SOA")) = 1 BY DEF SanityChecks
<1>2. ByType(d, "SOA") # {} BY <1>1, FS_EmptySet
<1>3. PICK r \in d : r.type = "SOA" BY <1>2 DEF ByType
<1>4. r.name = Apex BY <1>3 DEF SOAAtApex
<1> QED BY <1>3, <1>4 DEF Lookup, ByName, Owners

(* Signing adds no names but the apex and the owners of NSEC3s.            *)
LEMMA DBNames ==
  ASSUME Inv, currDB # NoDB
  PROVE  /\ ByName(currDB) \subseteq Owners(records) \cup ByName(nsec3Chain)
         /\ ByName(records) \subseteq ByName(currDB) /\ ByName(nsec3Chain) \subseteq ByName(currDB)
         /\ \A n \in ByName(nsec3Chain) : \E m \in DOMAIN hash : n = HashOwner(hash[m])
<1>1. /\ records \in Zones /\ keys \in KeySets /\ hash \in Hashes
      /\ currDB = Built(records, keys, hash)
      /\ keys # {} => currDB = signDB(records, keys, hash) /\ nsec3Chain = Chain(records, keys, hash)
  BY ServedDB
<1>2. CASE keys = {}
  <2>1. currDB = records /\ nsec3Chain = {} BY <1>1, <1>2 DEF Built, Inv
  <2> QED BY <2>1 DEF ByName, Owners
<1>3. CASE keys # {}
  <2> DEFINE C == Chain(records, keys, hash)
             S == Signable(records, keys)
  <2>1. currDB = signDB(records, keys, hash) /\ nsec3Chain = C BY <1>1, <1>3
  <2>2. \A s : s \in currDB <=> \/ s \in S \/ s \in C \/ s = NSEC3PARAM
                                \/ \E r \in C \cup {NSEC3PARAM}, k \in Signers(keys, "NSEC3") : s = SigOfOne(r, k)
    BY <1>1, <1>3, <2>1, SignedIs
  <2>3. ByName(S) = Owners(records) BY <1>1, <1>3, SignableNames
  <2>4. \A r \in C : \E n \in Owners(records) : r.name = HashOwner(hash[n])
    BY <1>1, <1>3, ChainRecord
  <2>5. Owners(records) \subseteq DOMAIN hash BY <1>1, OwnersHashed
  <2>6. ASSUME NEW s \in currDB PROVE s.name \in Owners(records) \cup ByName(C)
    <3>1. CASE s \in S \/ s \in C BY <2>3, <3>1 DEF ByName
    <3>2. CASE s = NSEC3PARAM BY <3>2, ParamIs DEF Owners
    <3>3. ASSUME NEW r \in C \cup {NSEC3PARAM}, NEW k \in Signers(keys, "NSEC3"), s = SigOfOne(r, k)
          PROVE  s.name \in Owners(records) \cup ByName(C)
      <4>1. s.name = r.name BY <3>3, SigOfOneIs
      <4> QED BY <3>3, <4>1, ParamIs DEF ByName, Owners
    <3> QED BY <2>2, <3>1, <3>2, <3>3
  <2>7. records \subseteq currDB BY <1>1, BuiltKeeps
  <2> HIDE DEF C, S
  <2>8. ByName(currDB) \subseteq Owners(records) \cup ByName(C) BY <2>6 DEF ByName
  <2>9. ByName(records) \subseteq ByName(currDB) BY <2>7 DEF ByName
  <2>10. ByName(C) \subseteq ByName(currDB) BY <2>2 DEF ByName
  <2>11. \A n \in ByName(C) : \E m \in DOMAIN hash : n = HashOwner(hash[m])
    BY <2>4, <2>5 DEF ByName
  <2> QED BY <2>1, <2>8, <2>9, <2>10, <2>11
<1> QED BY <1>2, <1>3

LEMMA ServedFacts ==
  ASSUME Inv, Served
  PROVE  /\ currDB # NoDB /\ resp = Answered /\ query \in Queries
         /\ QName \in Name /\ IsSuffix(Apex, QName) /\ ~OfHashes(QName)
         /\ \A k \in 0..(Len(QName) - Len(Apex)) : {Up(QName, k), Wild(Up(QName, k))} \subseteq DOMAIN hash
<1>1. /\ query # NoQuery /\ resp # NoResponse /\ ~resp.tc /\ resp.rcode \in {"NOERROR", "NXDOMAIN"}
      /\ query.type \in Known /\ IsSuffix(Apex, QName) /\ ~OfHashes(QName)
  BY DEF Served
<1>2. currDB # NoDB /\ Parses(query) /\ resp = Answered /\ query \in Queries /\ hash \in Hashes
  BY <1>1 DEF Inv
<1>3. QName \in Seq(STRING) BY <1>2, QueriesAssumption DEF QName
<1>4. Seq(STRING) \subseteq Name BY DEF Name, Label
<1>5. \A k \in 0..(Len(QName) - Len(Apex)) : {Up(QName, k), Wild(Up(QName, k))} \subseteq DOMAIN hash
  BY <1>1, <1>2, QueriesAssumption DEF QName
<1> QED BY <1>1, <1>2, <1>3, <1>4, <1>5

(* Above a name that does not exist there is a nearest one that does.      *)
LEMMA EncloserIs ==
  ASSUME records \in Zones, NEW name \in Name, IsSuffix(Apex, name), Apex \in ByName(records), ~Exists(name)
  PROVE  \E e \in 1..(Len(name) - Len(Apex)) :
             /\ ClosestEncloser(name) = Up(name, e) /\ Exists(Up(name, e))
             /\ \A j \in 0..(e - 1) : ~Exists(Up(name, j))
<1> DEFINE above == {k \in 0..Len(name) : Exists(Up(name, k))}
           e == Least(above)
           top == Len(name) - Len(Apex)
<1>0. Len(name) \in Nat /\ Len(Apex) \in Nat /\ Apex \in Name BY NamesAre, LenProperties DEF Name
<1>1. top \in 0..Len(name) /\ Up(name, top) = Apex BY <1>0, SuffixIsUp
<1>2. Exists(Apex) BY <1>0, SuffixSelf DEF Exists, ByName
<1>3. top \in above /\ above \in SUBSET Nat BY <1>0, <1>1, <1>2
<1>4. e \in above /\ \A k \in above : e <= k
  <2> HIDE DEF above
  <2> QED BY <1>3, LeastFacts
<1>5. ClosestEncloser(name) = Up(name, e) BY DEF ClosestEncloser
<1> HIDE DEF e
<1>6. e # 0 BY <1>4, UpZero
<1>7. e \in 0..Len(name) /\ Exists(Up(name, e)) /\ e <= top BY <1>3, <1>4
<1> HIDE DEF top
<1>8. e \in 1..top BY <1>0, <1>1, <1>6, <1>7
<1>9. ASSUME NEW j \in 0..(e - 1) PROVE ~Exists(Up(name, j))
  <2>1. j \in 0..Len(name) /\ ~(e <= j) BY <1>0, <1>7
  <2> QED BY <1>4, <2>1
<1> QED BY <1>5, <1>7, <1>8, <1>9 DEF top

LEMMA ExistsAbove ==
  ASSUME records \in Zones, NEW s \in Name, NEW t \in Name, IsSuffix(s, t), Exists(t)
  PROVE  Exists(s)
<1>1. PICK r \in records : IsSuffix(t, r.name) BY DEF Exists
<1>2. r.name \in Name BY <1>1, NamesAre
<1>3. IsSuffix(s, r.name) BY <1>1, <1>2, SuffixTrans
<1> QED BY <1>3 DEF Exists

LEMMA OwnerExists ==
  ASSUME records \in Zones, NEW n \in ByName(records)
  PROVE  n \in Name /\ Exists(n)
<1>1. PICK r \in records : n = r.name BY DEF ByName
<1>2. n \in Name BY <1>1, NamesAre
<1> QED BY <1>1, <1>2, SuffixSelf DEF Exists

(* The database finds for a name that does not exist the wildcard of its   *)
(* closest encloser, or nothing, whatever names signing has added.         *)
LEMMA WildcardIs ==
  ASSUME Inv, currDB # NoDB, SOAAtApex, NEW name \in Name,
         IsSuffix(Apex, name), ~OfHashes(name), ~Exists(name)
  PROVE  /\ name \notin ByName(currDB)
         /\ WildcardLookup(currDB, name)
               = IF SourceOf(name) \in ByName(records) THEN {SourceOf(name)} ELSE {}
<1> DEFINE top == Len(name) - Len(Apex)
           N == ByName(currDB)
           C == ByName(nsec3Chain)
           Z == ByName(records)
<1>1. records \in Zones /\ hash \in Hashes /\ SanityChecks(records) BY ServedDB
<1>2. Owners(records) = Z /\ Apex \in Z BY <1>1, ApexOwned
<1>3. N \subseteq Z \cup C /\ Z \subseteq N /\ C \subseteq N BY <1>2, DBNames
<1>4. \A n \in C : n \in Name /\ Len(n) = Len(Apex) + 1 /\ n[1] # "*"
  <2> SUFFICES ASSUME NEW n \in C PROVE n \in Name /\ Len(n) = Len(Apex) + 1 /\ n[1] # "*"
    OBVIOUS
  <2>1. PICK m \in DOMAIN hash : n = HashOwner(hash[m]) BY DBNames
  <2> QED BY <1>1, <2>1, HashOwnerFacts
<1>5. Len(name) \in Nat /\ Len(Apex) \in Nat /\ Apex \in Name BY NamesAre, LenProperties DEF Name
<1>6. PICK e \in 1..top : /\ ClosestEncloser(name) = Up(name, e) /\ Exists(Up(name, e))
                          /\ \A j \in 0..(e - 1) : ~Exists(Up(name, j))
  BY <1>1, <1>2, EncloserIs
<1>7. SourceOf(name) = Wild(Up(name, e)) BY <1>6 DEF SourceOf
<1>8. top \in 0..Len(name) BY <1>5, SuffixIsUp
<1>9. \A k \in 0..Len(name) : Up(name, k) \in Name /\ Len(Up(name, k)) = Len(name) - k BY UpFacts
<1>10. \A k \in 0..Len(name) : Up(name, k) \notin C BY DEF OfHashes
<1>11. name \notin N
  <2>1. Up(name, 0) = name /\ 0 \in 0..Len(name) BY <1>5, UpZero
  <2>2. name \notin C BY <1>10, <2>1
  <2>3. name \notin Z BY <1>1, OwnerExists
  <2> QED BY <1>3, <2>2, <2>3
<1>12. ASSUME NEW k \in 1..top PROVE Wild(Up(name, k)) \in N => Wild(Up(name, k)) \in Z /\ k >= e
  <2>1. k \in 0..Len(name) /\ Up(name, k) \in Name BY <1>5, <1>8, <1>9
  <2>2. Wild(Up(name, k)) \in Name /\ Wild(Up(name, k))[1] = "*" BY <2>1, WildFacts
  <2>3. Wild(Up(name, k)) \notin C BY <1>4, <2>2
  <2>4. Wild(Up(name, k)) \in Z => Exists(Up(name, k))
    BY <1>1, <2>1, <2>2, OwnerExists, ExistsAbove, WildSuffix
  <2>5. Exists(Up(name, k)) => k >= e
    <3>1. ~(k >= e) => k \in 0..(e - 1) BY <1>5, <1>6
    <3> QED BY <1>6, <3>1
  <2> QED BY <1>3, <2>3, <2>4, <2>5
<1>13. ASSUME NEW j \in 1..(e - 1) PROVE ~Blocks(currDB, Up(name, j))
  <2>1. j \in 0..(e - 1) /\ j \in 0..Len(name) /\ Len(name) - j >= Len(Apex) + 1
    BY <1>5, <1>6, <1>8
  <2>2. Up(name, j) \in Name /\ Len(Up(name, j)) = Len(name) - j BY <1>9, <2>1
  <2>3. ~Exists(Up(name, j)) BY <1>6, <2>1
  <2>4. ASSUME NEW n \in N, IsSuffix(Up(name, j), n) PROVE FALSE
    <3>1. CASE n \in Z
      <4>1. n \in Name /\ Exists(n) BY <1>1, <3>1, OwnerExists
      <4> QED BY <1>1, <2>2, <2>3, <2>4, <4>1, ExistsAbove
    <3>2. CASE n \in C
      <4>1. n \in Name /\ Len(n) = Len(Apex) + 1 BY <1>4, <3>2
      <4>2. Len(n) <= Len(Up(name, j)) BY <2>1, <2>2, <4>1
      <4>3. Up(name, j) = n BY <2>2, <2>4, <4>1, <4>2, SuffixSameLen
      <4> QED BY <1>10, <2>1, <3>2, <4>3
    <3> QED BY <1>3, <3>1, <3>2
  <2> QED BY <2>4 DEF Blocks
<1>14. Blocks(currDB, Up(name, e))
  <2>1. PICK r \in records : IsSuffix(Up(name, e), r.name) BY <1>6 DEF Exists
  <2>2. r.name \in N BY <1>3, <2>1 DEF ByName
  <2> QED BY <2>1, <2>2 DEF Blocks
<1> DEFINE found == {k \in 1..top : Wild(Up(name, k)) \in N}
           k == Least(found)
<1>15. WildcardLookup(currDB, name) =
         IF name = Apex \/ found = {} \/ \E j \in 1..(k - 1) : Blocks(currDB, Up(name, j))
         THEN {} ELSE {Wild(Up(name, k))}
  BY DEF WildcardLookup, Depth
<1>16. name # Apex BY <1>3, <1>2, <1>11
<1>17. found \in SUBSET Nat /\ \A j \in found : j >= e /\ Wild(Up(name, j)) \in Z BY <1>12
<1>18. found # {} => k \in found /\ \A j \in found : k <= j
  <2> HIDE DEF found
  <2> QED BY <1>17, LeastFacts
<1>19. e \in found <=> Wild(Up(name, e)) \in Z BY <1>3, <1>6, <1>12
<1> HIDE DEF found, k
<1>20. CASE e \in found
  <2>1. k = e
    <3>1. k \in found /\ k <= e /\ k >= e /\ k \in Nat /\ e \in Nat BY <1>17, <1>18, <1>20
    <3> QED BY <3>1
  <2> QED BY <1>7, <1>11, <1>13, <1>15, <1>16, <1>19, <1>20, <2>1
<1>21. CASE e \notin found
  <2>1. ASSUME found # {} PROVE \E j \in 1..(k - 1) : Blocks(currDB, Up(name, j))
    <3>1. k \in found /\ k \in Nat /\ k >= e /\ k # e BY <1>17, <1>18, <1>21, <2>1
    <3>2. e \in 1..(k - 1) BY <1>6, <3>1
    <3> QED BY <1>14, <3>2
  <2> QED BY <1>7, <1>11, <1>15, <1>19, <1>21, <2>1
<1> QED BY <1>20, <1>21

-----------------------------------------------------------------------------
(* What is found for a name.                                               *)

Renamed(rrs, name) == {RR(name, r.type, r.data) : r \in rrs}

LEMMA DBRecords ==
  ASSUME Inv, currDB # NoDB
  PROVE  \A r \in currDB : r = RR(r.name, r.type, r.data)
<1> DEFINE Rec(r) == r = RR(r.name, r.type, r.data)
<1>1. /\ records \in Zones /\ keys \in KeySets /\ hash \in Hashes
      /\ currDB = Built(records, keys, hash)
  BY ServedDB
<1>2. \A r \in records : Rec(r) BY <1>1, AnswersAssumption
<1>3. \A n, t, x : Rec(RR(n, t, x)) BY DEF RR
<1>4. CASE keys = {} BY <1>1, <1>2, <1>4 DEF Built
<1>5. CASE keys # {}
  <2>1. \A k : Rec(DNSKEY(k)) BY <1>3 DEF DNSKEY
  <2>2. \A r \in WithKeys(records, keys) : Rec(r) BY <1>2, <2>1 DEF WithKeys
  <2>3. \A d, n, t, k : Rec(Sig(d, n, t, k)) BY <1>3 DEF Sig
  <2>4. \A r, k : Rec(SigOfOne(r, k)) BY <1>3 DEF SigOfOne
  <2>5. \A d, N, n : Rec(Entry(d, N, n, hash)) BY <1>3 DEF Entry
  <2>6. Rec(NSEC3PARAM) BY <1>3 DEF NSEC3PARAM
  <2> HIDE DEF Rec
  <2>7. \A r \in SignDB(WithKeys(records, keys), keys) : Rec(r) BY <2>3, SignDBIs
  <2>8. \A r \in Signable(records, keys) : Rec(r) BY <2>2, <2>7 DEF Signable
  <2>9. \A r \in Chain(records, keys, hash) : Rec(r) BY <1>1, <1>5, <2>5, ChainIs
  <2>10. \A r \in currDB : Rec(r)
    BY <1>1, <1>5, <2>4, <2>6, <2>8, <2>9, SignedIs DEF Built
  <2> QED BY <2>10 DEF Rec
<1> QED BY <1>4, <1>5

LEMMA RenamedIs ==
  ASSUME NEW S, NEW name, \A r \in S : r = RR(r.name, r.type, r.data)
  PROVE  /\ {[r EXCEPT !.name = name] : r \in S} = Renamed(S, name)
         /\ (\A r \in S : r.name = name) => Renamed(S, name) = S
<1>1. ASSUME NEW r \in S PROVE [r EXCEPT !.name = name] = RR(name, r.type, r.data)
  <2>1. r = RR(r.name, r.type, r.data) OBVIOUS
  <2>2. \A n, t, x : [RR(n, t, x) EXCEPT !.name = name] = RR(name, t, x) BY DEF RR
  <2> QED BY <2>1, <2>2
<1> QED BY <1>1 DEF Renamed

(* An answer comes from the name when it exists, and from the wildcard at  *)
(* its closest encloser when it does not.                                  *)
LEMMA FoundIs ==
  ASSUME Inv, currDB # NoDB, SOAAtApex, NEW name \in Name, NEW type,
         IsSuffix(Apex, name), ~OfHashes(name), ~EmptyNonTerminal(name)
  PROVE  LET found == lookupRRset(currDB, name, type)
             source == SourceOf(name)
         IN IF source \in ByName(records)
            THEN /\ found.rcode = "NOERROR" /\ found.owner = source
                 /\ found.answers = Renamed(Matching(currDB, source, type), name)
            ELSE found.rcode = "NXDOMAIN" /\ found.answers = {}
<1> DEFINE source == SourceOf(name)
           found == lookupRRset(currDB, name, type)
           wildcard == WildcardLookup(currDB, name)
<1>1. \A r \in currDB : r = RR(r.name, r.type, r.data) BY DBRecords
<1>2. ASSUME NEW n PROVE /\ Matching(currDB, n, type) \subseteq currDB
                         /\ \A r \in Matching(currDB, n, type) : r.name = n
  BY DEF Matching, Lookup
<1>3. ASSUME NEW n
      PROVE  synthesiseAnswers(Matching(currDB, n, type), name) = Renamed(Matching(currDB, n, type), name)
  <2>1. \A r \in Matching(currDB, n, type) : r = RR(r.name, r.type, r.data) BY <1>1, <1>2
  <2> QED BY <2>1, RenamedIs DEF synthesiseAnswers
<1>4. CASE Exists(name)
  <2>1. name \in ByName(records) /\ source = name BY <1>4 DEF EmptyNonTerminal, SourceOf
  <2>2. name \in ByName(currDB) BY <2>1, DBNames
  <2>3. found.rcode = "NOERROR" /\ found.owner = name /\ found.answers = Matching(currDB, name, type)
    BY <2>2 DEF lookupRRset
  <2>4. Renamed(Matching(currDB, name, type), name) = Matching(currDB, name, type)
    <3>1. \A r \in Matching(currDB, name, type) : r = RR(r.name, r.type, r.data) BY <1>1, <1>2
    <3> QED BY <1>2, <3>1, RenamedIs
  <2> QED BY <2>1, <2>3, <2>4
<1>5. CASE ~Exists(name)
  <2>1. /\ name \notin ByName(currDB)
        /\ wildcard = IF source \in ByName(records) THEN {source} ELSE {}
    BY <1>5, WildcardIs
  <2> HIDE DEF source, wildcard
  <2>2. CASE source \in ByName(records)
    <3>1. wildcard = {source} /\ (CHOOSE w \in wildcard : TRUE) = source BY <2>1, <2>2
    <3>2. /\ found.rcode = "NOERROR" /\ found.owner = source
          /\ found.answers = synthesiseAnswers(Matching(currDB, source, type), name)
      BY <2>1, <3>1 DEF lookupRRset, wildcard
    <3> QED BY <1>3, <2>2, <3>2 DEF source
  <2>3. CASE source \notin ByName(records)
    <3>1. wildcard = {} BY <2>1, <2>3
    <3>2. found.rcode = "NXDOMAIN" /\ found.answers = {}
      BY <2>1, <3>1 DEF lookupRRset, wildcard
    <3> QED BY <2>3, <3>2 DEF source
  <2> QED BY <2>2, <2>3
<1> QED BY <1>4, <1>5

Found == lookupRRset(currDB, QName, query.type)
Do == parseOPT(query).do /\ DNSSECEnabled

LEMMA ResponseIs ==
  ASSUME resp = Answered
  PROVE  /\ resp.rcode = Found.rcode
         /\ resp.answers = Found.answers \cup IF Do THEN AnswerSigs(currDB, Found, query.type) ELSE {}
         /\ resp.authority = appendNegativeAuthority(currDB, Found, Do)
               \cup IF Do THEN Denial(currDB, nsec3Chain, hash, Found, QName) ELSE {}
BY DEF Answered, FromDB, WithOPT, Resolve, Response, Found, Do, QName

(* The signatures of an answer are told from it by their type.             *)
LEMMA PlainAnswers ==
  ASSUME resp = Answered, \A r \in Found.answers : r.type # "RRSIG"
  PROVE  Plain(resp.answers) = Found.answers
<1>1. \A s \in AnswerSigs(currDB, Found, query.type) : s.type = "RRSIG"
  BY DEF AnswerSigs, SigsOf, Lookup
<1> QED BY <1>1, ResponseIs DEF Plain

(* In zones whose SOA is at the apex, an answer says of the name what the  *)
(* zone says of it: the records of the type, or the CNAME, at the name or  *)
(* at the wildcard of its closest encloser, NXDOMAIN when neither is       *)
(* there, the SOA when there are no records.  Neither the names nor the    *)
(* records that signing adds change that (lookupRRset, WildcardLookup).    *)
THEOREM RightAnswers == SOAAtApex => (Spec => []AnswersRight)
<1> SUFFICES ASSUME SOAAtApex PROVE Spec => []AnswersRight
  OBVIOUS
<1>1. ASSUME Inv PROVE AnswersRight
  <2> SUFFICES ASSUME Served, ~EmptyNonTerminal(QName), query.type \in {"A", "CNAME", "TXT", "SOA"}
               PROVE  LET expected == Expected(QName, query.type) IN
                      /\ resp.rcode = expected.rcode
                      /\ Plain(resp.answers) = expected.answers
                      /\ OfType(resp.authority, "SOA") # {} <=> expected.answers = {}
    BY DEF AnswersRight
  <2> DEFINE source == SourceOf(QName)
             type == query.type
             here == {r \in records : r.name = source}
             rrset == IF OfType(here, type) # {} THEN OfType(here, type) ELSE OfType(here, "CNAME")
             expected == Expected(QName, type)
  <2>1. /\ currDB # NoDB /\ resp = Answered
        /\ QName \in Name /\ IsSuffix(Apex, QName) /\ ~OfHashes(QName)
    BY <1>1, ServedFacts
  <2>2. /\ records \in Zones /\ keys \in KeySets /\ SanityChecks(records)
        /\ currDB = Built(records, keys, hash)
    BY <1>1, <2>1, ServedDB
  <2>3. records \subseteq currDB /\ \A r \in currDB : r.type \notin AddedTypes => r \in records
    BY <2>2, BuiltKeeps
  <2>4. \A n : Lookup(currDB, n, type) = Lookup(records, n, type)
               /\ Lookup(currDB, n, "CNAME") = Lookup(records, n, "CNAME")
    BY <2>3 DEF Lookup, AddedTypes
  <2>5. Matching(currDB, source, type) = rrset
    <3>1. OfType(here, type) = Lookup(records, source, type)
          /\ OfType(here, "CNAME") = Lookup(records, source, "CNAME")
      BY DEF OfType, Lookup
    <3> QED BY <2>4, <3>1 DEF Matching
  <2>6. expected.rcode = (IF here = {} THEN "NXDOMAIN" ELSE "NOERROR")
        /\ expected.answers = {[r EXCEPT !.name = QName] : r \in rrset}
    BY DEF Expected
  <2>7. expected.answers = Renamed(rrset, QName)
    <3>1. \A r \in rrset : r \in records BY DEF OfType
    <3>2. \A r \in rrset : r = RR(r.name, r.type, r.data) BY <2>2, <3>1, AnswersAssumption
    <3> HIDE DEF rrset
    <3> QED BY <2>6, <3>2, RenamedIs
  <2>8. here = {} <=> source \notin ByName(records) BY DEF ByName
  <2>9. here = {} => rrset = {} BY DEF OfType
  <2>10. \A r \in rrset : r.type # "RRSIG" BY DEF OfType
  <2>11. IF source \in ByName(records)
         THEN Found.rcode = "NOERROR" /\ Found.answers = Renamed(Matching(currDB, source, type), QName)
         ELSE Found.rcode = "NXDOMAIN" /\ Found.answers = {}
    BY <1>1, <2>1, FoundIs DEF Found
  <2> HIDE DEF rrset, here, source, expected
  <2>12. \A r \in Renamed(rrset, QName) : r.type # "RRSIG" BY <2>10 DEF Renamed, RR
  <2>13. rrset = {} => Renamed(rrset, QName) = {} BY DEF Renamed
  <2>14. Found.answers = expected.answers /\ Found.rcode = expected.rcode
    BY <2>5, <2>6, <2>7, <2>8, <2>9, <2>11, <2>13
  <2>15. Plain(resp.answers) = expected.answers
    BY <2>1, <2>7, <2>12, <2>14, PlainAnswers
  <2>16. resp.rcode = expected.rcode BY <2>1, <2>14, ResponseIs
  <2>17. OfType(resp.authority, "SOA") # {} <=> expected.answers = {}
    <3>1. CASE expected.answers # {}
      <4>1. Found.rcode = "NOERROR" /\ Found.answers # {} BY <2>11, <2>14, <3>1
      <4>2. /\ appendNegativeAuthority(currDB, Found, Do) = {}
            /\ Denial(currDB, nsec3Chain, hash, Found, QName) = {}
        BY <4>1 DEF appendNegativeAuthority, Denial
      <4>3. resp.authority = {} BY <2>1, <4>2, ResponseIs
      <4> QED BY <3>1, <4>3 DEF OfType
    <3>2. CASE expected.answers = {}
      <4>1. Lookup(records, Apex, "SOA") # {} BY <2>2, ApexOwned
      <4>2. Lookup(currDB, Apex, "SOA") \subseteq resp.authority
        BY <2>1, <2>14, <3>2, ResponseIs DEF appendNegativeAuthority
      <4>3. PICK r \in records : r.name = Apex /\ r.type = "SOA" BY <4>1 DEF Lookup
      <4>4. r \in resp.authority BY <2>3, <4>2, <4>3 DEF Lookup
      <4> QED BY <3>2, <4>3, <4>4 DEF OfType
    <3> QED BY <3>1, <3>2
  <2> QED BY <2>15, <2>16, <2>17 DEF expected
<1> QED BY <1>1, InvKept, PTL

-----------------------------------------------------------------------------
(* Signatures.                                                             *)

(* Every RRset of the zone and of its keys is in the database under a      *)
(* signature of each key for it.                                           *)
LEMMA SignedRRset ==
  ASSUME NEW d \in Zones, NEW K \in KeySets, K # {}, NEW h, NEW n, NEW t,
         t \notin {"RRSIG", "NSEC3", "NSEC3PARAM"}, Lookup(signDB(d, K, h), n, t) # {},
         NEW k \in Signers(K, t)
  PROVE  \E s \in signDB(d, K, h) :
            /\ s.name = n /\ s.type = "RRSIG" /\ Covers(s) = t /\ Signer(s) = k.id
            /\ Labels(s) = countLabels(n) /\ Signed(s) = Lookup(signDB(d, K, h), n, t)
<1> DEFINE D == signDB(d, K, h)
           W == WithKeys(d, K)
<1>1. W \subseteq Signable(d, K) BY DEF Signable
<1>2. Signable(d, K) \subseteq D BY SignedIs
<1>3. \A s \in SignDB(W, K) : s.type = "RRSIG" BY SignDBIs, SigIs
<1>4. \A s \in Signable(d, K) : s \in W \/ s.type = "RRSIG" BY <1>3 DEF Signable
<1>5. \A s \in D : s \in W \/ s.type \in {"RRSIG", "NSEC3", "NSEC3PARAM"}
  BY <1>4, SignedIs, ChainRecord, ParamIs, SigOfOneIs
<1>6. Signable(d, K) = W \cup SignDB(W, K) BY DEF Signable
<1> HIDE DEF D, W
<1>7. Lookup(D, n, t) = Lookup(W, n, t) BY <1>1, <1>2, <1>5 DEF Lookup
<1>8. PICK r \in W : r.name = n /\ r.type = t BY <1>7 DEF Lookup, D
<1>9. Sig(W, n, t, k) \in SignDB(W, K)
  <2>1. r.type # "RRSIG" /\ k \in Signers(K, r.type) /\ Sig(W, n, t, k) = Sig(W, r.name, r.type, k)
    BY <1>8
  <2> QED BY <1>8, <2>1, SignDBIs
<1>10. Sig(W, n, t, k) \in D BY <1>2, <1>6, <1>9
<1> QED BY <1>7, <1>10, SigIs DEF D

LEMMA SignedOne ==
  ASSUME NEW d \in Zones, NEW K \in KeySets, K # {}, NEW h,
         NEW r \in Chain(d, K, h) \cup {NSEC3PARAM}, NEW k \in Signers(K, "NSEC3")
  PROVE  SigOfOne(r, k) \in signDB(d, K, h)
BY SignedIs

LEMMA KeysPublished ==
  ASSUME NEW d \in Zones, NEW K \in KeySets, K # {}, NEW h, NEW k \in K
  PROVE  DNSKEY(k) \in signDB(d, K, h)
BY SignedIs DEF Signable, WithKeys

LEMMA SecuredFacts ==
  ASSUME Inv, Secured
  PROVE  /\ Served /\ keys # {} /\ Do = TRUE /\ currDB # NoDB
         /\ records \in Zones /\ keys \in KeySets /\ hash \in Hashes /\ SanityChecks(records)
         /\ currDB = signDB(records, keys, hash) /\ nsec3Chain = Chain(records, keys, hash)
<1>1. Served /\ keys # {} /\ Do BY DEF Secured, DNSSECEnabled, Do
<1>2. Do = TRUE BY <1>1 DEF Do, DNSSECEnabled
<1>3. currDB # NoDB BY <1>1, ServedFacts
<1> QED BY <1>1, <1>2, <1>3, ServedDB

RoleFor(t) == IF t = "DNSKEY" THEN "ksk" ELSE "zsk"

LEMMA SignerRole ==
  ASSUME NEW K \in KeySets, NEW t, NEW k \in Signers(K, t)
  PROVE  k.role = RoleFor(t) \/ \A j \in K : j.role # RoleFor(t)
BY DEF Signers, KSKs, ZSKs, RoleFor

(* In zones whose SOA is at the apex and that use no owner names of        *)
(* NSEC3s, an answer comes with a signature of a published key of the zone *)
(* over exactly its records, with the labels of the name they are from, by *)
(* a key for them (SignDB, SignRRset, appendDNSSEC).                       *)
THEOREM AnswersSigned == SOAAtApex /\ NoHashNames => (Spec => []SignedAnswers)
<1> SUFFICES ASSUME SOAAtApex, NoHashNames PROVE Spec => []SignedAnswers
  OBVIOUS
<1>1. ASSUME Inv PROVE SignedAnswers
  <2> SUFFICES ASSUME Secured, Plain(resp.answers) # {}, ~EmptyNonTerminal(QName)
               PROVE  \E sig \in OfType(resp.answers, "RRSIG"), k \in keys :
                        /\ {[r EXCEPT !.name = QName] : r \in Signed(sig)} = Plain(resp.answers)
                        /\ Valid(sig, Signed(sig)) /\ Signer(sig) = k.id
                        /\ LET source == SourceOf(QName)
                           IN Labels(sig) = IF source[1] = "*" THEN Len(source) - 1 ELSE Len(source)
                        /\ LET role == IF OfType(resp.answers, "DNSKEY") # {} THEN "ksk" ELSE "zsk"
                           IN k.role = role \/ \A j \in keys : j.role # role
    BY DEF SignedAnswers
  <2> DEFINE source == SourceOf(QName)
             type == IF Lookup(currDB, source, query.type) # {} THEN query.type ELSE "CNAME"
             M == Lookup(currDB, source, type)
             sigs == AnswerSigs(currDB, Found, query.type)
  <2>1. /\ Served /\ keys # {} /\ Do = TRUE /\ currDB # NoDB
        /\ records \in Zones /\ keys \in KeySets /\ hash \in Hashes /\ SanityChecks(records)
        /\ currDB = signDB(records, keys, hash) /\ nsec3Chain = Chain(records, keys, hash)
    BY <1>1, SecuredFacts
  <2>2. resp = Answered /\ QName \in Name /\ IsSuffix(Apex, QName) /\ ~OfHashes(QName)
    BY <1>1, <2>1, ServedFacts
  <2>3. Matching(currDB, source, query.type) = M BY DEF Matching
  <2>4. IF source \in ByName(records)
        THEN Found.rcode = "NOERROR" /\ Found.owner = source /\ Found.answers = Renamed(M, QName)
        ELSE Found.rcode = "NXDOMAIN" /\ Found.answers = {}
    BY <1>1, <2>1, <2>2, <2>3, FoundIs DEF Found
  <2>5. \A r \in M : r \in currDB /\ r.name = source /\ r.type = type BY DEF Lookup
  <2>6. \A r \in Renamed(M, QName) : r.type = type BY <2>5 DEF Renamed, RR
  <2>7. resp.answers = Found.answers \cup sigs BY <2>1, <2>2, ResponseIs
  <2>8. \A s \in sigs : s.type = "RRSIG" BY DEF AnswerSigs, SigsOf, Lookup
  <2> HIDE DEF source, type, M, sigs
  <2>9. /\ source \in ByName(records) /\ Found.rcode = "NOERROR" /\ Found.owner = source
        /\ Found.answers = Renamed(M, QName) /\ Found.answers # {} /\ type # "RRSIG"
    <3>1. PICK r \in resp.answers : r.type # "RRSIG" BY DEF Plain
    <3>2. r \in Found.answers BY <2>7, <2>8, <3>1
    <3> QED BY <2>4, <2>6, <3>1, <3>2
  <2>10. Plain(resp.answers) = Found.answers BY <2>2, <2>6, <2>9, PlainAnswers
  <2>11. sigs = SigsOf(currDB, source, type)
    <3> DEFINE plain == {r \in Found.answers : r.type # "RRSIG"}
               c == CHOOSE r \in plain : TRUE
    <3>1. plain # {} BY <2>6, <2>9
    <3>2. c \in plain BY <3>1
    <3>3. c.type = type
      <4> HIDE DEF c
      <4> QED BY <2>6, <2>9, <3>2
    <3>4. sigs = SigsOf(currDB, Found.owner, c.type) BY <2>9, <3>1 DEF AnswerSigs, sigs
    <3> HIDE DEF c
    <3> QED BY <2>9, <3>3, <3>4
  <2>12. M # {} BY <2>9 DEF Renamed
  <2>13. source \in Owners(records) BY <2>9 DEF Owners
  <2>14. type # "NSEC3"
    <3> SUFFICES ASSUME type = "NSEC3" PROVE FALSE
      OBVIOUS
    <3>1. PICK r \in M : TRUE BY <2>12
    <3>2. r \in ByType(currDB, "NSEC3") BY <2>5 DEF ByType
    <3>3. r \in Chain(records, keys, hash) BY <2>1, <3>2, SignedByType
    <3>4. PICK n \in Owners(records) : source = HashOwner(hash[n]) BY <2>1, <2>5, <3>3, ChainRecord
    <3>5. n \in DOMAIN hash BY <2>1, OwnersHashed
    <3> QED BY <2>1, <2>13, <3>4, <3>5, OwnersNotHashes
  <2>15. PICK k \in Signers(keys, type) : TRUE BY <2>1, SignersAre
  <2>16. k \in keys BY <2>1, SignersAre
  <2>17. \E s \in currDB : /\ s.name = source /\ s.type = "RRSIG" /\ Covers(s) = type /\ Signer(s) = k.id
                           /\ Labels(s) = countLabels(source) /\ Signed(s) = M
    <3>1. CASE type # "NSEC3PARAM"
      BY <2>1, <2>9, <2>12, <2>14, <2>15, <3>1, SignedRRset DEF M
    <3>2. CASE type = "NSEC3PARAM"
      <4>1. k \in Signers(keys, "NSEC3") BY <2>15, <3>2 DEF Signers
      <4>2. SigOfOne(NSEC3PARAM, k) \in currDB BY <2>1, <4>1, SignedOne
      <4>3. \A r \in currDB : r.type = "NSEC3PARAM" => r = NSEC3PARAM
        <5>1. \A r \in Signable(records, keys) : r.type # "NSEC3PARAM"
          BY <2>1, SignableTypes DEF AddedTypes
        <5> QED BY <2>1, <5>1, SignedIs, ChainRecord, SigOfOneIs
      <4>4. \A r \in M : r = NSEC3PARAM BY <2>5, <3>2, <4>3
      <4>5. M = {NSEC3PARAM} BY <2>12, <4>4
      <4>6. source = Apex BY <2>5, <4>5, ParamIs
      <4> QED BY <3>2, <4>2, <4>5, <4>6, SigOfOneIs, ParamIs
    <3> QED BY <3>1, <3>2
  <2>18. PICK sig \in currDB :
           /\ sig.name = source /\ sig.type = "RRSIG" /\ Covers(sig) = type /\ Signer(sig) = k.id
           /\ Labels(sig) = countLabels(source) /\ Signed(sig) = M
    BY <2>17
  <2>19. sig \in OfType(resp.answers, "RRSIG")
    <3>1. sig \in sigs BY <2>11, <2>18 DEF SigsOf, Lookup
    <3> QED BY <2>7, <2>18, <3>1 DEF OfType
  <2>20. {[r EXCEPT !.name = QName] : r \in Signed(sig)} = Plain(resp.answers)
    <3>1. \A r \in M : r = RR(r.name, r.type, r.data) BY <1>1, <2>1, <2>5, DBRecords
    <3>2. {[r EXCEPT !.name = QName] : r \in M} = Renamed(M, QName) BY <3>1, RenamedIs
    <3> QED BY <2>9, <2>10, <2>18, <3>2
  <2>21. Valid(sig, Signed(sig)) BY <2>1, <2>16, <2>18, KeysPublished DEF Valid
  <2>22. Labels(sig) = IF source[1] = "*" THEN Len(source) - 1 ELSE Len(source)
    BY <2>18 DEF countLabels
  <2>23. OfType(resp.answers, "DNSKEY") # {} <=> type = "DNSKEY"
    BY <2>6, <2>7, <2>8, <2>9 DEF OfType
  <2>24. k.role = RoleFor(type) \/ \A j \in keys : j.role # RoleFor(type)
    BY <2>1, <2>15, SignerRole
  <2>25. RoleFor(type) = IF OfType(resp.answers, "DNSKEY") # {} THEN "ksk" ELSE "zsk"
    BY <2>23 DEF RoleFor
  <2> QED BY <2>16, <2>18, <2>19, <2>20, <2>21, <2>22, <2>24, <2>25 DEF source
<1> QED BY <1>1, InvKept, PTL

-----------------------------------------------------------------------------
(* Denial.                                                                 *)

LEMMA FindCoveringIs ==
  ASSUME NEW chain, NEW x, NEW h, NEW n, Covering(chain, x, h) = {n}, OwnerHash(n, h) \in Nat
  PROVE  findCovering(chain, x, h) = n
<1>1. \A m \in Covering(chain, x, h) : OwnerHash(n, h) <= OwnerHash(m, h) OBVIOUS
<1> QED BY <1>1 DEF findCovering

(* The proof for a name between which and its closest encloser, at depth   *)
(* e, nothing exists: the encloser is matched, the name below it and the   *)
(* wildcard are covered.                                                   *)
LEMMA ProofIs ==
  ASSUME NEW d \in Zones, NEW K \in KeySets, K # {}, NEW h \in Hashes, NEW name \in Name,
         IsSuffix(Apex, name), NEW e \in 1..(Len(name) - Len(Apex)),
         \A k \in 0..(Len(name) - Len(Apex)) : {Up(name, k), Wild(Up(name, k))} \subseteq DOMAIN h,
         Up(name, e) \in Owners(d), \A j \in 0..(e - 1) : Up(name, j) \notin Owners(d),
         Wild(Up(name, e)) \notin Owners(d)
  PROVE  LET C == Chain(d, K, h)
             P == ClosestEncloserProof(signDB(d, K, h), C, name, h)
         IN /\ P \subseteq C
            /\ \E n \in P : OwnerHash(n, h) = h[Up(name, e)]
            /\ \E n \in P : covers(OwnerHash(n, h), NextHash(n), h[Up(name, e - 1)])
            /\ \E n \in P : covers(OwnerHash(n, h), NextHash(n), h[Wild(Up(name, e))])
<1> DEFINE C == Chain(d, K, h)
           D == signDB(d, K, h)
           P == ClosestEncloserProof(D, C, name, h)
           N == Owners(d)
           E(n) == Entry(Signable(d, K), N, n, h)
           below == Len(name) - Len(Apex)
           owners == {OwnerHash(n, h) : n \in C}
           found == {k \in 0..below : h[Up(name, k)] \in owners}
           depth == Least(found)
           u == Up(name, e)
           v == Up(name, e - 1)
           w == Wild(Up(name, e))
<1>0. Len(name) \in Nat /\ Len(Apex) \in Nat BY NamesAre, LenProperties DEF Name
<1>1. below \in Nat /\ e \in 0..below /\ e - 1 \in 0..(e - 1) /\ e - 1 \in 0..below /\ e # 0 /\ below # 0
  BY <1>0
<1>2. u \in DOMAIN h /\ v \in DOMAIN h /\ w \in DOMAIN h BY <1>1
<1>3. u \in N /\ v \notin N /\ w \notin N BY <1>1
<1>4. C = {E(n) : n \in N} BY ChainIs
<1>5. N \subseteq DOMAIN h /\ \A n \in DOMAIN h : h[n] \in Nat BY OwnersHashed
<1>6. \A n \in N : OwnerHash(E(n), h) = h[n]
  <2> SUFFICES ASSUME NEW n \in N PROVE OwnerHash(E(n), h) = h[n]
    OBVIOUS
  <2>1. E(n).name = HashOwner(h[n]) /\ n \in DOMAIN h BY <1>5, EntryIs
  <2> HIDE DEF E
  <2> QED BY <2>1, OwnerHashIs
<1>7. \A m \in DOMAIN h : h[m] \in owners <=> m \in N
  <2> SUFFICES ASSUME NEW m \in DOMAIN h PROVE h[m] \in owners <=> m \in N
    OBVIOUS
  <2> HIDE DEF E, C, N
  <2>1. h[m] \in owners <=> \E n \in N : h[m] = h[n] BY <1>4, <1>6
  <2>2. \A n \in N : h[m] = h[n] => m = n BY <1>5, HashOwnersDiffer
  <2> QED BY <2>1, <2>2
<1>8. \A k \in 0..below : k \in found <=> Up(name, k) \in N
  <2> SUFFICES ASSUME NEW k \in 0..below PROVE k \in found <=> Up(name, k) \in N
    OBVIOUS
  <2>1. Up(name, k) \in DOMAIN h OBVIOUS
  <2> HIDE DEF owners
  <2> QED BY <1>7, <2>1
<1>9. found \in SUBSET Nat /\ e \in found BY <1>1, <1>3, <1>8
<1>10. \A k \in found : e <= k
  <2> SUFFICES ASSUME NEW k \in found, ~(e <= k) PROVE FALSE
    OBVIOUS
  <2>1. k \in 0..below OBVIOUS
  <2>2. k \in 0..(e - 1) BY <1>1, <2>1
  <2> HIDE DEF found
  <2> QED BY <1>8, <2>1, <2>2
<1>11. depth = e
  <2> HIDE DEF found
  <2>1. depth \in found /\ \A k \in found : depth <= k BY <1>9, LeastFacts
  <2> HIDE DEF depth
  <2>2. depth \in Nat /\ e \in Nat /\ e <= depth /\ depth <= e BY <1>9, <1>10, <2>1
  <2> QED BY <2>2
<1>12. PICK a \in N : Covering(C, h[v], h) = {E(a)} BY <1>2, <1>3, ChainMatches
<1>13. PICK b \in N : Covering(C, h[w], h) = {E(b)} BY <1>2, <1>3, ChainMatches
<1>14. ByType(D, "NSEC3") = C BY SignedByType
<1>15. E(u) \in C /\ E(u).name = HashOwner(h[u]) /\ E(u).type = "NSEC3" BY <1>3, <1>4, EntryIs
<1>16. found # {} BY <1>9
<1>17. P = Lookup(D, HashOwner(h[u]), "NSEC3") \cup {findCovering(C, h[v], h), findCovering(C, h[w], h)}
  <2>1. Covering(C, h[v], h) # {} /\ Covering(C, h[w], h) # {}
    <3> HIDE DEF E, C
    <3> QED BY <1>12, <1>13
  <2>2. P = LET nc == h[Up(name, depth - 1)]
                wild == h[Wild(Up(name, depth))]
            IN IF \/ ~IsSuffix(Apex, name) \/ below = 0 \/ found = {} \/ depth = 0
                  \/ Covering(C, nc, h) = {} \/ Covering(C, wild, h) = {}
               THEN {}
               ELSE Lookup(D, HashOwner(h[Up(name, depth)]), "NSEC3")
                    \cup {findCovering(C, nc, h), findCovering(C, wild, h)}
    BY DEF ClosestEncloserProof
  <2> HIDE DEF P, D, C, found, depth, below
  <2> QED BY <1>1, <1>11, <1>16, <2>1, <2>2
<1> HIDE DEF P, D, C, E, N, found, depth, below, owners, u, v, w
<1>18. OwnerHash(E(a), h) \in Nat /\ OwnerHash(E(b), h) \in Nat BY <1>5, <1>6
<1>19. findCovering(C, h[v], h) = E(a) /\ findCovering(C, h[w], h) = E(b)
  BY <1>12, <1>13, <1>18, FindCoveringIs
<1>20. Lookup(D, HashOwner(h[u]), "NSEC3") \subseteq C BY <1>14 DEF Lookup, ByType
<1>21. E(u) \in Lookup(D, HashOwner(h[u]), "NSEC3") BY <1>14, <1>15 DEF Lookup, ByType
<1>22. E(a) \in C /\ E(b) \in C BY <1>4
<1>23. P \subseteq C /\ E(u) \in P /\ E(a) \in P /\ E(b) \in P BY <1>17, <1>19, <1>20, <1>21, <1>22
<1>24. covers(OwnerHash(E(a), h), NextHash(E(a)), h[v]) BY <1>12 DEF Covering
<1>25. covers(OwnerHash(E(b), h), NextHash(E(b)), h[w]) BY <1>13 DEF Covering
<1>26. OwnerHash(E(u), h) = h[u] BY <1>3, <1>6
<1> QED BY <1>23, <1>24, <1>25, <1>26 DEF P, C, D, u, v, w

(* The NSEC3s of an NXDOMAIN for a name with no empty non-terminal on its  *)
(* way to the apex: they are the proof for its closest encloser.           *)
LEMMA DeniedBy ==
  ASSUME Inv, SOAAtApex, Secured, resp.rcode = "NXDOMAIN", NoHoles(QName)
  PROVE  LET C == Chain(records, keys, hash)
             P == ClosestEncloserProof(currDB, C, QName, hash)
         IN /\ Shown = P /\ P \subseteq C /\ \A n \in C : n.type = "NSEC3" /\ n \in currDB
            /\ resp.authority = Lookup(currDB, Apex, "SOA") \cup SigsOf(currDB, Apex, "SOA")
                  \cup (P \cup UNION {SigsOf(currDB, n.name, "NSEC3") : n \in P})
            /\ \E e \in 1..(Len(QName) - Len(Apex)) :
                  /\ MatchedBy(Up(QName, e)) /\ CoveredBy(Up(QName, e - 1))
                  /\ CoveredBy(Wild(Up(QName, e)))
<1> DEFINE top == Len(QName) - Len(Apex)
           C == Chain(records, keys, hash)
           P == ClosestEncloserProof(currDB, C, QName, hash)
           A == resp.authority
<1>1. /\ Served /\ keys # {} /\ Do = TRUE /\ currDB # NoDB
      /\ records \in Zones /\ keys \in KeySets /\ hash \in Hashes /\ SanityChecks(records)
      /\ currDB = signDB(records, keys, hash) /\ nsec3Chain = C
  BY SecuredFacts
<1>2. /\ resp = Answered /\ QName \in Name /\ IsSuffix(Apex, QName) /\ ~OfHashes(QName)
      /\ \A k \in 0..top : {Up(QName, k), Wild(Up(QName, k))} \subseteq DOMAIN hash
  BY <1>1, ServedFacts
<1>3. Owners(records) = ByName(records) /\ Apex \in ByName(records) BY <1>1, ApexOwned
<1>4. \A k \in 0..top : ~EmptyNonTerminal(Up(QName, k)) BY DEF NoHoles
<1>5. top \in Nat /\ 0 \in 0..top
  <2>1. Len(QName) \in Nat BY <1>2, LenProperties DEF Name
  <2>2. top \in 0..Len(QName) BY <1>2, NamesAre, SuffixIsUp
  <2> QED BY <2>1, <2>2
<1>6. ~EmptyNonTerminal(QName) BY <1>2, <1>4, <1>5, UpZero
<1>7. Found.rcode = "NXDOMAIN" BY <1>2, ResponseIs
<1>8. SourceOf(QName) \notin ByName(records)
  BY <1>1, <1>2, <1>6, <1>7, FoundIs DEF Found
<1>9. ~Exists(QName) BY <1>6, <1>8 DEF SourceOf, EmptyNonTerminal
<1>10. PICK e \in 1..top : /\ ClosestEncloser(QName) = Up(QName, e) /\ Exists(Up(QName, e))
                           /\ \A j \in 0..(e - 1) : ~Exists(Up(QName, j))
  BY <1>1, <1>2, <1>3, <1>9, EncloserIs
<1>11. Up(QName, e) \in Owners(records)
  <2>1. e \in 0..top BY <1>5, <1>10
  <2> QED BY <1>3, <1>4, <1>10, <2>1 DEF EmptyNonTerminal
<1>12. \A j \in 0..(e - 1) : Up(QName, j) \notin Owners(records)
  BY <1>1, <1>3, <1>10, OwnerExists
<1>13. Wild(Up(QName, e)) \notin Owners(records) BY <1>3, <1>8, <1>9, <1>10 DEF SourceOf
<1>14. /\ P \subseteq C
       /\ \E n \in P : OwnerHash(n, hash) = hash[Up(QName, e)]
       /\ \E n \in P : covers(OwnerHash(n, hash), NextHash(n), hash[Up(QName, e - 1)])
       /\ \E n \in P : covers(OwnerHash(n, hash), NextHash(n), hash[Wild(Up(QName, e))])
  BY <1>1, <1>2, <1>10, <1>11, <1>12, <1>13, ProofIs
<1>15. A = Lookup(currDB, Apex, "SOA") \cup SigsOf(currDB, Apex, "SOA")
             \cup (P \cup UNION {SigsOf(currDB, n.name, "NSEC3") : n \in P})
  <2>1. A = appendNegativeAuthority(currDB, Found, TRUE) \cup Denial(currDB, C, hash, Found, QName)
    BY <1>1, <1>2, ResponseIs
  <2> HIDE DEF A, C
  <2>2. appendNegativeAuthority(currDB, Found, TRUE) = Lookup(currDB, Apex, "SOA") \cup SigsOf(currDB, Apex, "SOA")
    BY <1>7 DEF appendNegativeAuthority
  <2>3. Denial(currDB, C, hash, Found, QName) = P \cup UNION {SigsOf(currDB, n.name, "NSEC3") : n \in P}
    BY <1>7 DEF Denial
  <2> QED BY <2>1, <2>2, <2>3
<1>16. \A n \in C : n.type = "NSEC3" /\ n \in currDB BY <1>1, ChainRecord, SignedIs
<1> HIDE DEF A, P, C, top
<1>17. \A n, t : \A s \in SigsOf(currDB, n, t) : s.type = "RRSIG" BY DEF SigsOf, Lookup
<1>18. Shown = P
  <2>1. \A n \in P : n.type = "NSEC3" BY <1>14, <1>16
  <2>2. \A n \in A : n.type = "NSEC3" => n \in P BY <1>15, <1>17 DEF Lookup
  <2>3. P \subseteq A BY <1>15
  <2> QED BY <2>1, <2>2, <2>3 DEF Shown, OfType, A
<1>19. MatchedBy(Up(QName, e)) BY <1>14, <1>18 DEF MatchedBy
<1>20. CoveredBy(Up(QName, e - 1)) /\ CoveredBy(Wild(Up(QName, e))) BY <1>14, <1>18 DEF CoveredBy
<1>21. \E j \in 1..top : /\ MatchedBy(Up(QName, j)) /\ CoveredBy(Up(QName, j - 1))
                         /\ CoveredBy(Wild(Up(QName, j)))
  BY <1>10, <1>19, <1>20
<1> QED BY <1>14, <1>15, <1>16, <1>18, <1>21 DEF A, P, C, top

(* In zones whose SOA is at the apex, an NXDOMAIN for a name with no empty *)
(* non-terminal on its way to the apex comes with NSEC3s that match its    *)
(* closest encloser and cover the next closer name and the wildcard, and   *)
(* each of them and the SOA is signed by a published key (appendDNSSEC,    *)
(* ClosestEncloserProof), for every order of the hashes.                   *)
THEOREM AbsenceProved == SOAAtApex => (Spec => []DenialProved)
<1> SUFFICES ASSUME SOAAtApex PROVE Spec => []DenialProved
  OBVIOUS
<1>1. ASSUME Inv PROVE DenialProved
  <2> SUFFICES ASSUME Secured, resp.rcode = "NXDOMAIN", NoHoles(QName)
               PROVE  /\ \E k \in 1..(Len(QName) - Len(Apex)) :
                            /\ MatchedBy(Up(QName, k)) /\ CoveredBy(Up(QName, k - 1))
                            /\ CoveredBy(Wild(Up(QName, k)))
                      /\ \A n \in Shown \cup OfType(resp.authority, "SOA") :
                            \E sig \in OfType(resp.authority, "RRSIG") : Valid(sig, {n})
    BY DEF DenialProved
  <2> DEFINE C == Chain(records, keys, hash)
             P == ClosestEncloserProof(currDB, C, QName, hash)
             A == resp.authority
  <2>1. /\ keys # {} /\ currDB # NoDB
        /\ records \in Zones /\ keys \in KeySets /\ hash \in Hashes /\ SanityChecks(records)
        /\ currDB = signDB(records, keys, hash) /\ nsec3Chain = C
    BY <1>1, SecuredFacts
  <2>2. /\ Shown = P /\ P \subseteq C
        /\ \E k \in 1..(Len(QName) - Len(Apex)) :
              /\ MatchedBy(Up(QName, k)) /\ CoveredBy(Up(QName, k - 1))
              /\ CoveredBy(Wild(Up(QName, k)))
    BY <1>1, DeniedBy
  <2>3. A = Lookup(currDB, Apex, "SOA") \cup SigsOf(currDB, Apex, "SOA")
              \cup (P \cup UNION {SigsOf(currDB, n.name, "NSEC3") : n \in P})
    BY <1>1, DeniedBy
  <2>4. \A n \in C : n.type = "NSEC3" /\ n \in currDB BY <1>1, DeniedBy
  <2> HIDE DEF A, P, C
  <2>5. \A n, t : \A s \in SigsOf(currDB, n, t) : s.type = "RRSIG" BY DEF SigsOf, Lookup
  <2>6. PICK k \in Signers(keys, "NSEC3") : k \in keys BY <2>1, SignersAre
  <2>7. DNSKEY(k) \in currDB BY <2>1, <2>6, KeysPublished
  <2>8. ASSUME NEW n \in P PROVE \E sig \in OfType(A, "RRSIG") : Valid(sig, {n})
    <3>1. SigOfOne(n, k) \in currDB BY <2>1, <2>2, <2>6, SignedOne DEF C
    <3>2. n.type = "NSEC3" BY <2>2, <2>4
    <3>3. SigOfOne(n, k) \in SigsOf(currDB, n.name, "NSEC3")
      BY <3>1, <3>2, SigOfOneIs DEF SigsOf, Lookup
    <3>4. SigOfOne(n, k) \in A BY <2>3, <3>3
    <3>5. Valid(SigOfOne(n, k), {n}) BY <2>6, <2>7, SigOfOneIs DEF Valid
    <3> QED BY <3>4, <3>5, SigOfOneIs DEF OfType
  <2>9. ASSUME NEW n \in OfType(A, "SOA") PROVE \E sig \in OfType(A, "RRSIG") : Valid(sig, {n})
    <3>1. n \in A /\ n.type = "SOA" BY DEF OfType
    <3>2. n \in Lookup(currDB, Apex, "SOA") BY <2>2, <2>3, <2>4, <2>5, <3>1
    <3>3. Lookup(currDB, Apex, "SOA") = {n}
      <4>1. \A r \in currDB : r.type = "SOA" => r \in records
        BY <2>1, SignedByType DEF AddedTypes
      <4>2. IsFiniteSet(ByType(records, "SOA"))
        <5>1. ByType(records, "SOA") \subseteq records BY DEF ByType
        <5> QED BY <2>1, <5>1, FS_Subset, AnswersAssumption
      <4>3. Cardinality(ByType(records, "SOA")) = 1 BY <2>1 DEF SanityChecks
      <4>4. PICK x : ByType(records, "SOA") = {x} BY <4>2, <4>3, FS_Singleton
      <4>5. \A r \in Lookup(currDB, Apex, "SOA") : r = x BY <4>1, <4>4 DEF Lookup, ByType
      <4> QED BY <3>2, <4>5
    <3>4. k \in Signers(keys, "SOA") BY <2>6 DEF Signers
    <3>5. PICK s \in currDB : /\ s.name = Apex /\ s.type = "RRSIG" /\ Covers(s) = "SOA"
                              /\ Signer(s) = k.id /\ Signed(s) = {n}
      <4>1. Lookup(currDB, Apex, "SOA") # {} BY <3>3
      <4>2. \E s \in currDB :
              /\ s.name = Apex /\ s.type = "RRSIG" /\ Covers(s) = "SOA" /\ Signer(s) = k.id
              /\ Labels(s) = countLabels(Apex) /\ Signed(s) = Lookup(currDB, Apex, "SOA")
        BY <2>1, <3>4, <4>1, SignedRRset
      <4> QED BY <3>3, <4>2
    <3>6. s \in SigsOf(currDB, Apex, "SOA") BY <3>5 DEF SigsOf, Lookup
    <3>7. s \in OfType(A, "RRSIG") BY <2>3, <3>5, <3>6 DEF OfType
    <3>8. Valid(s, {n}) BY <2>6, <2>7, <3>5 DEF Valid
    <3> QED BY <3>7, <3>8
  <2> QED BY <2>2, <2>8, <2>9 DEF A
<1> QED BY <1>1, InvKept, PTL

(* What ClosestEncloserProof denies is absent where no empty non-terminal  *)
(* is on the way: none of the names from the queried one up to the apex    *)
(* that an NSEC3 of the answer covers exists.  With one it does deny names *)
(* that exist, so the condition is needed.                                 *)
THEOREM DeniedIsAbsent == SOAAtApex => (Spec => [](NoHoles(QName) => DeniesOnlyAbsent))
<1> SUFFICES ASSUME SOAAtApex PROVE Spec => [](NoHoles(QName) => DeniesOnlyAbsent)
  OBVIOUS
<1>1. ASSUME Inv, NoHoles(QName) PROVE DeniesOnlyAbsent
  <2> SUFFICES ASSUME Secured, resp.rcode = "NXDOMAIN", NEW k \in 0..(Len(QName) - Len(Apex)),
                      CoveredBy(Up(QName, k))
               PROVE  ~Exists(Up(QName, k))
    BY DEF DeniesOnlyAbsent
  <2> DEFINE C == Chain(records, keys, hash)
             name == Up(QName, k)
  <2>1. /\ Served /\ keys # {} /\ currDB # NoDB
        /\ records \in Zones /\ keys \in KeySets /\ hash \in Hashes /\ SanityChecks(records)
    BY <1>1, SecuredFacts
  <2>2. name \in DOMAIN hash BY <1>1, <2>1, ServedFacts
  <2>3. Shown \subseteq C BY <1>1, DeniedBy
  <2>4. Covering(C, hash[name], hash) # {} BY <2>3 DEF CoveredBy, Covering
  <2>5. name \notin Owners(records) BY <2>1, <2>2, <2>4, ChainMatches
  <2>6. ~EmptyNonTerminal(name) BY <1>1 DEF NoHoles
  <2> QED BY <2>5, <2>6 DEF EmptyNonTerminal, Owners
<1> QED BY <1>1, InvKept, PTL
===============================================================================
