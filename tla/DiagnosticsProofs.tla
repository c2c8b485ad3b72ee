---------------------------- MODULE DiagnosticsProofs ----------------------------
(***************************************************************************)
(* From a profile to answered requests, for every profile of the shape the *)
(* schema gives, every payload and any routes added later.                 *)
(***************************************************************************)
EXTENDS Reports, FiniteSetTheorems, SequenceTheorems, WellFoundedInduction, TLAPS

(* Induction over the natural numbers, for the members of a set: a set that   *)
(* is not all of them misses a smallest one.                                  *)
LEMMA NatSetInduction ==
    ASSUME NEW S \in SUBSET Nat, 0 \in S, \A n \in S : n + 1 \in S
    PROVE  \A n \in Nat : n \in S
<1> SUFFICES ASSUME NEW n \in Nat, n \notin S
             PROVE  FALSE
  OBVIOUS
<1> DEFINE T == Nat \ S
           R == OpToRel(<, Nat)
<1>1. IsWellFoundedOn(R, Nat) /\ T \subseteq Nat /\ T # {}
  BY NatLessThanWellFounded
<1>2. R = {ss \in Nat \X Nat : ss[1] < ss[2]}
  BY DEF OpToRel
<1> HIDE DEF R
<1>3. PICK x \in T : \A y \in T : <<y, x>> \notin R
  <2> HIDE DEF T
  <2> QED
    BY <1>1, WFMin
<1>4. x # 0 /\ x - 1 \in Nat /\ x - 1 \notin S
  OBVIOUS
<1>5. <<x - 1, x>> \in R
  BY <1>4, <1>2
<1> QED
  BY <1>3, <1>4, <1>5
-----------------------------------------------------------------------------
(* Sequences of sequences. *)

(* What FlattenSeq computes, after each of the first n sequences. *)
IsFlat(g, ss, n) == g = [i \in 1..n |-> IF i = 1 THEN ss[i] ELSE g[i - 1] \o ss[i]]

LEMMA ThereIsAFlat ==
    ASSUME NEW ss, NEW n \in Nat
    PROVE  \E g : IsFlat(g, ss, n)
<1> DEFINE S == {m \in Nat : \E g : IsFlat(g, ss, m)}
<1>1. 0 \in S
  <2>1. IsFlat([i \in 1..0 |-> ss[i]], ss, 0)
    BY DEF IsFlat
  <2> QED
    BY <2>1
<1>2. ASSUME NEW m \in S
      PROVE  m + 1 \in S
  <2>1. PICK g : IsFlat(g, ss, m)
    OBVIOUS
  <2> DEFINE h == [i \in 1..m + 1 |-> IF i = 1 THEN ss[i] ELSE g[i - 1] \o ss[i]]
  <2>2. ASSUME NEW i \in 1..m
        PROVE  h[i] = g[i]
    <3>1. i \in 1..m + 1
      OBVIOUS
    <3>2. g[i] = IF i = 1 THEN ss[i] ELSE g[i - 1] \o ss[i]
      BY <2>1 DEF IsFlat
    <3> QED
      BY <3>1, <3>2
  <2>3. ASSUME NEW i \in 1..m + 1
        PROVE  h[i] = IF i = 1 THEN ss[i] ELSE h[i - 1] \o ss[i]
    <3>1. CASE i = 1
      BY <3>1
    <3>2. CASE i # 1
      <4>1. i - 1 \in 1..m
        BY <3>2
      <4>2. h[i - 1] = g[i - 1]
        BY <4>1, <2>2
      <4>3. h[i] = g[i - 1] \o ss[i]
        BY <3>2
      <4> QED
        BY <3>2, <4>2, <4>3
    <3> QED
      BY <3>1, <3>2
  <2>4. h = [i \in 1..m + 1 |-> h[i]]
    OBVIOUS
  <2> HIDE DEF h
  <2>5. IsFlat(h, ss, m + 1)
    BY <2>3, <2>4 DEF IsFlat
  <2>6. m + 1 \in Nat
    OBVIOUS
  <2> QED
    BY <2>5, <2>6
<1>3. S \in SUBSET Nat
  OBVIOUS
<1> HIDE DEF S
<1>4. n \in S
  BY <1>1, <1>2, <1>3, NatSetInduction
<1> QED
  BY <1>4 DEF S

(* The first n sequences put one after another: a sequence of what they contain. *)
IsFlatOf(s, ss, n, S) == s \in Seq(S) /\ Range(s) = UNION {Range(ss[i]) : i \in 1..n}

LEMMA FlatGoesOn ==
    ASSUME NEW S, NEW ss \in Seq(Seq(S)), NEW g, IsFlat(g, ss, Len(ss))
    PROVE  \A n \in 1..Len(ss) : IsFlatOf(g[n], ss, n, S)
<1> DEFINE Good(n) == g[n] \in Seq(S) /\ Range(g[n]) = UNION {Range(ss[i]) : i \in 1..n}
           T == {m \in Nat : m + 1 <= Len(ss) => Good(m + 1)}
<1>1. \A i \in 1..Len(ss) : g[i] = IF i = 1 THEN ss[i] ELSE g[i - 1] \o ss[i]
  BY DEF IsFlat
<1>2. \A i \in 1..Len(ss) : ss[i] \in Seq(S)
  OBVIOUS
<1>3. 0 \in T
  <2> SUFFICES ASSUME 1 <= Len(ss) PROVE Good(1)
    OBVIOUS
  <2>1. g[1] = ss[1] /\ ss[1] \in Seq(S)
    BY <1>1, <1>2
  <2>2. 1..1 = {1}
    OBVIOUS
  <2> QED
    BY <2>1, <2>2
<1>4. ASSUME NEW m \in T
      PROVE  m + 1 \in T
  <2> SUFFICES ASSUME m + 1 + 1 <= Len(ss) PROVE Good(m + 1 + 1)
    OBVIOUS
  <2> DEFINE n == m + 1
  <2>1. n \in Nat /\ n >= 1 /\ n \in 1..Len(ss) /\ n + 1 \in 1..Len(ss)
    OBVIOUS
  <2>2. Good(n)
    BY <2>1
  <2> HIDE DEF n
  <2>3. g[n + 1] = g[n] \o ss[n + 1]
    <3>1. n + 1 # 1 /\ (n + 1) - 1 = n
      BY <2>1
    <3>2. g[n + 1] = IF n + 1 = 1 THEN ss[n + 1] ELSE g[(n + 1) - 1] \o ss[n + 1]
      BY <1>1, <2>1
    <3> QED
      BY <3>1, <3>2
  <2>4. ss[n + 1] \in Seq(S)
    BY <1>2, <2>1
  <2>5. Range(g[n + 1]) = Range(g[n]) \cup Range(ss[n + 1]) /\ g[n + 1] \in Seq(S)
    BY SMTT(30), <2>2, <2>3, <2>4, RangeConcatenation
  <2>6. 1..n + 1 = 1..n \cup {n + 1}
    BY <2>1
  <2>7. Range(g[n + 1]) = UNION {Range(ss[i]) : i \in 1..n + 1}
    BY ZenonT(60), <2>2, <2>5, <2>6
  <2>8. Good(n + 1)
    BY <2>5, <2>7
  <2> QED
    BY <2>8 DEF n
<1>5. T \in SUBSET Nat
  OBVIOUS
<1>6. \A m \in Nat : m \in T
  <2> HIDE DEF T
  <2> QED
    BY <1>3, <1>4, <1>5, NatSetInduction
<1>7. ASSUME NEW n \in 1..Len(ss)
      PROVE  Good(n)
  <2>1. n - 1 \in Nat /\ (n - 1) + 1 = n /\ n <= Len(ss)
    OBVIOUS
  <2> HIDE DEF Good
  <2>2. n - 1 \in T
    BY <1>6, <2>1
  <2>3. (n - 1) + 1 <= Len(ss) => Good((n - 1) + 1)
    BY <2>2
  <2> QED
    BY <2>1, <2>3
<1> QED
  BY Zenon, <1>7 DEF IsFlatOf

LEMMA FlatAtTheEnd ==
    ASSUME NEW S, NEW ss \in Seq(Seq(S)), NEW g, IsFlat(g, ss, Len(ss)), Len(ss) # 0
    PROVE  /\ g[Len(ss)] \in Seq(S)
           /\ Range(g[Len(ss)]) = UNION {Range(ss[i]) : i \in 1..Len(ss)}
<1>1. Len(ss) \in 1..Len(ss)
  OBVIOUS
<1>2. IsFlatOf(g[Len(ss)], ss, Len(ss), S)
  BY <1>1, FlatGoesOn
<1> QED
  BY <1>2 DEF IsFlatOf

LEMMA FlattenedSeq ==
    ASSUME NEW S, NEW ss \in Seq(Seq(S))
    PROVE  /\ FlattenSeq(ss) \in Seq(S)
           /\ Range(FlattenSeq(ss)) = UNION {Range(ss[i]) : i \in DOMAIN ss}
<1>1. CASE Len(ss) = 0
  <2>1. FlattenSeq(ss) = ss /\ ss = << >>
    BY <1>1 DEF FlattenSeq
  <2> QED
    BY <2>1 DEF Range
<1>2. CASE Len(ss) # 0
  <2> DEFINE flat == CHOOSE g : IsFlat(g, ss, Len(ss))
  <2>1. FlattenSeq(ss) = flat[Len(ss)]
    BY <1>2 DEF FlattenSeq, IsFlat
  <2>2. Len(ss) \in Nat /\ DOMAIN ss = 1..Len(ss) /\ Len(ss) \in 1..Len(ss)
    BY <1>2
  <2>3. IsFlat(flat, ss, Len(ss))
    BY <2>2, ThereIsAFlat
  <2> HIDE DEF flat
  <2>4. /\ flat[Len(ss)] \in Seq(S)
        /\ Range(flat[Len(ss)]) = UNION {Range(ss[i]) : i \in 1..Len(ss)}
    BY Zenon, <1>2, <2>3, FlatAtTheEnd
  <2> QED
    BY <2>1, <2>2, <2>4
<1> QED
  BY <1>1, <1>2
-----------------------------------------------------------------------------
(* The endpoints of a profile. *)

(* build_endpoints, as a set. *)
BindingOf(ecu, e) == [ecu |-> ecu.key, at |-> e, name |-> EndpointName(ecu, e)]
BindingsOf(p) == UNION {{BindingOf(ecu, e) : e \in Range(ecu.endpoints)} : ecu \in Range(p.ecus)}

(* A sequence contains its entries. *)
LEMMA Contained ==
    ASSUME NEW S, NEW s \in Seq(S)
    PROVE  Range(s) = {s[i] : i \in 1..Len(s)} /\ Range(s) \subseteq S
  BY DEF Range

(* The ECUs of a profile and their endpoints have the shape of the schema. *)
LEMMA Shapes ==
    ASSUME NEW p \in ProfileModel
    PROVE  /\ p.ecus \in Seq(EcuConfig) /\ p.kind \in Kinds
           /\ \A ecu \in Range(p.ecus) : /\ ecu \in EcuConfig /\ ecu.key \in Name /\ ecu.key \in Keys(p)
                                         /\ ecu.endpoints \in Seq(EndpointConfigModel)
                                         /\ ecu.dtcs \in Seq(DtcConfigModel)
                                         /\ ecu.events \in Seq(DtcEvent)
                                         /\ Range(ecu.endpoints) \subseteq EndpointConfigModel
<1>1. p.ecus \in Seq(EcuConfig) /\ p.kind \in Kinds
  BY DEF ProfileModel
<1>2. Range(p.ecus) \subseteq EcuConfig
  BY <1>1, Contained
<1>3. \A ecu \in Range(p.ecus) : ecu.key \in Keys(p)
  BY DEF Range, Keys
<1>4. ASSUME NEW ecu \in Range(p.ecus)
      PROVE  /\ ecu \in EcuConfig /\ ecu.key \in Name
             /\ ecu.endpoints \in Seq(EndpointConfigModel)
             /\ ecu.dtcs \in Seq(DtcConfigModel)
             /\ ecu.events \in Seq(DtcEvent)
  BY <1>2 DEF EcuConfig
<1>5. ASSUME NEW ecu \in Range(p.ecus)
      PROVE  Range(ecu.endpoints) \subseteq EndpointConfigModel
  <2>1. ecu.endpoints \in Seq(EndpointConfigModel)
    BY <1>4
  <2> QED
    BY <2>1, Contained
<1> QED
  BY <1>1, <1>3, <1>4, <1>5

LEMMA BindingsAre ==
    ASSUME NEW p \in ProfileModel
    PROVE  Bindings(p) \in Seq(BindingsOf(p)) /\ Range(Bindings(p)) = BindingsOf(p)
<1> DEFINE S  == BindingsOf(p)
           ss == [i \in DOMAIN p.ecus |->
                    [j \in DOMAIN p.ecus[i].endpoints |->
                        [ecu |-> p.ecus[i].key, at |-> p.ecus[i].endpoints[j],
                         name |-> EndpointName(p.ecus[i], p.ecus[i].endpoints[j])]]]
<1>1. p.ecus \in Seq(EcuConfig) /\ Len(p.ecus) \in Nat /\ DOMAIN p.ecus = 1..Len(p.ecus)
  BY Shapes
<1>2. ASSUME NEW i \in DOMAIN p.ecus
      PROVE  /\ ss[i] \in Seq(S)
             /\ Range(ss[i]) = {BindingOf(p.ecus[i], e) : e \in Range(p.ecus[i].endpoints)}
  <2>1. p.ecus[i] \in Range(p.ecus)
    BY DEF Range
  <2>2. p.ecus[i].endpoints \in Seq(EndpointConfigModel)
    BY <2>1, Shapes
  <2>3. Len(p.ecus[i].endpoints) \in Nat /\ DOMAIN p.ecus[i].endpoints = 1..Len(p.ecus[i].endpoints)
    BY <2>2
  <2>4. ss[i] = [j \in 1..Len(p.ecus[i].endpoints) |-> BindingOf(p.ecus[i], p.ecus[i].endpoints[j])]
    BY <2>3 DEF BindingOf
  <2> HIDE DEF ss, S
  <2> DEFINE u  == p.ecus[i]
             es == p.ecus[i].endpoints
             n  == Len(es)
             t  == [j \in 1..n |-> BindingOf(u, es[j])]
  <2>5. DOMAIN es = 1..n /\ u \in Range(p.ecus) /\ es = u.endpoints /\ n \in Nat /\ ss[i] = t
    BY <2>1, <2>3, <2>4
  <2> HIDE DEF n, es, u
  <2>6. Range(t) = {BindingOf(u, e) : e \in Range(es)}
    BY <2>5 DEF Range
  <2>7. Range(t) \subseteq S
    BY <2>5, <2>6 DEF BindingsOf, S
  <2>8. t \in [1..n -> S]
    BY <2>7 DEF Range
  <2>9. t \in Seq(S)
    BY <2>5, <2>8
  <2> HIDE DEF t
  <2> QED
    BY <2>5, <2>6, <2>9 DEF u, es
<1>3. ss \in Seq(Seq(S)) /\ DOMAIN ss = DOMAIN p.ecus
  <2>1. ss \in [1..Len(p.ecus) -> Seq(S)]
    BY <1>1, <1>2
  <2> QED
    BY <1>1, <2>1
<1>4. UNION {Range(ss[i]) : i \in DOMAIN ss} = S
  <2>1. \A i \in DOMAIN p.ecus : Range(ss[i]) = {BindingOf(p.ecus[i], e) : e \in Range(p.ecus[i].endpoints)}
    BY <1>2
  <2>2. Range(p.ecus) = {p.ecus[i] : i \in DOMAIN p.ecus}
    BY DEF Range
  <2> HIDE DEF ss, S
  <2>3. ASSUME NEW x
        PROVE  x \in UNION {Range(ss[i]) : i \in DOMAIN ss} <=> x \in S
    <3>1. x \in UNION {Range(ss[i]) : i \in DOMAIN ss} <=> \E i \in DOMAIN p.ecus : x \in Range(ss[i])
      BY <1>3
    <3>2. x \in S <=> \E i \in DOMAIN p.ecus : x \in {BindingOf(p.ecus[i], e) : e \in Range(p.ecus[i].endpoints)}
      BY <2>2 DEF S, BindingsOf
    <3> QED
      BY <2>1, <3>1, <3>2
  <2> QED
    BY <2>3
<1>5. Bindings(p) = FlattenSeq(ss)
  BY DEF Bindings
<1> HIDE DEF ss
<1> QED
  BY <1>3, <1>4, <1>5, FlattenedSeq

(* What is known of an endpoint of a profile, and of one that was accepted. *)
LEMMA BindingShape ==
    ASSUME NEW p \in ProfileModel, NEW b \in BindingsOf(p)
    PROVE  /\ b.ecu \in Keys(p) /\ b.ecu \in Name
           /\ b.at \in EndpointConfigModel /\ b.name = b.ecu \o b.at.name
           /\ \E ecu \in Range(p.ecus) : b.at \in Range(ecu.endpoints) /\ ecu.key = b.ecu
           /\ b = [ecu |-> b.ecu, at |-> b.at, name |-> b.name]
<1>1. PICK ecu \in Range(p.ecus), e \in EndpointConfigModel : b = BindingOf(ecu, e) /\ e \in Range(ecu.endpoints)
  BY Shapes DEF BindingsOf
<1>2. b.ecu = ecu.key /\ b.at = e /\ b.name = ecu.key \o e.name
  BY <1>1 DEF BindingOf, EndpointName
<1>3. b = [ecu |-> b.ecu, at |-> b.at, name |-> b.name]
  BY <1>1 DEF BindingOf
<1> QED
  BY <1>1, <1>2, <1>3, Shapes

LEMMA AcceptedShape ==
    ASSUME NEW p \in ProfileModel, Accepted(p), NEW b \in BindingsOf(p)
    PROVE  /\ b.at.rx \in 0..CanSffMax /\ b.at.protocols \in (SUBSET Protocols) \ {{}}
           /\ b.at.functional \in BOOLEAN /\ Answers(b.at) \in BOOLEAN
<1>1. PICK ecu \in Range(p.ecus) : b.at \in Range(ecu.endpoints)
  BY BindingShape
<1>2. EcuOK(ecu)
  BY <1>1 DEF Accepted, Range
<1>3. EndpointOK(b.at)
  BY <1>1, <1>2 DEF EcuOK
<1>4. b.at \in EndpointConfigModel
  BY BindingShape
<1> QED
  BY <1>3, <1>4 DEF EndpointOK, EndpointConfigModel, Answers
-----------------------------------------------------------------------------
(* Sets of numbers and of routes. *)

(* The last of some places of a sequence is one of them. *)
LEMMA LastPlace ==
    ASSUME NEW n \in Nat, NEW S \in SUBSET (1..n), S # {}
    PROVE  Max(S) \in S
<1> DEFINE T == {m \in Nat : \A Q \in SUBSET (1..m) : Q # {} => \E x \in Q : \A y \in Q : x >= y}
<1>1. 0 \in T
  <2>1. 1..0 = {}
    OBVIOUS
  <2> QED
    BY <2>1
<1>2. ASSUME NEW m \in T
      PROVE  m + 1 \in T
  <2> SUFFICES ASSUME NEW Q \in SUBSET (1..m + 1), Q # {}
               PROVE  \E x \in Q : \A y \in Q : x >= y
    OBVIOUS
  <2>1. CASE m + 1 \in Q
    BY <2>1
  <2>2. CASE m + 1 \notin Q
    <3>1. Q \in SUBSET (1..m)
      BY <2>2
    <3> QED
      BY <3>1
  <2> QED
    BY <2>1, <2>2
<1>3. T \in SUBSET Nat
  OBVIOUS
<1> HIDE DEF T
<1>4. n \in T
  BY <1>1, <1>2, <1>3, NatSetInduction
<1>5. \E x \in S : \A y \in S : x >= y
  BY <1>4 DEF T
<1> QED
  BY <1>5 DEF Max

(* A set is not larger than one exactly if its members are the same. *)
LEMMA AtMostOne ==
    ASSUME NEW S, IsFiniteSet(S)
    PROVE  ~(Cardinality(S) > 1) <=> \A a, b \in S : a = b
<1>1. ASSUME NEW a \in S, NEW b \in S, a # b
      PROVE  Cardinality(S) > 1
  <2>1. IsFiniteSet(S \ {a}) /\ Cardinality(S \ {a}) = Cardinality(S) - 1
    BY FS_RemoveElement
  <2>2. Cardinality(S \ {a}) # 0 /\ Cardinality(S \ {a}) \in Nat /\ Cardinality(S) \in Nat
    BY <1>1, <2>1, FS_EmptySet, FS_CardinalityType
  <2> QED
    BY <2>1, <2>2
<1>2. ASSUME \A a, b \in S : a = b
      PROVE  ~(Cardinality(S) > 1)
  <2>1. CASE S = {}
    BY <2>1, FS_EmptySet
  <2>2. CASE S # {}
    <3>1. PICK a : a \in S
      BY <2>2
    <3>2. S = {a}
      BY <1>2, <3>1
    <3> QED
      BY <3>2, FS_Singleton
  <2> QED
    BY <2>1, <2>2
<1> QED
  BY <1>1, <1>2

(* Some of the routes that are there, however one selects them. *)
LEMMA RoutesAt ==
    ASSUME IsFiniteSet(table), NEW address, NEW functional
    PROVE  FanOut(Resolved(address, functional))
           <=> \E q, r \in table : /\ q.address = address /\ q.functional = functional
                                   /\ r.address = address /\ r.functional = functional /\ q # r
<1>1. IsFiniteSet(Resolved(address, functional))
  BY FS_Subset DEF Resolved
<1>2. FanOut(Resolved(address, functional)) <=> \E q, r \in Resolved(address, functional) : q # r
  BY <1>1, AtMostOne DEF FanOut
<1> QED
  BY <1>2 DEF Resolved
-----------------------------------------------------------------------------
(* The start. *)

Routes ==
    [address : 0..CanSffMax, functional : BOOLEAN, ecu : Keys(profile),
     protocols : (SUBSET Protocols) \ {{}}, answers : BOOLEAN]

(* What add_physical and add_functional let into one table. *)
Compatible(routes) ==
    \A q, r \in routes : q.address = r.address =>
        q.functional = r.functional /\ (q = r \/ (r.functional /\ q.ecu # r.ecu))

(* What there is of the router at each phase of the start, and how it ends. *)
StartOK ==
    /\ profile \in Profiles /\ phase \in Phases
    /\ phase \in {"file", "refused"} => endpoints = << >>
    /\ phase \in {"file", "refused", "building"} => table = {} /\ next = 1
    /\ phase = "refused" => ~Accepted(profile)
    /\ phase \notin {"file", "refused"} => Accepted(profile) /\ endpoints = Bindings(profile)
    /\ next \in 1..Len(endpoints) + 1
    /\ phase \in {"routing", "exit2", "serving"} => Empty \notin Keys(profile)
    /\ phase = "routing" => table = {Route(endpoints[i]) : i \in 1..next - 1}
    /\ phase \in {"routing", "serving"} => Compatible(table)
    /\ phase = "raised" => Ambiguous
    /\ phase = "exit2" => ~Ambiguous /\ ~TransportAccepts(endpoints)
    /\ phase = "serving" => ~Ambiguous /\ TransportAccepts(endpoints)
    /\ phase = "serving" => /\ {Route(b) : b \in Bound} \subseteq table
                            /\ table \ LateRoutes \subseteq {Route(b) : b \in Bound}
    /\ table \subseteq Routes /\ IsFiniteSet(table)

LEMMA InitStarts == Init => StartOK
<1>1. IsFiniteSet({}) /\ Len(<< >>) = 0
  BY FS_EmptySet
<1> QED
  BY <1>1 DEF Init, StartOK, Phases

(* The endpoints are those of the profile, and have their shape. *)
LEMMA EndpointShapes ==
    ASSUME StartOK, Accepted(profile), endpoints = Bindings(profile)
    PROVE  /\ profile \in ProfileModel
           /\ Len(endpoints) \in Nat /\ DOMAIN endpoints = 1..Len(endpoints)
           /\ Bound = BindingsOf(profile)
           /\ \A i \in 1..Len(endpoints) : endpoints[i] \in Bound
           /\ \A b \in Bound : \E i \in 1..Len(endpoints) : b = endpoints[i]
           /\ \A b \in Bound : /\ Route(b) \in Routes
                               /\ Route(b).address = b.at.rx /\ Route(b).functional = b.at.functional
                               /\ Route(b).ecu = b.ecu /\ Route(b).protocols = b.at.protocols
                               /\ Route(b).answers = Answers(b.at)
                               /\ b.at.functional \in BOOLEAN
<1>1. profile \in ProfileModel
  BY DiagnosticsAssumption DEF StartOK
<1>2. endpoints \in Seq(BindingsOf(profile)) /\ Bound = BindingsOf(profile)
  BY <1>1, BindingsAre DEF Bound
<1>3. Len(endpoints) \in Nat /\ DOMAIN endpoints = 1..Len(endpoints)
  BY <1>2
<1>4. Bound = {endpoints[i] : i \in 1..Len(endpoints)}
  BY <1>3 DEF Bound, Range
<1>5. ASSUME NEW b \in Bound
      PROVE  /\ Route(b) \in Routes
             /\ Route(b).address = b.at.rx /\ Route(b).functional = b.at.functional
             /\ Route(b).ecu = b.ecu /\ Route(b).protocols = b.at.protocols
             /\ Route(b).answers = Answers(b.at)
             /\ b.at.functional \in BOOLEAN
  <2>1. /\ b.at.rx \in 0..CanSffMax /\ b.at.protocols \in (SUBSET Protocols) \ {{}}
        /\ b.at.functional \in BOOLEAN /\ Answers(b.at) \in BOOLEAN
    BY <1>1, <1>2, AcceptedShape
  <2>2. b.ecu \in Keys(profile)
    BY <1>1, <1>2, BindingShape
  <2> QED
    BY <2>1, <2>2 DEF Route, Routes
<1> QED
  BY <1>1, <1>2, <1>3, <1>4, <1>5

LEMMA LoadStarts == StartOK /\ Load => StartOK'
<1> SUFFICES ASSUME StartOK, Load
             PROVE  StartOK'
  OBVIOUS
<1>1. profile' = profile /\ next' = next /\ table' = table /\ next = 1 /\ table = {}
  BY DEF StartOK, Load
<1>2. profile \in ProfileModel
  BY DiagnosticsAssumption DEF StartOK
<1>3. Len(Bindings(profile)) \in Nat /\ Len(<< >>) = 0
  BY <1>2, BindingsAre
<1>4. Routes' = Routes
  BY <1>1 DEF Routes
<1>5. CASE Accepted(profile)
  BY <1>1, <1>3, <1>4, <1>5 DEF StartOK, Load, Phases
<1>6. CASE ~Accepted(profile)
  BY <1>1, <1>3, <1>4, <1>6 DEF StartOK, Load, Phases
<1> QED
  BY <1>5, <1>6

LEMMA BuildStarts == StartOK /\ BuildEcus => StartOK'
<1> SUFFICES ASSUME StartOK, BuildEcus
             PROVE  StartOK'
  OBVIOUS
<1>1. /\ profile' = profile /\ next' = next /\ table' = table /\ endpoints' = endpoints
      /\ next = 1 /\ table = {} /\ phase = "building"
      /\ phase' = IF Empty \in Keys(profile) THEN "raised" ELSE "routing"
  BY DEF StartOK, BuildEcus
<1>2. Routes' = Routes
  BY <1>1 DEF Routes
<1>3. Empty \in Keys(profile) => Ambiguous'
  BY <1>1 DEF Ambiguous
<1>4. {Route(endpoints[i]) : i \in 1..next - 1} = {} /\ {Route(endpoints[i]) : i \in 1..next - 1}' = {}
  <2>1. 1..next - 1 = {} /\ 1..next' - 1 = {}
    BY <1>1
  <2> QED
    BY <2>1
<1>5. Compatible({})
  BY DEF Compatible
<1> QED
  BY <1>1, <1>2, <1>3, <1>4, <1>5 DEF StartOK, Phases

(* One more route: a conflict is an ambiguity of the profile, and without one *)
(* the router takes it.                                                       *)
LEMMA AddStarts == StartOK /\ AddRoute => StartOK'
<1> SUFFICES ASSUME StartOK, AddRoute
             PROVE  StartOK'
  OBVIOUS
<1> DEFINE r == Route(endpoints[next])
<1>1. /\ profile' = profile /\ endpoints' = endpoints /\ phase = "routing" /\ next <= Len(endpoints)
      /\ Accepted(profile) /\ endpoints = Bindings(profile)
      /\ table = {Route(endpoints[i]) : i \in 1..next - 1} /\ Compatible(table)
      /\ next \in 1..Len(endpoints) + 1
      /\ table \subseteq Routes /\ IsFiniteSet(table)
  BY DEF StartOK, AddRoute
<1>2. Routes' = Routes /\ (Ambiguous' <=> Ambiguous)
  BY <1>1 DEF Routes, Ambiguous, Bound, Route
<1>3. Len(endpoints) \in Nat /\ next \in 1..Len(endpoints) /\ \A i \in 1..next - 1 : i \in 1..Len(endpoints)
  <2>1. Len(endpoints) \in Nat
    BY <1>1, EndpointShapes
  <2> QED
    BY <1>1, <2>1
<1>4. \A i \in 1..Len(endpoints) :
         /\ endpoints[i] \in Bound /\ Route(endpoints[i]) \in Routes
         /\ Route(endpoints[i]).address = endpoints[i].at.rx
  BY <1>1, EndpointShapes
<1>5. CASE Conflict(r)
  <2>1. /\ phase' = "raised" /\ UNCHANGED <<table, next>>
    BY <1>5 DEF AddRoute
  <2>2. PICK q \in table : q.address = r.address /\ q # r
    BY <1>5 DEF Conflict
  <2>3. PICK i \in 1..next - 1 : q = Route(endpoints[i])
    BY <1>1, <2>2
  <2>4. Ambiguous
    BY <1>3, <1>4, <2>2, <2>3 DEF Ambiguous
  <2> QED
    BY <1>1, <1>2, <2>1, <2>4 DEF StartOK, Phases
<1>6. CASE ~Conflict(r)
  <2>1. /\ phase' = "routing" /\ table' = table \cup {r} /\ next' = next + 1
    BY <1>1, <1>6 DEF AddRoute
  <2>2. r \in Routes /\ IsFiniteSet(table')
    BY <1>1, <1>3, <1>4, <2>1, FS_AddElement
  <2>3. \A q \in table : q.address = r.address =>
            q.functional = r.functional /\ (q = r \/ (r.functional /\ q.ecu # r.ecu))
    BY <1>6 DEF Conflict
  <2>4. Compatible(table')
    BY <1>1, <2>1, <2>3 DEF Compatible
  <2>5. table' = {Route(endpoints[i]) : i \in 1..next' - 1}
    <3>1. 1..next' - 1 = (1..next - 1) \cup {next}
      BY <1>3, <2>1
    <3> QED
      BY <1>1, <2>1, <3>1
  <2>6. {Route(endpoints[i]) : i \in 1..next - 1}' = {Route(endpoints[i]) : i \in 1..next' - 1}
    BY <1>1 DEF Route
  <2>7. Compatible(table)'
    BY <2>4 DEF Compatible
  <2>8. next' \in 1..Len(endpoints) + 1
    BY <1>3, <2>1
  <2> QED
    BY <1>1, <1>2, <2>1, <2>2, <2>5, <2>6, <2>7, <2>8 DEF StartOK, Phases
<1> QED
  BY <1>5, <1>6

(* When every endpoint has its route, the dispatcher refuses exactly the       *)
(* functional addresses of several routes, and check_routes has nothing left   *)
(* to refuse.                                                                  *)
LEMMA AllRoutesAreThere ==
    ASSUME StartOK, phase = "routing", next > Len(endpoints)
    PROVE  /\ table = {Route(b) : b \in Bound}
           /\ ~CheckRoutesRaises
           /\ DispatcherRaises <=> Ambiguous
<1>1. /\ Accepted(profile) /\ endpoints = Bindings(profile) /\ Empty \notin Keys(profile)
      /\ table = {Route(endpoints[i]) : i \in 1..next - 1} /\ Compatible(table)
      /\ next \in 1..Len(endpoints) + 1 /\ IsFiniteSet(table) /\ table \subseteq Routes
  BY DEF StartOK
<1>2. /\ Len(endpoints) \in Nat /\ DOMAIN endpoints = 1..Len(endpoints)
      /\ \A i \in 1..Len(endpoints) : endpoints[i] \in Bound
      /\ \A b \in Bound : \E i \in 1..Len(endpoints) : b = endpoints[i]
  BY <1>1, EndpointShapes
<1>3. \A b \in Bound : /\ Route(b).address = b.at.rx /\ Route(b).functional = b.at.functional
                       /\ Route(b).ecu = b.ecu /\ Route(b).protocols = b.at.protocols
                       /\ b.at.functional \in BOOLEAN
  BY <1>1, EndpointShapes
<1>4. next - 1 = Len(endpoints)
  BY <1>1, <1>2
<1>5. table = {Route(b) : b \in Bound}
  BY <1>1, <1>2, <1>4
<1>6. ~CheckRoutesRaises
  <2> DEFINE at(a)     == {i \in DOMAIN endpoints : endpoints[i].at.rx = a}
             listens   == {b.at.rx : b \in Range(endpoints)}
             listening == [a \in listens |-> endpoints[Max(at(a))].at.functional]
             routed    == {r.address : r \in table}
  <2>1. listens = routed
    BY <1>3, <1>5 DEF Bound
  <2>2. ASSUME NEW a \in listens
        PROVE  (Resolved(a, TRUE) # {}) = listening[a]
    <3>1. at(a) \in SUBSET (1..Len(endpoints))
      BY <1>2
    <3>2. at(a) # {}
      <4>1. PICK b \in Bound : b.at.rx = a
        BY DEF Bound
      <4> QED
        BY <1>2, <4>1
    <3>3. Max(at(a)) \in at(a)
      <4> HIDE DEF at
      <4> QED
        BY <1>2, <3>1, <3>2, LastPlace
    <3>4. PICK i \in 1..Len(endpoints) : i = Max(at(a)) /\ endpoints[i].at.rx = a
      BY <1>2, <3>3
    <3>5. listening[a] = endpoints[i].at.functional
      BY <3>4
    <3>6. endpoints[i] \in Bound /\ Route(endpoints[i]) \in table
      BY <1>2, <1>5
    <3>7. /\ Route(endpoints[i]).address = a /\ Route(endpoints[i]).functional = endpoints[i].at.functional
          /\ endpoints[i].at.functional \in BOOLEAN
      BY <1>3, <3>4, <3>6
    <3>8. \A q \in table : q.address = a => q.functional = endpoints[i].at.functional
      BY <1>1, <3>6, <3>7 DEF Compatible
    <3>9. Resolved(a, TRUE) # {} <=> endpoints[i].at.functional
      BY <3>6, <3>7, <3>8 DEF Resolved
    <3> QED
      BY <3>5, <3>7, <3>9
  <2> QED
    BY <2>1, <2>2 DEF CheckRoutesRaises
<1>7. DispatcherRaises <=> \E r \in table : FanOut(Resolved(r.address, TRUE))
  <2>1. RoutedEcus \subseteq Keys(profile)
    BY <1>1 DEF Routes, RoutedEcus
  <2>2. ASSUME NEW b \in Bound
        PROVE  Route(b).protocols \subseteq Served(Route(b).ecu)
    BY <1>3 DEF Served, Bound
  <2> QED
    BY <1>5, <2>1, <2>2 DEF DispatcherRaises
<1>8. \A a : FanOut(Resolved(a, TRUE))
             <=> \E q, r \in table : /\ q.address = a /\ q.functional = TRUE
                                       /\ r.address = a /\ r.functional = TRUE /\ q # r
  <2> SUFFICES ASSUME NEW a
               PROVE  FanOut(Resolved(a, TRUE))
                      <=> \E q, r \in table : /\ q.address = a /\ q.functional = TRUE
                                             /\ r.address = a /\ r.functional = TRUE /\ q # r
    OBVIOUS
  <2>1. IsFiniteSet(table)
    BY <1>1
  <2> DEFINE yes == TRUE
  <2> HIDE DEF yes
  <2>2. FanOut(Resolved(a, yes)) <=> \E q, r \in table : /\ q.address = a /\ q.functional = yes
                                                       /\ r.address = a /\ r.functional = yes /\ q # r
    BY <2>1, RoutesAt
  <2> QED
    BY <2>2 DEF yes
<1>9. ASSUME NEW b \in Bound, NEW c \in Bound, b.at.rx = c.at.rx, Route(b) # Route(c)
      PROVE  FanOut(Resolved(Route(b).address, TRUE))
  <2>1. Route(b) \in table /\ Route(c) \in table /\ Route(b).address = Route(c).address
    BY <1>3, <1>5, <1>9
  <2>2. Route(b).functional = Route(c).functional /\ Route(b).functional
    BY <1>1, <1>9, <2>1 DEF Compatible
  <2>3. Route(b).functional = TRUE /\ Route(c).functional = TRUE
    BY <1>3, <2>2
  <2> QED
    BY <1>8, <1>9, <2>1, <2>3
<1>10. ASSUME NEW r \in table, FanOut(Resolved(r.address, TRUE))
       PROVE  \E b, c \in Bound : b.at.rx = c.at.rx /\ Route(b) # Route(c)
  <2>1. PICK q \in table, s \in table : q.address = r.address /\ s.address = r.address /\ q # s
    BY <1>8, <1>10
  <2> QED
    BY <1>3, <1>5, <2>1
<1>11. Ambiguous <=> \E b, c \in Bound : b.at.rx = c.at.rx /\ Route(b) # Route(c)
  BY <1>1 DEF Ambiguous
<1>12. DispatcherRaises <=> Ambiguous
  <2>1. ASSUME Ambiguous PROVE DispatcherRaises
    <3>1. PICK b \in Bound, c \in Bound : b.at.rx = c.at.rx /\ Route(b) # Route(c)
      BY <1>11, <2>1
    <3>2. FanOut(Resolved(Route(b).address, TRUE))
      BY <1>9, <3>1
    <3> QED
      BY <1>5, <1>7, <3>2
  <2>2. ASSUME DispatcherRaises PROVE Ambiguous
    BY <1>7, <1>10, <1>11, <2>2
  <2> QED
    BY <2>1, <2>2
<1> QED
  BY <1>5, <1>6, <1>12

LEMMA AssembleStarts == StartOK /\ Assemble => StartOK'
<1> SUFFICES ASSUME StartOK, Assemble
             PROVE  StartOK'
  OBVIOUS
<1>1. /\ phase = "routing" /\ next > Len(endpoints)
      /\ UNCHANGED <<profile, endpoints, next, table>>
      /\ phase' = IF DispatcherRaises \/ CheckRoutesRaises THEN "raised"
                  ELSE IF TransportAccepts(endpoints) THEN "serving" ELSE "exit2"
  BY DEF Assemble
<1>2. /\ table = {Route(b) : b \in Bound} /\ ~CheckRoutesRaises /\ (DispatcherRaises <=> Ambiguous)
  BY <1>1, AllRoutesAreThere
<1>3. /\ Routes' = Routes /\ (Ambiguous' <=> Ambiguous) /\ Bound' = Bound
      /\ {Route(b) : b \in Bound}' = {Route(b) : b \in Bound}
  BY <1>1 DEF Routes, Ambiguous, Bound, Route
<1>4. (Empty \notin Keys(profile))' <=> Empty \notin Keys(profile)
  BY <1>1
<1> QED
  BY <1>1, <1>2, <1>3, <1>4 DEF StartOK, Phases

(* The requests, the scenario and the rest of the start leave all that alone. *)
LEMMA KeptStarts ==
    StartOK /\ UNCHANGED <<profile, phase, endpoints, next, table>> => StartOK'
<1> SUFFICES ASSUME StartOK, UNCHANGED <<profile, phase, endpoints, next, table>>
             PROVE  StartOK'
  OBVIOUS
<1>1. /\ Routes' = Routes /\ (Ambiguous' <=> Ambiguous) /\ Bound' = Bound
      /\ {Route(b) : b \in Bound}' = {Route(b) : b \in Bound}
      /\ {Route(endpoints[i]) : i \in 1..next - 1}' = {Route(endpoints[i]) : i \in 1..next - 1}
      /\ (Compatible(table)' <=> Compatible(table))
  BY DEF Routes, Ambiguous, Bound, Route, Compatible
<1> QED
  BY <1>1 DEF StartOK

LEMMA LateRouteStarts ==
    ASSUME StartOK, NEW r \in LateRoutes, LateRoute(r)
    PROVE  StartOK'
<1>1. /\ phase = "serving" /\ table' = table \cup {r} /\ UNCHANGED <<profile, phase, endpoints, next>>
      /\ r.ecu \in Keys(profile) /\ r.protocols # {}
  BY DEF LateRoute, RouteOK
<1>2. r \in Routes
  BY <1>1, DiagnosticsAssumption DEF Routes
<1>3. IsFiniteSet(table')
  BY <1>1, FS_AddElement DEF StartOK
<1>4. /\ Routes' = Routes /\ (Ambiguous' <=> Ambiguous) /\ Bound' = Bound
      /\ {Route(b) : b \in Bound}' = {Route(b) : b \in Bound}
  BY <1>1 DEF Routes, Ambiguous, Bound, Route
<1>5. table' \subseteq Routes
  BY <1>1, <1>2 DEF StartOK
<1>6. /\ {Route(b) : b \in Bound} \subseteq table' /\ table' \ LateRoutes \subseteq {Route(b) : b \in Bound}
  BY <1>1 DEF StartOK
<1>7. Compatible(table)'
  <2>1. \A q \in table : q.address = r.address =>
            q.functional = r.functional /\ (q = r \/ (r.functional /\ q.ecu # r.ecu))
    BY DEF LateRoute, Conflict
  <2>2. Compatible(table)
    BY <1>1 DEF StartOK
  <2> QED
    BY <1>1, <2>1, <2>2 DEF Compatible
<1> QED
  BY <1>1, <1>3, <1>4, <1>5, <1>6, <1>7 DEF StartOK, Phases

LEMMA StartStaysOK == StartOK /\ [Next]_vars => StartOK'
<1> SUFFICES ASSUME StartOK, [Next]_vars
             PROVE  StartOK'
  OBVIOUS
<1>1. CASE Startup
  <2>1. CASE Load
    BY <2>1, LoadStarts
  <2>2. CASE BuildEcus
    BY <2>2, BuildStarts
  <2>3. CASE AddRoute
    BY <2>3, AddStarts
  <2>4. CASE Assemble
    BY <2>4, AssembleStarts
  <2> QED
    BY <1>1, <2>1, <2>2, <2>3, <2>4 DEF Startup
<1>2. CASE Traffic
  <2>1. CASE \E b \in Range(endpoints), p \in Payloads : Request(b, p)
    <3>1. UNCHANGED <<profile, phase, endpoints, next, table>>
      BY <2>1 DEF Request
    <3> QED
      BY <3>1, KeptStarts
  <2>2. CASE \E e \in DOMAIN stores : \E event \in Range(EcuOf(profile, e).events) : ScenarioEvent(e, event)
    <3>1. UNCHANGED <<profile, phase, endpoints, next, table>>
      BY <2>2 DEF ScenarioEvent
    <3> QED
      BY <3>1, KeptStarts
  <2>3. CASE \E r \in LateRoutes : LateRoute(r)
    BY <2>3, LateRouteStarts
  <2> QED
    BY <1>2, <2>1, <2>2, <2>3 DEF Traffic
<1>3. CASE UNCHANGED vars
  BY <1>3, KeptStarts DEF vars
<1> QED
  BY <1>1, <1>2, <1>3 DEF Next

LEMMA StartsOK == Spec => []StartOK
<1> QED
  BY InitStarts, StartStaysOK, PTL DEF Spec

(* The start ends with an exception exactly for the accepted profiles that   *)
(* are ambiguous - an ECU without a name, or two endpoints on one address    *)
(* that stand for different routes -, whatever the order of the file, and    *)
(* the others are served or exit with status 2 by what the transport says    *)
(* of their names and address pairs: build_router, Dispatcher.__init__ and   *)
(* check_routes together refuse neither more nor less.                       *)
THEOREM TheStartRefusesAmbiguity == Spec => []StartsIffUnambiguous
<1>1. StartOK => StartsIffUnambiguous
  BY DEF StartOK, StartsIffUnambiguous
<1> QED
  BY <1>1, StartsOK, PTL
-----------------------------------------------------------------------------
(* The trouble codes. *)

(* What the scenario and a clear make of a store keeps its shape. *)
LEMMA StoresKeepTheirShape ==
    ASSUME NEW store \in Seq(DtcConfigModel), NEW code, NEW flag \in Flags
    PROVE  /\ Cleared(store) \in Seq(DtcConfigModel)
           /\ ClearedCode(store, code) \in Seq(DtcConfigModel)
           /\ Raised(store, code, flag) \in Seq(DtcConfigModel)
<1> DEFINE n == Len(store)
<1>1. n \in Nat /\ DOMAIN store = 1..n /\ \A i \in 1..n : store[i] \in DtcConfigModel
  OBVIOUS
<1> HIDE DEF n
<1>2. ASSUME NEW i \in 1..n
      PROVE  /\ [store[i] EXCEPT !.flags = {}] \in DtcConfigModel
             /\ [store[i] EXCEPT !.flags = @ \cup {flag}] \in DtcConfigModel
  <2>1. store[i] \in DtcConfigModel
    BY <1>1
  <2> QED
    BY <2>1 DEF DtcConfigModel
<1>3. Cleared(store) \in [1..n -> DtcConfigModel]
  BY <1>1, <1>2 DEF Cleared
<1>4. ClearedCode(store, code) \in [1..n -> DtcConfigModel]
  BY <1>1, <1>2 DEF ClearedCode
<1>5. Raised(store, code, flag) \in [1..n -> DtcConfigModel]
  BY <1>1, <1>2 DEF Raised
<1> QED
  BY <1>1, <1>3, <1>4, <1>5

(* The configuration of an ECU that the profile has. *)
LEMMA ConfiguredEcu ==
    ASSUME NEW p \in ProfileModel, NEW key \in Keys(p)
    PROVE  EcuOf(p, key) \in Range(p.ecus) /\ EcuOf(p, key).key = key
<1>1. \E ecu \in Range(p.ecus) : ecu.key = key
  BY DEF Keys, Range
<1> QED
  BY <1>1 DEF EcuOf

LEMMA StoreShape ==
    ASSUME NEW p \in ProfileModel, NEW key \in Keys(p)
    PROVE  Store(p, key) \in Seq(DtcConfigModel)
<1>1. EcuOf(p, key).dtcs \in Seq(DtcConfigModel)
  BY ConfiguredEcu, Shapes
<1> QED
  BY <1>1 DEF Store

(* Every action of an event leaves a store. *)
LEMMA AfterEventShape ==
    ASSUME NEW store \in Seq(DtcConfigModel), NEW event \in DtcEvent
    PROVE  AfterEvent(store, event) \in Seq(DtcConfigModel)
<1>1. event.action \in {"raise_pending", "raise_confirmed", "request_indicator", "clear_code", "clear_all"}
  BY DEF DtcEvent
<1>2. {"pending", "confirmed", "indicator_requested"} \subseteq Flags
  BY DEF Flags
<1>3. /\ Cleared(store) \in Seq(DtcConfigModel)
      /\ ClearedCode(store, event.code) \in Seq(DtcConfigModel)
      /\ Raised(store, event.code, "pending") \in Seq(DtcConfigModel)
      /\ Raised(store, event.code, "confirmed") \in Seq(DtcConfigModel)
      /\ Raised(store, event.code, "indicator_requested") \in Seq(DtcConfigModel)
  BY <1>2, StoresKeepTheirShape
<1> QED
  BY <1>1, <1>3 DEF AfterEvent

(* The stores, the values, and the exchange that is remembered. *)
StateOK ==
    /\ DOMAIN stores \subseteq Keys(profile)
    /\ phase \in {"routing", "serving"} => DOMAIN stores = Keys(profile)
    /\ \A e \in DOMAIN stores : stores[e] \in Seq(DtcConfigModel)
    /\ DOMAIN values \in {{}, Signals(profile.kind)}
    /\ phase # "serving" => exchange = NoExchange
    /\ exchange.ecu \in Keys(profile) \cup {Nobody}
    /\ exchange.outcome \in {"none", "unrouted", "raised", "handled"}

LEMMA InitState == Init => StateOK
  BY DEF Init, StateOK, NoExchange

LEMMA StateStaysOK == StartOK /\ StateOK /\ [Next]_vars => StateOK'
<1> SUFFICES ASSUME StartOK, StateOK, [Next]_vars
             PROVE  StateOK'
  OBVIOUS
<1>1. profile \in ProfileModel /\ profile.kind \in Kinds
  BY DiagnosticsAssumption, Shapes DEF StartOK
<1>2. CASE Load
  BY <1>2 DEF Load, StateOK
<1>3. CASE BuildEcus
  <2>1. \A e \in Keys(profile) : Store(profile, e) \in Seq(DtcConfigModel)
    BY <1>1, StoreShape
  <2>2. DOMAIN Values[profile.kind] = Signals(profile.kind)
    BY <1>1, DiagnosticsAssumption
  <2>3. CASE Empty \in Keys(profile)
    BY <1>3, <2>2, <2>3 DEF BuildEcus, StateOK
  <2>4. CASE Empty \notin Keys(profile)
    BY <1>3, <2>1, <2>2, <2>4 DEF BuildEcus, StateOK
  <2> QED
    BY <2>3, <2>4
<1>4. CASE AddRoute
  BY <1>4 DEF AddRoute, StateOK
<1>5. CASE Assemble
  BY <1>5 DEF Assemble, StateOK
<1>6. ASSUME NEW b \in Range(endpoints), NEW p \in Payloads, Request(b, p)
      PROVE  StateOK'
  <2>1. phase = "serving" /\ UNCHANGED <<profile, phase, endpoints, next, table, values>>
    BY <1>6 DEF Request
  <2> DEFINE routes == Resolved(b.at.rx, b.at.functional)
  <2>2. CASE routes = {} \/ FanOut(routes)
    <3>1. /\ exchange' = [NoExchange EXCEPT !.at = b.name, !.payload = p,
                                            !.outcome = IF routes = {} THEN "unrouted" ELSE "raised"]
          /\ stores' = stores
      BY <1>6, <2>2 DEF Request
    <3>2. exchange'.ecu = Nobody /\ exchange'.outcome \in {"unrouted", "raised"}
      BY <3>1 DEF NoExchange
    <3> QED
      BY <2>1, <3>1, <3>2 DEF StateOK
  <2>3. CASE ~(routes = {} \/ FanOut(routes))
    <3>1. PICK r \in routes :
             /\ exchange' = [at |-> b.name, ecu |-> r.ecu, payload |-> p, reply |-> Reply(r, p), outcome |-> "handled"]
             /\ stores' = AfterRequest(r, p)
      BY <1>6, <2>3 DEF Request
    <3>2. r \in Routes
      BY DEF Resolved, StartOK
    <3>3. r.ecu \in Keys(profile)
      BY <3>2 DEF Routes
    <3>4. exchange'.ecu = r.ecu /\ exchange'.outcome = "handled"
      BY <3>1
    <3>5. DOMAIN stores' = DOMAIN stores
      BY <3>1 DEF AfterRequest
    <3>6. ASSUME NEW e \in DOMAIN stores
          PROVE  stores'[e] \in Seq(DtcConfigModel)
      <4>1. stores'[e] = IF e = r.ecu /\ ClearsCodes(r, p) THEN Cleared(stores[e]) ELSE stores[e]
        BY <3>1 DEF AfterRequest
      <4>2. stores[e] \in Seq(DtcConfigModel)
        BY DEF StateOK
      <4>3. "pending" \in Flags
        BY DEF Flags
      <4>4. Cleared(stores[e]) \in Seq(DtcConfigModel)
        BY <4>2, <4>3, StoresKeepTheirShape
      <4> QED
        BY <4>1, <4>2, <4>4
    <3> QED
      BY <2>1, <3>3, <3>4, <3>5, <3>6 DEF StateOK
  <2> QED
    BY <2>2, <2>3
<1>7. ASSUME NEW e \in DOMAIN stores, NEW event \in Range(EcuOf(profile, e).events), ScenarioEvent(e, event)
      PROVE  StateOK'
  <2>1. /\ phase = "serving" /\ stores' = [stores EXCEPT ![e] = AfterEvent(@, event)] /\ exchange' = NoExchange
        /\ UNCHANGED <<profile, phase, endpoints, next, table, values>>
    BY <1>7 DEF ScenarioEvent
  <2>2. e \in Keys(profile) /\ stores[e] \in Seq(DtcConfigModel)
    BY DEF StateOK
  <2>3. EcuOf(profile, e).events \in Seq(DtcEvent)
    BY <1>1, <2>2, ConfiguredEcu, Shapes
  <2>4. event \in DtcEvent
    BY <2>3, Contained
  <2>5. AfterEvent(stores[e], event) \in Seq(DtcConfigModel)
    BY <2>2, <2>4, AfterEventShape
  <2>6. /\ DOMAIN stores' = DOMAIN stores
        /\ \A f \in DOMAIN stores : stores'[f] \in Seq(DtcConfigModel)
    BY <2>1, <2>5 DEF StateOK
  <2>7. exchange'.ecu = Nobody /\ exchange'.outcome = "none"
    BY <2>1 DEF NoExchange
  <2> QED
    BY <2>1, <2>6, <2>7 DEF StateOK
<1>8. ASSUME NEW r \in LateRoutes, LateRoute(r)
      PROVE  StateOK'
  BY <1>8 DEF LateRoute, StateOK
<1>9. CASE UNCHANGED vars
  BY <1>9 DEF vars, StateOK
<1> QED
  BY <1>2, <1>3, <1>4, <1>5, <1>6, <1>7, <1>8, <1>9 DEF Next, Startup, Traffic

LEMMA StatesOK == Spec => [](StartOK /\ StateOK)
<1> QED
  BY InitStarts, StartStaysOK, InitState, StateStaysOK, PTL DEF Spec
-----------------------------------------------------------------------------
(* The names of the endpoints. *)

(* A prefix, entry by entry. *)
LEMMA PrefixEntries ==
    ASSUME NEW S, NEW s \in Seq(S), NEW t \in Seq(S)
    PROVE  IsPrefix(s, t) <=> Len(s) <= Len(t) /\ \A i \in 1..Len(s) : s[i] = t[i]
<1>1. Len(s) \in Nat /\ Len(t) \in Nat
  OBVIOUS
<1>2. SubSeq(s, 1, Len(s)) = s
  BY SubSeqFull
<1>3. ASSUME Len(s) <= Len(t)
      PROVE  SubSeq(t, 1, Len(s)) \in Seq(S) /\ Len(SubSeq(t, 1, Len(s))) = Len(s)
             /\ \A i \in 1..Len(s) : SubSeq(t, 1, Len(s))[i] = t[i]
  BY <1>1, <1>3
<1>4. ASSUME Len(s) <= Len(t)
      PROVE  s = SubSeq(t, 1, Len(s)) <=> \A i \in 1..Len(s) : s[i] = t[i]
  <2> DEFINE u == SubSeq(t, 1, Len(s))
  <2>1. u \in Seq(S) /\ Len(u) = Len(s) /\ \A i \in 1..Len(s) : u[i] = t[i]
    BY <1>3, <1>4
  <2> HIDE DEF u
  <2>2. (\A i \in 1..Len(s) : s[i] = u[i]) => s = u
    BY <2>1, SeqEqual
  <2>3. s = u <=> \A i \in 1..Len(s) : s[i] = t[i]
    BY <2>1, <2>2
  <2> QED
    BY <2>3 DEF u
<1> QED
  BY <1>2, <1>4 DEF IsPrefix

(* Whatever is a prefix of a name that continues a key, is a prefix of the key *)
(* or continues it itself.                                                     *)
LEMMA PrefixOfAName ==
    ASSUME NEW S, NEW key \in Seq(S), NEW ecu \in Seq(S), NEW own \in Seq(S)
    PROVE  /\ IsPrefix(ecu, ecu \o own)
           /\ IsPrefix(key, ecu \o own) => IsPrefix(key, ecu) \/ IsPrefix(ecu, key)
<1> DEFINE name == ecu \o own
<1>1. /\ name \in Seq(S) /\ Len(name) = Len(ecu) + Len(own)
      /\ \A i \in 1..Len(ecu) : name[i] = ecu[i]
  OBVIOUS
<1>2. Len(ecu) \in Nat /\ Len(key) \in Nat /\ Len(own) \in Nat
  OBVIOUS
<1> HIDE DEF name
<1>3. IsPrefix(ecu, name) <=> Len(ecu) <= Len(name) /\ \A i \in 1..Len(ecu) : ecu[i] = name[i]
  BY <1>1, PrefixEntries
<1>4. IsPrefix(key, name) <=> Len(key) <= Len(name) /\ \A i \in 1..Len(key) : key[i] = name[i]
  BY <1>1, PrefixEntries
<1>5. IsPrefix(key, ecu) <=> Len(key) <= Len(ecu) /\ \A i \in 1..Len(key) : key[i] = ecu[i]
  BY PrefixEntries
<1>6. IsPrefix(ecu, key) <=> Len(ecu) <= Len(key) /\ \A i \in 1..Len(ecu) : ecu[i] = key[i]
  BY PrefixEntries
<1>7. IsPrefix(ecu, name)
  BY <1>1, <1>2, <1>3
<1>8. ASSUME IsPrefix(key, name)
      PROVE  IsPrefix(key, ecu) \/ IsPrefix(ecu, key)
  <2>1. CASE Len(key) <= Len(ecu)
    <3>1. \A i \in 1..Len(key) : i \in 1..Len(ecu)
      BY <1>2, <2>1
    <3> QED
      BY <1>1, <1>4, <1>5, <1>8, <2>1, <3>1
  <2>2. CASE ~(Len(key) <= Len(ecu))
    <3>1. Len(ecu) <= Len(key) /\ \A i \in 1..Len(ecu) : i \in 1..Len(key)
      BY <1>2, <2>2
    <3> QED
      BY <1>1, <1>4, <1>6, <1>8, <3>1
  <2> QED
    BY <2>1, <2>2
<1> QED
  BY <1>7, <1>8 DEF name

LEMMA TypesOK == StartOK /\ StateOK => TypeOK
<1> SUFFICES ASSUME StartOK, StateOK
             PROVE  TypeOK
  OBVIOUS
<1> profile \in ProfileModel
  BY DiagnosticsAssumption DEF StartOK
<1>1. Range(endpoints) \subseteq Range(Bindings(profile))
  <2>1. CASE phase \in {"file", "refused"}
    <3>1. endpoints = << >>
      BY <2>1 DEF StartOK
    <3> QED
      BY <3>1 DEF Range
  <2>2. CASE phase \notin {"file", "refused"}
    BY <2>2 DEF StartOK
  <2> QED
    BY <2>1, <2>2
<1>2. \A r \in table : /\ r.address \in 0..CanSffMax /\ {r.functional, r.answers} \subseteq BOOLEAN
                       /\ r.ecu \in Keys(profile) /\ r.protocols \in (SUBSET Protocols) \ {{}}
  BY DEF StartOK, Routes
<1>3. ASSUME NEW e \in DOMAIN stores, NEW s \in Range(stores[e])
      PROVE  s.flags \subseteq Flags
  <2>1. stores[e] \in Seq(DtcConfigModel)
    BY DEF StateOK
  <2>2. s \in DtcConfigModel
    BY <2>1, Contained
  <2> QED
    BY <2>2 DEF DtcConfigModel
<1> QED
  BY <1>1, <1>2, <1>3 DEF StartOK, StateOK, TypeOK

LEMMA AgreementOK == StartOK => EndpointsAgree
<1> SUFFICES ASSUME StartOK, phase = "serving"
             PROVE  EndpointsAgree
  BY DEF EndpointsAgree
<1>1. Accepted(profile) /\ endpoints = Bindings(profile)
  BY DEF StartOK
<1>2. profile \in ProfileModel /\ Bound = BindingsOf(profile)
  BY <1>1, EndpointShapes
<1>3. /\ \A b \in Bound : Route(b) \in table
      /\ table \ LateRoutes \subseteq {Route(b) : b \in Bound}
  BY DEF StartOK
<1>4. \A k \in Keys(profile) : k \in Name
  <2>1. ASSUME NEW k \in Keys(profile)
        PROVE  k \in Name
    BY <1>2, ConfiguredEcu, Shapes
  <2> QED
    BY <2>1
<1>5. ASSUME NEW b \in Bound
      PROVE  /\ b.ecu \in Seq(STRING) /\ b.at.name \in Seq(STRING) /\ b.at.name # << >>
             /\ b.name = b.ecu \o b.at.name
  <2>1. b.ecu \in Name /\ b.at \in EndpointConfigModel /\ b.name = b.ecu \o b.at.name
    BY <1>2, BindingShape
  <2> QED
    BY <2>1 DEF Name, EndpointConfigModel
<1>6. ASSUME NEW key \in Keys(profile), NEW b \in Bound, b.ecu = key
      PROVE  b \in Listed(key)
  <2>1. b.ecu \in Seq(STRING) /\ b.at.name \in Seq(STRING) /\ b.at.name # << >> /\ b.name = b.ecu \o b.at.name
    BY <1>5
  <2>2. IsPrefix(key, b.name)
    BY <1>6, <2>1, PrefixOfAName
  <2>3. Len(b.name) > Len(key)
    BY <1>6, <2>1
  <2> QED
    BY <2>2, <2>3 DEF Listed
<1>7. ASSUME NEW key \in Keys(profile), NEW b \in Listed(key)
      PROVE  IsPrefix(key, b.ecu) \/ IsPrefix(b.ecu, key)
  <2>1. b \in Bound /\ IsPrefix(key, b.name) /\ key \in Seq(STRING)
    BY <1>4 DEF Listed, Name
  <2>2. b.ecu \in Seq(STRING) /\ b.at.name \in Seq(STRING) /\ b.name = b.ecu \o b.at.name
    BY <1>5, <2>1
  <2> QED
    BY <2>1, <2>2, PrefixOfAName
<1> QED
  BY <1>3, <1>6, <1>7 DEF EndpointsAgree

(* With the types: in a simulator that serves, the sockets, the router and GET *)
(* /ecus agree on the endpoints, and nothing but the routes added later        *)
(* separates them.                                                             *)
THEOREM WhatIsServedFitsTogether == Spec => []DiagnosticsInv
<1>1. StartOK /\ StateOK => DiagnosticsInv
  BY TypesOK, AgreementOK DEF DiagnosticsInv
<1> QED
  BY <1>1, StatesOK, PTL
-----------------------------------------------------------------------------
(* The first byte of a reply. *)

IsSequence(s) == s \in Seq(Range(s))

LEMMA SequenceOf ==
    ASSUME NEW S, NEW s \in Seq(S)
    PROVE  IsSequence(s)
  BY Contained, LenProperties DEF IsSequence, Range

LEMMA FunctionIsSequence ==
    ASSUME NEW n \in Nat, NEW f, f = [i \in 1..n |-> f[i]]
    PROVE  IsSequence(f) /\ DOMAIN f = 1..n
<1>1. DOMAIN f = 1..n
  OBVIOUS
<1>2. f \in [1..n -> Range(f)]
  BY <1>1 DEF Range
<1> DEFINE S == Range(f)
<1>3. f \in [1..n -> S]
  BY <1>2
<1> HIDE DEF S
<1>4. f \in Seq(S)
  BY <1>3
<1> QED
  BY <1>1, <1>4 DEF S, IsSequence

(* Two sequences, one after the other, begin like the first. *)
LEMMA Joined ==
    ASSUME NEW s, NEW t, IsSequence(s), IsSequence(t)
    PROVE  /\ IsSequence(s \o t)
           /\ s # << >> => (s \o t)[1] = s[1] /\ s \o t # << >>
<1> DEFINE S == Range(s) \cup Range(t)
<1>1. s \in Seq(S) /\ t \in Seq(S)
  BY SeqMonotonic DEF IsSequence
<1> HIDE DEF S
<1>2. s \o t \in Seq(S)
  BY <1>1
<1>3. ASSUME s # << >>
      PROVE  (s \o t)[1] = s[1] /\ s \o t # << >>
  <2>1. Len(s) \in Nat /\ Len(s) # 0 /\ Len(t) \in Nat
    BY <1>1, <1>3, EmptySeq
  <2>2. 1 \in 1..Len(s) + Len(t) /\ 1 <= Len(s)
    BY <2>1
  <2>3. (s \o t)[1] = s[1] /\ Len(s \o t) = Len(s) + Len(t)
    BY <1>1, <2>2, ConcatProperties
  <2>4. s \o t # << >>
    BY <2>1, <2>3
  <2> QED
    BY <2>3, <2>4
<1> QED
  BY <1>2, <1>3, SequenceOf

LEMMA FlatIsSequence ==
    ASSUME NEW n \in Nat, NEW ss, ss = [i \in 1..n |-> ss[i]], \A i \in 1..n : IsSequence(ss[i])
    PROVE  IsSequence(FlattenSeq(ss))
<1> DEFINE S == UNION {Range(ss[i]) : i \in 1..n}
<1>1. ASSUME NEW i \in 1..n
      PROVE  ss[i] \in Seq(S)
  <2>1. ss[i] \in Seq(Range(ss[i])) /\ Range(ss[i]) \subseteq S
    BY DEF IsSequence
  <2> HIDE DEF S
  <2> QED
    BY <2>1, SeqMonotonic
<1> HIDE DEF S
<1>2. ss \in [1..n -> Seq(S)]
  BY <1>1
<1>3. ss \in Seq(Seq(S))
  BY <1>2
<1>4. FlattenSeq(ss) \in Seq(S)
  BY <1>3, FlattenedSeq
<1> QED
  BY <1>4, SequenceOf

(* What is picked by its places is a sequence, as long as there are places. *)
LEMMA PickedIsSequence ==
    ASSUME NEW seq, NEW places, IsFiniteSet(places)
    PROVE  /\ Cardinality(places) \in Nat /\ IsSequence(InOrder(seq, places))
           /\ DOMAIN InOrder(seq, places) = 1..Cardinality(places)
<1> DEFINE f == InOrder(seq, places)
<1>1. Cardinality(places) \in Nat
  BY FS_CardinalityType
<1>2. f = [n \in 1..Cardinality(places) |-> f[n]]
  BY DEF InOrder
<1> HIDE DEF f
<1>3. IsSequence(f) /\ DOMAIN f = 1..Cardinality(places)
  BY <1>1, <1>2, FunctionIsSequence
<1> QED
  BY <1>1, <1>3 DEF f

(* Literal sequences of the bytes that replies are made of. *)
LEMMA LiteralsAreSequences ==
    ASSUME NEW a, NEW b, NEW c, NEW d
    PROVE  /\ IsSequence(<< >>) /\ IsSequence(<<a>>) /\ IsSequence(<<a, b>>)
           /\ IsSequence(<<a, b, c>>) /\ IsSequence(<<a, b, c, d>>)
<1> DEFINE S == {a, b, c, d}
<1>1. << >> \in Seq(S) /\ <<a>> \in Seq(S) /\ <<a, b>> \in Seq(S) /\ <<a, b, c>> \in Seq(S) /\ <<a, b, c, d>> \in Seq(S)
  OBVIOUS
<1> HIDE DEF S
<1> QED
  BY <1>1, SequenceOf

LEMMA ShortLiteralsAreSequences ==
    ASSUME NEW a, NEW b
    PROVE  IsSequence(<<a>>) /\ IsSequence(<<a, b>>)
BY LiteralsAreSequences

(* How a protocol answers a request that it owns: not at all, negatively, but  *)
(* never with serviceNotSupported, or positively, with the identifier that it  *)
(* derives from the request's.                                                 *)
Answered(sid, reply) ==
    \/ \E nrc \in Nat \ {NotSupported} : reply = Negative(sid, nrc)
    \/ reply # << >> /\ reply[1] = PositiveSid(sid)

Proper(sid, reply) == reply = NoReply \/ Answered(sid, reply)

LEMMA NegativeIsAnAnswer ==
    ASSUME NEW sid
    PROVE  /\ Answered(sid, Negative(sid, SubFunctionNotSupported))
           /\ Answered(sid, Negative(sid, BadLength))
           /\ Answered(sid, Negative(sid, OutOfRange))
  BY DEF Answered, NotSupported, SubFunctionNotSupported, BadLength, OutOfRange

LEMMA PositiveIsAnAnswer ==
    ASSUME NEW sid, NEW s, NEW t, IsSequence(s), IsSequence(t), s # << >>, s[1] = PositiveSid(sid)
    PROVE  Answered(sid, s) /\ Answered(sid, s \o t)
  BY Joined DEF Answered

LEMMA BytesOfCode ==
    ASSUME NEW code
    PROVE  IsSequence(CodeBytes(code))
<1> DEFINE number == code[1] * 16384 + code[2] * 4096 + code[3]
<1>1. CodeBytes(code) = <<number \div 256, number % 256>>
  BY DEF CodeBytes
<1>2. IsSequence(<<number \div 256, number % 256>>)
  <2> DEFINE high == number \div 256
             low  == number % 256
  <2> HIDE DEF high, low
  <2>1. IsSequence(<<high, low>>)
    BY ShortLiteralsAreSequences
  <2> QED
    BY <2>1 DEF high, low
<1> QED
  BY <1>1, <1>2

(* The records of a store, whatever the mask. *)
LEMMA RecordsAreASequence ==
    ASSUME NEW store \in Seq(DtcConfigModel), NEW mask
    PROVE  IsSequence(Records(store, mask))
<1> DEFINE places   == {i \in DOMAIN store : Shares(StatusByte(store[i].flags), mask)}
           reported == InOrder(store, places)
           n        == Cardinality(places)
           ss       == [i \in DOMAIN reported |-> Record(reported[i])]
<1>1. IsFiniteSet(places)
  <2>1. IsFiniteSet(1..Len(store)) /\ DOMAIN store = 1..Len(store)
    BY LenProperties, FS_Interval
  <2> QED
    BY <2>1, FS_Subset
<1>2. Records(store, mask) = FlattenSeq(ss)
  BY DEF Records
<1> HIDE DEF places
<1>3. n \in Nat /\ DOMAIN reported = 1..n
  BY <1>1, PickedIsSequence
<1> HIDE DEF reported, n
<1>4. ss = [i \in 1..n |-> Record(reported[i])]
  BY <1>3
<1>5. ASSUME NEW i \in 1..n
      PROVE  IsSequence(ss[i])
  <2>1. ss[i] = CodeBytes(reported[i].code) \o <<1, StatusByte(reported[i].flags)>>
    BY <1>4 DEF Record
  <2> QED
    BY <2>1, BytesOfCode, LiteralsAreSequences, Joined
<1>6. ss = [i \in 1..n |-> ss[i]]
  BY <1>4
<1> HIDE DEF ss
<1> QED
  BY <1>2, <1>3, <1>5, <1>6, FlatIsSequence

Byte == 0..255

(* The service identifier is never masked. *)
LEMMA MaskedSid ==
    ASSUME NEW p \in Seq(Byte), p # << >>
    PROVE  p[1] \in Byte /\ Masked(p)[1] = p[1]
<1>1. 1 \in DOMAIN p /\ p[1] \in Byte
  BY EmptySeq, LenProperties
<1> QED
  BY <1>1 DEF Masked

LEMMA EveryServiceAnswers ==
    ASSUME NEW q, q[1] \in UdsSids, NEW store \in Seq(DtcConfigModel)
    PROVE  Answered(q[1], Serve(q, store))
<1> DEFINE sid == q[1]
<1>1. CASE sid = SessionControl
  <2>1. Serve(q, store) = SessionReply(q)
    BY <1>1 DEF Serve, SessionControl, EcuReset, ClearInformation, ReadInformation, TesterPresent
  <2> DEFINE s == <<PositiveSid(SessionControl), q[2]>>
  <2>2. IsSequence(s) /\ IsSequence(SessionParameters) /\ s # << >> /\ s[1] = PositiveSid(sid)
    BY ZenonT(30), <1>1, LiteralsAreSequences DEF SessionParameters
  <2> HIDE DEF s
  <2>3. Answered(sid, s \o SessionParameters)
    BY <2>2, PositiveIsAnAnswer
  <2> QED
    BY <1>1, <2>1, <2>3, NegativeIsAnAnswer DEF SessionReply, s
<1>2. CASE sid = EcuReset
  <2>1. Serve(q, store) = ResetReply(q)
    BY <1>2 DEF Serve, SessionControl, EcuReset, ClearInformation, ReadInformation, TesterPresent
  <2> DEFINE s == <<PositiveSid(EcuReset), q[2]>>
             t == IF q[2] = RapidPowerShutDown THEN <<PowerDownTime>> ELSE << >>
  <2>2. IsSequence(s) /\ IsSequence(t) /\ s # << >> /\ s[1] = PositiveSid(sid)
    BY <1>2, LiteralsAreSequences
  <2> HIDE DEF s, t
  <2>3. Answered(sid, s \o t)
    BY <2>2, PositiveIsAnAnswer
  <2> QED
    BY <1>2, <2>1, <2>3, NegativeIsAnAnswer DEF ResetReply, s, t
<1>3. CASE sid = ClearInformation
  <2>1. Serve(q, store) = ClearReply(q)
    BY <1>3 DEF Serve, SessionControl, EcuReset, ClearInformation, ReadInformation, TesterPresent
  <2>2. Answered(sid, <<PositiveSid(ClearInformation)>>)
    BY <1>3 DEF Answered
  <2> QED
    BY <1>3, <2>1, <2>2, NegativeIsAnAnswer DEF ClearReply
<1>4. CASE sid = ReadInformation
  <2>1. Serve(q, store) = ReadReply(q, store)
    BY <1>4 DEF Serve, SessionControl, EcuReset, ClearInformation, ReadInformation, TesterPresent
  <2> DEFINE s == <<PositiveSid(ReadInformation), q[2], AvailabilityMask>>
             t == Records(store, q[3])
  <2>2. IsSequence(s) /\ IsSequence(t) /\ s # << >> /\ s[1] = PositiveSid(sid)
    BY <1>4, LiteralsAreSequences, RecordsAreASequence
  <2> HIDE DEF s, t
  <2>3. Answered(sid, s \o t)
    BY <2>2, PositiveIsAnAnswer
  <2> QED
    BY <1>4, <2>1, <2>3, NegativeIsAnAnswer DEF ReadReply, s, t
<1>5. CASE sid = TesterPresent
  <2>1. Serve(q, store) = PresentReply(q)
    BY <1>5 DEF Serve, SessionControl, EcuReset, ClearInformation, ReadInformation, TesterPresent
  <2>2. Answered(sid, <<PositiveSid(TesterPresent), q[2]>>)
    BY <1>5 DEF Answered
  <2> QED
    BY <1>5, <2>1, <2>2, NegativeIsAnAnswer DEF PresentReply
<1> QED
  BY <1>1, <1>2, <1>3, <1>4, <1>5 DEF UdsSids

LEMMA UdsIsProper ==
    ASSUME NEW p \in Seq(Byte), p # << >>, p[1] \in UdsSids, NEW store \in Seq(DtcConfigModel)
    PROVE  Proper(p[1], UdsReply(p, store))
<1>1. Masked(p)[1] = p[1]
  BY MaskedSid
<1>2. Answered(p[1], Serve(Masked(p), store))
  <2> DEFINE q == Masked(p)
  <2>1. q[1] = p[1] /\ q[1] \in UdsSids
    BY <1>1
  <2> HIDE DEF q
  <2>2. Answered(q[1], Serve(q, store))
    BY <2>1, EveryServiceAnswers
  <2> QED
    BY <2>1, <2>2 DEF q
<1> QED
  BY <1>2 DEF UdsReply, Proper

LEMMA SmallerOfTwo ==
    ASSUME NEW n \in Nat, NEW m \in Nat
    PROVE  Min({n, m}) \in Nat /\ Min({n, m}) <= n /\ Min({n, m}) <= m
<1>1. \E x \in {n, m} : \A y \in {n, m} : x <= y
  OBVIOUS
<1>2. Min({n, m}) \in {n, m} /\ \A y \in {n, m} : Min({n, m}) <= y
  BY <1>1 DEF Min
<1> QED
  BY <1>2

(* A part of a sequence. *)
LEMMA PartOfASequence ==
    ASSUME NEW S, NEW s \in Seq(S), NEW first \in Nat \ {0}, NEW last \in Nat, last <= Len(s)
    PROVE  SubSeq(s, first, last) \in Seq(S)
<1>1. \A i \in 1..Len(s) : s[i] \in S
  OBVIOUS
<1>2. \A i \in first..last : s[i] \in S
  BY <1>1
<1> QED
  BY <1>2, SubSeqProperties

(* What a Mode 01 request asks for. *)
LEMMA RequestedIsASequence ==
    ASSUME NEW p \in Seq(Byte)
    PROVE  \E n \in Nat : DOMAIN Requested(p) = 1..n
<1> DEFINE m      == Min({7, Len(p)})
           asked  == SubSeq(p, 2, m)
           places == {i \in DOMAIN asked : \A j \in 1..i - 1 : asked[j] # asked[i]}
<1>1. Len(p) \in Nat
  OBVIOUS
<1>2. m \in Nat /\ m <= Len(p)
  BY <1>1, SmallerOfTwo
<1> HIDE DEF m
<1>3. asked \in Seq(Byte)
  BY <1>1, <1>2, PartOfASequence
<1>4. Requested(p) = InOrder(asked, places)
  BY DEF Requested, m
<1> HIDE DEF asked
<1>5. IsFiniteSet(DOMAIN asked)
  BY <1>3, LenProperties, FS_Interval
<1>6. IsFiniteSet(places)
  BY <1>5, FS_Subset
<1> HIDE DEF places
<1> QED
  BY <1>4, <1>6, PickedIsSequence

LEMMA ParameterIsASequence ==
    ASSUME NEW pid, NEW kind, NEW v
    PROVE  IsSequence(Parameter(pid, kind, v))
<1> DEFINE mask == Mask(pid, Pids(kind))
           d    == CHOOSE d \in Supported(kind) : d.pid = pid
           n    == RawValue(d.by, v[d.signal])
<1>1. mask = [k \in 1..4 |-> mask[k]]
  BY DEF Mask
<1>2. IsSequence(mask)
  <2> HIDE DEF mask
  <2> QED
    BY <1>1, FunctionIsSequence
<1>3. Encoded(d, v) \in {<<n \div 256, n % 256>>, <<n>>}
  BY DEF Encoded
<1>4. IsSequence(Encoded(d, v))
  <2>1. IsSequence(<<n \div 256, n % 256>>) /\ IsSequence(<<n>>)
    BY ShortLiteralsAreSequences
  <2> HIDE DEF n, d
  <2> QED
    BY <1>3, <2>1
<1>5. Parameter(pid, kind, v) \in {<<pid>> \o mask, <<pid>> \o Encoded(d, v), << >>}
  BY DEF Parameter
<1> HIDE DEF mask, d
<1> QED
  BY <1>2, <1>4, <1>5, LiteralsAreSequences, Joined

LEMMA CurrentDataIsProper ==
    ASSUME NEW p \in Seq(Byte), NEW kind, NEW v
    PROVE  Proper(CurrentData, Mode01(p, kind, v))
<1> DEFINE asked == Requested(p)
           ss    == [i \in DOMAIN asked |-> Parameter(asked[i], kind, v)]
           body  == FlattenSeq(ss)
<1>1. PICK n \in Nat : DOMAIN asked = 1..n
  BY RequestedIsASequence
<1>2. Mode01(p, kind, v) \in {NoReply, <<PositiveSid(CurrentData)>> \o body}
  BY DEF Mode01
<1> HIDE DEF asked
<1>3. ss = [i \in 1..n |-> Parameter(asked[i], kind, v)]
  BY <1>1
<1>4. ss = [i \in 1..n |-> ss[i]] /\ \A i \in 1..n : IsSequence(ss[i])
  BY <1>3, ParameterIsASequence
<1> HIDE DEF ss
<1>5. IsSequence(body)
  BY <1>4, FlatIsSequence
<1> HIDE DEF body
<1> DEFINE s == <<PositiveSid(CurrentData)>>
<1>6. IsSequence(s) /\ s # << >> /\ s[1] = PositiveSid(CurrentData)
  BY LiteralsAreSequences
<1> HIDE DEF s
<1>7. Proper(CurrentData, s \o body)
  BY <1>5, <1>6, PositiveIsAnAnswer DEF Proper
<1> QED
  BY <1>2, <1>7 DEF Proper, Answered, s

LEMMA EchoedSid ==
    ASSUME NEW p
    PROVE  IsSequence(Echo(p)) /\ Echo(p) # << >> /\ Echo(p)[1] = PositiveSid(p[1])
<1> DEFINE s == <<PositiveSid(p[1])>>
           t == IF Len(p) > 1 THEN <<p[2]>> ELSE << >>
<1>1. IsSequence(s) /\ IsSequence(t) /\ s # << >> /\ s[1] = PositiveSid(p[1])
  BY LiteralsAreSequences
<1>2. Echo(p) = s \o t
  BY DEF Echo
<1> HIDE DEF s, t
<1> QED
  BY <1>1, <1>2, Joined

LEMMA CodesAreASequence ==
    ASSUME NEW store \in Seq(DtcConfigModel)
    PROVE  IsSequence(EncodedCodes(Confirmed(store)))
<1> DEFINE places == {i \in DOMAIN store : "confirmed" \in store[i].flags}
           codes  == Confirmed(store)
           n      == Cardinality(places)
           ss     == [i \in DOMAIN codes |-> CodeBytes(codes[i].code)]
<1>1. IsFiniteSet(places)
  <2>1. IsFiniteSet(1..Len(store)) /\ DOMAIN store = 1..Len(store)
    BY LenProperties, FS_Interval
  <2> QED
    BY <2>1, FS_Subset
<1>2. codes = InOrder(store, places)
  BY DEF Confirmed
<1> HIDE DEF codes, places
<1>3. n \in Nat /\ DOMAIN codes = 1..n
  BY <1>1, <1>2, PickedIsSequence
<1> HIDE DEF n
<1>4. ss = [i \in 1..n |-> ss[i]] /\ \A i \in 1..n : IsSequence(ss[i])
  BY <1>3, BytesOfCode
<1>5. EncodedCodes(codes) \in {<<0>>, <<Len(codes)>> \o FlattenSeq(ss)}
  BY DEF EncodedCodes
<1> HIDE DEF ss
<1>6. IsSequence(FlattenSeq(ss))
  BY <1>3, <1>4, FlatIsSequence
<1>7. IsSequence(EncodedCodes(codes))
  BY <1>5, <1>6, LiteralsAreSequences, Joined
<1> QED
  BY <1>7 DEF codes

LEMMA FieldIsASequence ==
    ASSUME NEW bytes \in Seq(Byte), NEW n \in Nat
    PROVE  IsSequence(Field(bytes, n))
<1> DEFINE m == Min({n, Len(bytes)})
           s == [i \in 1..n - m |-> 0]
           t == SubSeq(bytes, 1, m)
<1>1. m \in Nat /\ m <= n /\ m <= Len(bytes) /\ Len(bytes) \in Nat
  <2>1. Len(bytes) \in Nat
    OBVIOUS
  <2> QED
    BY <2>1, SmallerOfTwo
<1>2. Field(bytes, n) = s \o t
  BY DEF Field
<1> HIDE DEF m
<1>3. t \in Seq(Byte)
  BY <1>1, PartOfASequence
<1>4. n - m \in Nat /\ s = [i \in 1..n - m |-> s[i]]
  BY <1>1
<1> HIDE DEF s, t
<1>5. IsSequence(s) /\ IsSequence(t)
  BY <1>3, <1>4, FunctionIsSequence, SequenceOf
<1> QED
  BY <1>2, <1>5, Joined

LEMMA InformationIsProper ==
    ASSUME NEW p, NEW bytes \in Seq(Byte)
    PROVE  Proper(p[1], Mode09(p, bytes, bytes))
<1> DEFINE mask == Mask(p[2], InfoPids)
<1>1. Mode09(p, bytes, bytes) \in {Echo(p) \o mask, (Echo(p) \o <<1>>) \o Field(bytes, 17),
                                   Echo(p) \o Field(bytes, 20), NoReply}
  BY DEF Mode09
<1>2. mask = [k \in 1..4 |-> mask[k]]
  BY DEF Mask
<1> HIDE DEF mask
<1>3. IsSequence(mask) /\ IsSequence(Field(bytes, 17)) /\ IsSequence(Field(bytes, 20)) /\ IsSequence(<<1>>)
  BY <1>2, FunctionIsSequence, FieldIsASequence, LiteralsAreSequences
<1>4. IsSequence(Echo(p)) /\ Echo(p) # << >> /\ Echo(p)[1] = PositiveSid(p[1])
  BY EchoedSid
<1>5. /\ IsSequence(Echo(p) \o <<1>>) /\ Echo(p) \o <<1>> # << >>
      /\ (Echo(p) \o <<1>>)[1] = PositiveSid(p[1])
  BY <1>3, <1>4, Joined
<1>6. /\ Proper(p[1], Echo(p) \o mask) /\ Proper(p[1], Echo(p) \o Field(bytes, 20))
      /\ Proper(p[1], (Echo(p) \o <<1>>) \o Field(bytes, 17))
  BY <1>3, <1>4, <1>5, PositiveIsAnAnswer DEF Proper
<1>7. Proper(p[1], NoReply)
  BY DEF Proper, Answered
<1> QED
  BY <1>1, <1>6, <1>7

LEMMA ObdIsProper ==
    ASSUME NEW p \in Seq(Byte), p # << >>, NEW store \in Seq(DtcConfigModel),
           NEW kind, NEW v, NEW bytes \in Seq(Byte)
    PROVE  Proper(p[1], ObdReply(p, store, kind, v, bytes, bytes))
<1>1. Proper(p[1], Mode03(p, store))
  BY EchoedSid, CodesAreASequence, PositiveIsAnAnswer DEF Mode03, Proper
<1>2. Proper(p[1], Mode09(p, bytes, bytes))
  BY InformationIsProper
<1>3. p[1] = CurrentData => Proper(p[1], Mode01(p, kind, v))
  BY CurrentDataIsProper
<1>4. p[1] = ClearDtcs => Proper(p[1], <<PositiveSid(ClearDtcs)>>)
  BY DEF Proper, Answered
<1>5. Proper(p[1], NoReply)
  BY DEF Proper, Answered
<1> QED
  BY <1>1, <1>2, <1>3, <1>4, <1>5 DEF ObdReply, CurrentData, StoredDtcs, ClearDtcs, VehicleInfo
-----------------------------------------------------------------------------
(* Who answers. *)

(* An endpoint's route takes a service exactly if the endpoint enables the     *)
(* protocol that owns it: the ECU serves it because an endpoint enables it,    *)
(* and no identifier has two owners.                                           *)
LEMMA TheEndpointDecides ==
    ASSUME StartOK, phase = "serving", NEW b \in Bound, NEW p, p[1] \in Byte
    PROVE  /\ Route(b) \in table
           /\ Eligible(Route(b), p) <=> \/ p[1] \in ObdSids /\ "obd" \in b.at.protocols
                                        \/ p[1] \in UdsSids /\ "uds" \in b.at.protocols
           /\ Eligible(Route(b), p) => \/ Owner(b.ecu, p[1]) = "obd" /\ p[1] \in ObdSids
                                       \/ Owner(b.ecu, p[1]) = "uds" /\ p[1] \in UdsSids
<1>1. Accepted(profile) /\ endpoints = Bindings(profile) /\ Route(b) \in table
  BY DEF StartOK
<1>2. Route(b) \in Routes /\ Route(b).ecu = b.ecu /\ Route(b).protocols = b.at.protocols
  BY <1>1, EndpointShapes
<1>3. b.at.protocols \subseteq {"obd", "uds"}
  BY <1>2 DEF Routes, Protocols
<1>4. b.at.protocols \subseteq Served(b.ecu)
  BY DEF Served, Bound
<1>5. ~(p[1] \in ObdSids /\ p[1] \in UdsSids)
  BY DEF ObdSids, UdsSids, SessionControl, EcuReset, ClearInformation, ReadInformation, TesterPresent
<1>6. Eligible(Route(b), p) <=> Owner(b.ecu, p[1]) \in b.at.protocols
  BY <1>2 DEF Eligible, Permits
<1>7. /\ Owner(b.ecu, p[1]) = "obd" <=> p[1] \in ObdSids /\ "obd" \in Served(b.ecu)
      /\ Owner(b.ecu, p[1]) = "uds" <=> p[1] \in UdsSids /\ "uds" \in Served(b.ecu)
      /\ Owner(b.ecu, p[1]) \in {"obd", "uds", "nobody"}
  BY <1>5 DEF Owner
<1>8. Eligible(Route(b), p) <=> \/ p[1] \in ObdSids /\ "obd" \in b.at.protocols
                                \/ p[1] \in UdsSids /\ "uds" \in b.at.protocols
  BY <1>3, <1>4, <1>6, <1>7
<1>9. Eligible(Route(b), p) => \/ Owner(b.ecu, p[1]) = "obd" /\ p[1] \in ObdSids
                               \/ Owner(b.ecu, p[1]) = "uds" /\ p[1] \in UdsSids
  BY <1>3, <1>6, <1>7
<1> QED
  BY <1>1, <1>8, <1>9

(* The only route that a handled request can have taken. *)
LEMMA TheOnlyRoute ==
    ASSUME StartOK, phase = "serving", NEW b \in Bound, NEW r \in Resolved(b.at.rx, b.at.functional),
           ~FanOut(Resolved(b.at.rx, b.at.functional))
    PROVE  r = Route(b)
<1>1. Accepted(profile) /\ endpoints = Bindings(profile) /\ Route(b) \in table /\ IsFiniteSet(table)
  BY DEF StartOK
<1>2. Route(b).address = b.at.rx /\ Route(b).functional = b.at.functional
  BY <1>1, EndpointShapes
<1>3. r \in table /\ r.address = b.at.rx /\ r.functional = b.at.functional
  BY DEF Resolved
<1> QED
  BY <1>1, <1>2, <1>3, RoutesAt

(* How the ECU answers at one of its endpoints. *)
LEMMA AnswerOfAnEcu ==
    ASSUME StartOK, StateOK, phase = "serving", NEW b \in Bound, NEW p \in Payloads, p # << >>
    PROVE  /\ p \in Seq(Byte) /\ p[1] \in Byte
           /\ b.ecu \in DOMAIN stores /\ stores[b.ecu] \in Seq(DtcConfigModel)
           /\ Eligible(Route(b), p) =>
                \/ /\ p[1] \in ObdSids /\ Owner(b.ecu, p[1]) = "obd"
                   /\ Reply(Route(b), p) = ObdReply(p, stores[b.ecu], profile.kind, values, Vin, Vin)
                   /\ Proper(p[1], Reply(Route(b), p))
                \/ /\ p[1] \in UdsSids /\ Owner(b.ecu, p[1]) = "uds"
                   /\ Reply(Route(b), p) = UdsReply(p, stores[b.ecu])
                   /\ Proper(p[1], Reply(Route(b), p))
           /\ ~Eligible(Route(b), p) =>
                Reply(Route(b), p) = IF Answers(b.at) THEN Negative(p[1], NotSupported) ELSE NoReply
<1>1. /\ Accepted(profile) /\ endpoints = Bindings(profile)
      /\ Vin \in Seq(Byte) /\ p \in Seq(Byte)
  BY DiagnosticsAssumption DEF StartOK, Byte
<1>2. p[1] \in Byte
  BY <1>1, MaskedSid
<1>3. Route(b).ecu = b.ecu /\ Route(b).answers = Answers(b.at) /\ Route(b) \in Routes
  BY <1>1, EndpointShapes
<1>4. b.ecu \in DOMAIN stores /\ stores[b.ecu] \in Seq(DtcConfigModel)
  BY <1>3 DEF StateOK, Routes
<1>5. ASSUME Eligible(Route(b), p)
      PROVE  \/ /\ p[1] \in ObdSids /\ Owner(b.ecu, p[1]) = "obd"
                /\ Reply(Route(b), p) = ObdReply(p, stores[b.ecu], profile.kind, values, Vin, Vin)
                /\ Proper(p[1], Reply(Route(b), p))
             \/ /\ p[1] \in UdsSids /\ Owner(b.ecu, p[1]) = "uds"
                /\ Reply(Route(b), p) = UdsReply(p, stores[b.ecu])
                /\ Proper(p[1], Reply(Route(b), p))
  <2>1. CASE Owner(b.ecu, p[1]) = "obd" /\ p[1] \in ObdSids
    <3>1. Reply(Route(b), p) = ObdReply(p, stores[b.ecu], profile.kind, values, Vin, Vin)
      BY <1>3, <1>5, <2>1 DEF Reply
    <3>2. Proper(p[1], ObdReply(p, stores[b.ecu], profile.kind, values, Vin, Vin))
      BY <1>1, <1>4, ObdIsProper
    <3> QED
      BY <2>1, <3>1, <3>2
  <2>2. CASE Owner(b.ecu, p[1]) = "uds" /\ p[1] \in UdsSids
    <3>1. Reply(Route(b), p) = UdsReply(p, stores[b.ecu])
      BY <1>3, <1>5, <2>2 DEF Reply
    <3>2. Proper(p[1], UdsReply(p, stores[b.ecu]))
      BY <1>1, <1>4, <2>2, UdsIsProper
    <3> QED
      BY <2>2, <3>1, <3>2
  <2> QED
    BY <1>2, <1>5, <2>1, <2>2, TheEndpointDecides
<1>6. ~Eligible(Route(b), p) =>
          Reply(Route(b), p) = IF Answers(b.at) THEN Negative(p[1], NotSupported) ELSE NoReply
  BY <1>3 DEF Reply, Unserved
<1> QED
  BY <1>1, <1>2, <1>4, <1>5, <1>6

(* A proper answer is not serviceNotSupported. *)
LEMMA ProperIsNotUnsupported ==
    ASSUME NEW sid \in ObdSids \cup UdsSids, NEW reply, Proper(sid, reply)
    PROVE  reply # Negative(sid, NotSupported)
<1>1. sid + 64 # 127 /\ sid \in Nat
  BY DEF ObdSids, UdsSids, SessionControl, EcuReset, ClearInformation, ReadInformation, TesterPresent
<1>2. \A nrc : Negative(sid, nrc)[1] = 127 /\ Negative(sid, nrc)[3] = nrc
  BY DEF Negative, NegativeSid
<1>3. CASE reply = NoReply
  BY <1>3 DEF NoReply, Negative
<1>4. CASE \E nrc \in Nat \ {NotSupported} : reply = Negative(sid, nrc)
  BY <1>2, <1>4
<1>5. CASE reply # << >> /\ reply[1] = PositiveSid(sid)
  BY <1>1, <1>2, <1>5 DEF PositiveSid
<1> QED
  BY <1>3, <1>4, <1>5 DEF Proper, Answered

LEMMA AnswersStayRight ==
    StartOK /\ StateOK /\ AnsweredByItsEndpoint /\ [Next]_vars => AnsweredByItsEndpoint'
<1> SUFFICES ASSUME StartOK, StateOK, AnsweredByItsEndpoint, [Next]_vars
             PROVE  AnsweredByItsEndpoint'
  OBVIOUS
<1>1. ASSUME exchange' = NoExchange
      PROVE  AnsweredByItsEndpoint'
  BY <1>1 DEF AnsweredByItsEndpoint, NoExchange
<1>2. ASSUME UNCHANGED <<exchange, endpoints>>
      PROVE  AnsweredByItsEndpoint'
  BY <1>2 DEF AnsweredByItsEndpoint, Bound
<1>3. CASE Startup
  <2>1. phase # "serving" /\ exchange' = exchange
    BY <1>3 DEF Startup, Load, BuildEcus, AddRoute, Assemble
  <2> QED
    BY <1>1, <2>1 DEF StateOK
<1>4. ASSUME NEW b \in Range(endpoints), NEW p \in Payloads, Request(b, p)
      PROVE  AnsweredByItsEndpoint'
  <2>1. phase = "serving" /\ endpoints' = endpoints /\ b \in Bound /\ Bound' = Bound
    BY <1>4 DEF Request, Bound
  <2> DEFINE routes == Resolved(b.at.rx, b.at.functional)
  <2>2. CASE routes = {} \/ FanOut(routes)
    <3>1. exchange' = [NoExchange EXCEPT !.at = b.name, !.payload = p,
                                         !.outcome = IF routes = {} THEN "unrouted" ELSE "raised"]
      BY <1>4, <2>2 DEF Request
    <3>2. exchange'.outcome # "handled"
      BY <3>1 DEF NoExchange
    <3> QED
      BY <3>2 DEF AnsweredByItsEndpoint
  <2>3. CASE ~(routes = {} \/ FanOut(routes))
    <3>1. PICK r \in routes :
             exchange' = [at |-> b.name, ecu |-> r.ecu, payload |-> p, reply |-> Reply(r, p), outcome |-> "handled"]
      BY <1>4, <2>3 DEF Request
    <3>2. r = Route(b)
      BY <2>1, <2>3, TheOnlyRoute
    <3>3. r.ecu = b.ecu
      BY <3>2 DEF Route
    <3>4. /\ exchange'.at = b.name /\ exchange'.ecu = b.ecu /\ exchange'.payload = p
          /\ exchange'.reply = Reply(Route(b), p)
      BY <3>1, <3>2, <3>3
    <3>5. CASE p = << >>
      BY <3>4, <3>5 DEF AnsweredByItsEndpoint
    <3>6. CASE p # << >>
      <4> DEFINE enabled == \/ p[1] \in ObdSids /\ "obd" \in b.at.protocols
                            \/ p[1] \in UdsSids /\ "uds" \in b.at.protocols
      <4>1. Eligible(Route(b), p) <=> enabled
        BY <2>1, <3>6, AnswerOfAnEcu, TheEndpointDecides
      <4>2. ~enabled => Reply(Route(b), p) = IF Answers(b.at) THEN Negative(p[1], NotSupported) ELSE NoReply
        BY <2>1, <3>6, <4>1, AnswerOfAnEcu
      <4>3. Eligible(Route(b), p) => p[1] \in ObdSids \cup UdsSids /\ Proper(p[1], Reply(Route(b), p))
        BY <2>1, <3>6, AnswerOfAnEcu
      <4>4. Reply(Route(b), p) = Negative(p[1], NotSupported) => ~enabled
        BY <4>1, <4>3, ProperIsNotUnsupported
      <4> QED
        BY <2>1, <3>4, <4>2, <4>4 DEF AnsweredByItsEndpoint
    <3> QED
      BY <3>5, <3>6
  <2> QED
    BY <2>2, <2>3
<1>5. ASSUME NEW e \in DOMAIN stores, NEW event \in Range(EcuOf(profile, e).events), ScenarioEvent(e, event)
      PROVE  AnsweredByItsEndpoint'
  BY <1>1, <1>5 DEF ScenarioEvent
<1>6. ASSUME NEW r \in LateRoutes, LateRoute(r)
      PROVE  AnsweredByItsEndpoint'
  BY <1>2, <1>6 DEF LateRoute
<1>7. CASE UNCHANGED vars
  BY <1>2, <1>7 DEF vars
<1> QED
  BY <1>3, <1>4, <1>5, <1>6, <1>7 DEF Next, Traffic

(* Whoever answers is the ECU of the endpoint at which the request arrived,   *)
(* with a protocol that this endpoint enables; what the endpoint does not     *)
(* enable is refused or passed over in silence, as its policy says, and       *)
(* serviceNotSupported is never said of anything else - whatever routes are   *)
(* added while the simulator runs.                                            *)
THEOREM TheRightEcuAnswers == Spec => []AnsweredByItsEndpoint
<1>1. Init => AnsweredByItsEndpoint
  BY DEF Init, AnsweredByItsEndpoint, NoExchange
<1> QED
  BY <1>1, AnswersStayRight, InitStarts, StartStaysOK, InitState, StateStaysOK, PTL DEF Spec
-----------------------------------------------------------------------------
(* Clearing. *)

(* The positive answers to a clear. *)
Acknowledgements == {<<PositiveSid(ClearDtcs)>>, <<PositiveSid(ClearInformation)>>}

LEMMA OtherRepliesAreNoAcknowledgement ==
    ASSUME NEW sid \in (ObdSids \cup UdsSids) \ {ClearDtcs, ClearInformation}, NEW reply, Proper(sid, reply)
    PROVE  reply \notin Acknowledgements
<1>1. sid \in Nat /\ sid # 4 /\ sid # 20
  BY DEF ObdSids, UdsSids, SessionControl, EcuReset, ClearInformation, ReadInformation, TesterPresent, ClearDtcs
<1>2. ASSUME reply \in Acknowledgements
      PROVE  reply[1] \in {68, 84} /\ reply # << >>
  BY <1>2 DEF Acknowledgements, PositiveSid, ClearDtcs, ClearInformation
<1>3. \A nrc : Negative(sid, nrc)[1] = 127
  BY DEF Negative, NegativeSid
<1>4. CASE reply = NoReply
  BY <1>2, <1>4 DEF NoReply
<1>5. CASE \E nrc \in Nat \ {NotSupported} : reply = Negative(sid, nrc)
  BY <1>2, <1>3, <1>5
<1>6. CASE reply # << >> /\ reply[1] = PositiveSid(sid)
  BY <1>1, <1>2, <1>6 DEF PositiveSid
<1> QED
  BY <1>4, <1>5, <1>6 DEF Proper, Answered

(* The service 14, which has no sub-function: what is cleared is acknowledged. *)
LEMMA ClearInformationAcknowledges ==
    ASSUME NEW p \in Seq(Byte), p # << >>, p[1] = ClearInformation, NEW store
    PROVE  /\ Masked(p) = p
           /\ UdsReply(p, store) \in Acknowledgements <=> Clears(p)
<1>1. ~HasSubFunction(p)
  BY DEF HasSubFunction, SubFunctionServices
<1>2. Masked(p) = p /\ ~SuppressBit(p)
  BY <1>1 DEF Masked, SuppressBit
<1>3. Serve(p, store) = ClearReply(p)
  BY DEF Serve, SessionControl, EcuReset, ClearInformation, ReadInformation, TesterPresent
<1>4. UdsReply(p, store) = ClearReply(p)
  BY <1>2, <1>3 DEF UdsReply, Withheld
<1>5. \A nrc : Negative(ClearInformation, nrc) \notin Acknowledgements
  <2>1. \A nrc : Negative(ClearInformation, nrc)[1] = 127
    BY DEF Negative, NegativeSid
  <2>2. \A reply \in Acknowledgements : reply[1] # 127
    BY DEF Acknowledgements, PositiveSid, ClearDtcs, ClearInformation
  <2> QED
    BY <2>1, <2>2
<1>6. <<PositiveSid(ClearInformation)>> \in Acknowledgements
  BY DEF Acknowledgements
<1>7. ClearReply(p) \in Acknowledgements <=> Clears(p)
  BY <1>5, <1>6 DEF ClearReply, Clears
<1> QED
  BY <1>2, <1>4, <1>7

(* An ECU clears its codes exactly when it says so. *)
LEMMA ClearedIsSaid ==
    ASSUME StartOK, StateOK, phase = "serving", NEW b \in Bound, NEW p \in Payloads
    PROVE  Reply(Route(b), p) \in Acknowledgements <=> ClearsCodes(Route(b), p)
<1>1. Route(b).ecu = b.ecu
  BY DEF Route
<1>2. NoReply \notin Acknowledgements
  BY DEF NoReply, Acknowledgements
<1>3. CASE p = << >>
  BY <1>2, <1>3 DEF Reply, ClearsCodes
<1>4. CASE p # << >> /\ ~Eligible(Route(b), p)
  <2>1. Reply(Route(b), p) \in {Negative(p[1], NotSupported), NoReply}
    BY <1>4, AnswerOfAnEcu
  <2>2. Negative(p[1], NotSupported) \notin Acknowledgements
    BY DEF Negative, NegativeSid, Acknowledgements, PositiveSid, ClearDtcs, ClearInformation
  <2> QED
    BY <1>2, <1>4, <2>1, <2>2 DEF ClearsCodes
<1>5. CASE p # << >> /\ Eligible(Route(b), p)
  <2>1. p \in Seq(Byte) /\ p[1] \in Byte
    BY <1>5, AnswerOfAnEcu
  <2>2. CASE /\ p[1] \in ObdSids /\ Owner(b.ecu, p[1]) = "obd"
             /\ Reply(Route(b), p) = ObdReply(p, stores[b.ecu], profile.kind, values, Vin, Vin)
             /\ Proper(p[1], Reply(Route(b), p))
    <3>1. ClearsCodes(Route(b), p) <=> p[1] = ClearDtcs
      BY <1>1, <1>5, <2>2 DEF ClearsCodes, ObdClears
    <3>2. p[1] # ClearInformation
      BY <2>2 DEF ObdSids, ClearInformation
    <3>3. ASSUME p[1] = ClearDtcs
          PROVE  Reply(Route(b), p) \in Acknowledgements
      BY <2>2, <3>3 DEF ObdReply, Acknowledgements, CurrentData, ClearDtcs, StoredDtcs, VehicleInfo
    <3>4. ASSUME p[1] # ClearDtcs
          PROVE  Reply(Route(b), p) \notin Acknowledgements
      BY <2>2, <3>2, <3>4, OtherRepliesAreNoAcknowledgement
    <3> QED
      BY <3>1, <3>3, <3>4
  <2>3. CASE /\ p[1] \in UdsSids /\ Owner(b.ecu, p[1]) = "uds"
             /\ Reply(Route(b), p) = UdsReply(p, stores[b.ecu])
             /\ Proper(p[1], Reply(Route(b), p))
    <3>1. ClearsCodes(Route(b), p) <=> Clears(Masked(p))
      BY <1>1, <1>5, <2>3 DEF ClearsCodes
    <3>2. CASE p[1] = ClearInformation
      <4>1. Masked(p) = p /\ (UdsReply(p, stores[b.ecu]) \in Acknowledgements <=> Clears(p))
        BY <1>5, <2>1, <3>2, ClearInformationAcknowledges
      <4> QED
        BY <2>3, <3>1, <4>1
    <3>3. CASE p[1] # ClearInformation
      <4>1. p[1] # ClearDtcs
        BY <2>3 DEF UdsSids, SessionControl, EcuReset, ClearInformation, ReadInformation, TesterPresent, ClearDtcs
      <4>2. Masked(p)[1] = p[1]
        BY <1>5, <2>1, MaskedSid
      <4>3. ~Clears(Masked(p))
        BY <3>3, <4>2 DEF Clears
      <4>4. Reply(Route(b), p) \notin Acknowledgements
        BY <2>3, <3>3, <4>1, OtherRepliesAreNoAcknowledgement
      <4> QED
        BY <3>1, <4>3, <4>4
    <3> QED
      BY <3>2, <3>3
  <2> QED
    BY <1>5, <2>2, <2>3, AnswerOfAnEcu
<1> QED
  BY <1>3, <1>4, <1>5

(* A cleared store has no flag left. *)
LEMMA ClearedHasNoFlags ==
    ASSUME NEW store \in Seq(DtcConfigModel)
    PROVE  \A s \in Range(Cleared(store)) : s.flags = {}
<1>1. ASSUME NEW i \in DOMAIN store
      PROVE  Cleared(store)[i].flags = {}
  <2>1. store[i] \in DtcConfigModel
    BY LenProperties
  <2>2. Cleared(store)[i] = [store[i] EXCEPT !.flags = {}]
    BY DEF Cleared
  <2> QED
    BY <2>1, <2>2 DEF DtcConfigModel
<1>2. DOMAIN Cleared(store) = DOMAIN store
  BY DEF Cleared
<1> QED
  BY <1>1, <1>2 DEF Range

(* What ClearedIffAcknowledged says of a step, and what the last answer still *)
(* means while nothing has changed.                                           *)
Acknowledged == exchange.outcome # "none" /\ exchange.reply \in Acknowledgements

StillCleared ==
    Acknowledged => exchange.ecu \in DOMAIN stores /\ \A s \in Range(stores[exchange.ecu]) : s.flags = {}

ClearedStep ==
    exchange'.outcome # "none" =>
        /\ \A e \in DOMAIN stores : e # exchange'.ecu \/ exchange'.reply \notin Acknowledgements => stores'[e] = stores[e]
        /\ exchange'.reply \in Acknowledgements => \A s \in Range(stores'[exchange'.ecu]) : s.flags = {}

LEMMA ClearsStaySaid ==
    StartOK /\ StateOK /\ StillCleared /\ [Next]_vars => StillCleared' /\ ClearedStep
<1> SUFFICES ASSUME StartOK, StateOK, StillCleared, [Next]_vars
             PROVE  StillCleared' /\ ClearedStep
  OBVIOUS
<1>1. ASSUME exchange' = NoExchange
      PROVE  StillCleared' /\ ClearedStep
  BY <1>1 DEF StillCleared, ClearedStep, Acknowledged, NoExchange
<1>2. ASSUME UNCHANGED <<exchange, stores>>
      PROVE  StillCleared' /\ ClearedStep
  <2>1. StillCleared' <=> StillCleared
    BY <1>2 DEF StillCleared, Acknowledged
  <2> QED
    BY <1>2, <2>1 DEF StillCleared, ClearedStep, Acknowledged
<1>3. CASE Startup
  <2>1. phase # "serving" /\ exchange' = exchange
    BY <1>3 DEF Startup, Load, BuildEcus, AddRoute, Assemble
  <2> QED
    BY <1>1, <2>1 DEF StateOK
<1>4. ASSUME NEW b \in Range(endpoints), NEW p \in Payloads, Request(b, p)
      PROVE  StillCleared' /\ ClearedStep
  <2>1. phase = "serving" /\ b \in Bound
    BY <1>4 DEF Request, Bound
  <2> DEFINE routes == Resolved(b.at.rx, b.at.functional)
  <2>2. CASE routes = {} \/ FanOut(routes)
    <3>1. /\ exchange' = [NoExchange EXCEPT !.at = b.name, !.payload = p,
                                            !.outcome = IF routes = {} THEN "unrouted" ELSE "raised"]
          /\ stores' = stores
      BY <1>4, <2>2 DEF Request
    <3>2. exchange'.reply = << >>
      BY <3>1 DEF NoExchange, NoReply
    <3>3. << >> \notin Acknowledgements
      BY DEF Acknowledgements
    <3> QED
      BY <3>1, <3>2, <3>3 DEF StillCleared, ClearedStep, Acknowledged
  <2>3. CASE ~(routes = {} \/ FanOut(routes))
    <3>1. PICK r \in routes :
             /\ exchange' = [at |-> b.name, ecu |-> r.ecu, payload |-> p, reply |-> Reply(r, p), outcome |-> "handled"]
             /\ stores' = AfterRequest(r, p)
      BY <1>4, <2>3 DEF Request
    <3>2. r = Route(b)
      BY <2>1, <2>3, TheOnlyRoute
    <3>3. r.ecu = b.ecu
      BY <3>2 DEF Route
    <3>4. b.ecu \in DOMAIN stores /\ stores[b.ecu] \in Seq(DtcConfigModel)
      <4>1. Route(b) \in table
        BY <2>1 DEF StartOK
      <4>2. r.ecu \in Keys(profile)
        BY <3>2, <4>1 DEF StartOK, Routes
      <4> QED
        BY <2>1, <3>3, <4>2 DEF StateOK
    <3>5. /\ exchange'.ecu = b.ecu /\ exchange'.reply = Reply(Route(b), p) /\ exchange'.outcome = "handled"
      BY <3>1, <3>2, <3>3
    <3>6. Reply(Route(b), p) \in Acknowledgements <=> ClearsCodes(Route(b), p)
      BY <2>1, ClearedIsSaid
    <3>7. /\ DOMAIN stores' = DOMAIN stores
          /\ \A e \in DOMAIN stores :
                stores'[e] = IF e = b.ecu /\ ClearsCodes(Route(b), p) THEN Cleared(stores[e]) ELSE stores[e]
      BY <3>1, <3>2, <3>3 DEF AfterRequest
    <3>8. exchange'.reply \in Acknowledgements => \A s \in Range(stores'[b.ecu]) : s.flags = {}
      BY <3>4, <3>5, <3>6, <3>7, ClearedHasNoFlags
    <3> QED
      BY <3>4, <3>5, <3>6, <3>7, <3>8 DEF StillCleared, ClearedStep, Acknowledged
  <2> QED
    BY <2>2, <2>3
<1>5. ASSUME NEW e \in DOMAIN stores, NEW event \in Range(EcuOf(profile, e).events), ScenarioEvent(e, event)
      PROVE  StillCleared' /\ ClearedStep
  BY <1>1, <1>5 DEF ScenarioEvent
<1>6. ASSUME NEW r \in LateRoutes, LateRoute(r)
      PROVE  StillCleared' /\ ClearedStep
  BY <1>2, <1>6 DEF LateRoute
<1>7. CASE UNCHANGED vars
  BY <1>2, <1>7 DEF vars
<1> QED
  BY <1>3, <1>4, <1>5, <1>6, <1>7 DEF Next, Traffic

(* An ECU's trouble codes are cleared by a request exactly when the request   *)
(* is answered with 44 or 54, all of them, and no other ECU's: in every state *)
(* that the simulator reaches, with whatever routes were added.               *)
THEOREM ClearsAreAcknowledged == Spec => ClearedIffAcknowledged
<1>1. Init => StillCleared
  BY DEF Init, StillCleared, Acknowledged, NoExchange
<1>2. ClearedStep =>
        (exchange'.outcome # "none" =>
           LET acknowledged == exchange'.reply \in {<<PositiveSid(ClearDtcs)>>, <<PositiveSid(ClearInformation)>>}
           IN  /\ \A e \in DOMAIN stores : e # exchange'.ecu \/ ~acknowledged => stores'[e] = stores[e]
               /\ acknowledged => \A s \in Range(stores'[exchange'.ecu]) : s.flags = {})
  BY DEF ClearedStep, Acknowledgements
<1> QED
  BY <1>1, <1>2, ClearsStaySaid, InitStarts, StartStaysOK, InitState, StateStaysOK, PTL DEF Spec, ClearedIffAcknowledged
-----------------------------------------------------------------------------
(* Bit 7 of a sub-function. *)

(* A byte without its bit 7. *)
LEMMA BitSeven ==
    ASSUME NEW b \in Byte
    PROVE  /\ b \in Nat
           /\ b < 128 => b % 128 = b
           /\ b >= 128 => b % 128 = b - 128 /\ b - 128 \in Byte /\ b - 128 < 128
  BY DEF Byte

(* What a payload becomes when its bit 7 is masked off. *)
LEMMA MaskedPayload ==
    ASSUME NEW p \in Seq(Byte), p # << >>, p[1] \in SubFunctionServices, Len(p) > 1
    PROVE  /\ p[2] < 128 => Masked(p) = p /\ ~SuppressBit(p)
           /\ p[2] >= 128 => /\ Masked(p) = [p EXCEPT ![2] = @ - 128] /\ SuppressBit(p)
                             /\ Masked([p EXCEPT ![2] = @ - 128]) = [p EXCEPT ![2] = @ - 128]
                             /\ ~SuppressBit([p EXCEPT ![2] = @ - 128])
<1>1. p[2] \in Byte /\ p[2] \in Nat /\ Len(p) \in Nat /\ 2 \in DOMAIN p /\ 1 \in DOMAIN p
  BY LenProperties, ElementOfSeq, BitSeven
<1>2. HasSubFunction(p)
  BY DEF HasSubFunction
<1>3. CASE p[2] < 128
  <2>1. p[2] % 128 = p[2]
    BY <1>1, <1>3, BitSeven
  <2>2. [p EXCEPT ![2] = @ % 128] = p
    BY <1>1, <2>1
  <2> QED
    BY <1>1, <1>2, <1>3, <2>2 DEF Masked, SuppressBit
<1>4. CASE p[2] >= 128
  <2> DEFINE q == [p EXCEPT ![2] = @ - 128]
  <2>1. p[2] % 128 = p[2] - 128 /\ p[2] - 128 \in Byte /\ p[2] - 128 < 128
    BY <1>1, <1>4, BitSeven
  <2>2. q \in Seq(Byte) /\ Len(q) = Len(p)
    <3>1. 2 \in 1..Len(p)
      BY <1>1
    <3> QED
      BY <2>1, <3>1, ExceptSeq
  <2>3. q[1] = p[1] /\ q[2] = p[2] - 128 /\ 2 \in DOMAIN q
    BY <1>1
  <2>4. Masked(p) = q
    BY <1>2, <2>1 DEF Masked
  <2> HIDE DEF q
  <2>5. HasSubFunction(q)
    BY <2>2, <2>3 DEF HasSubFunction
  <2>6. q[2] % 128 = q[2] /\ q[2] \in Nat /\ q[2] < 128
    BY <2>1, <2>3, BitSeven
  <2>7. [q EXCEPT ![2] = @ % 128] = q
    BY <2>2, <2>3, <2>6
  <2>8. Masked(q) = q /\ ~SuppressBit(q)
    BY <2>5, <2>6, <2>7 DEF Masked, SuppressBit
  <2> QED
    BY <1>1, <1>2, <1>4, <2>4, <2>8 DEF SuppressBit, q
<1> QED
  BY <1>1, <1>3, <1>4

(* An answer that a service gives is not silence. *)
LEMMA AnAnswerIsNotSilence ==
    ASSUME NEW sid, NEW reply, Answered(sid, reply)
    PROVE  reply # NoReply
  BY DEF Answered, Negative, NoReply

(* The service 14, byte for byte. *)
LEMMA ClearInformationReply ==
    ASSUME NEW p \in Seq(Byte), p # << >>, p[1] = ClearInformation, NEW store
    PROVE  UdsReply(p, store) = IF p = <<ClearInformation, 255, 255, 255>> THEN <<PositiveSid(p[1])>>
                                ELSE Negative(p[1], IF Len(p) = 4 THEN OutOfRange ELSE BadLength)
<1>1. UdsReply(p, store) = ClearReply(p)
  <2>1. ~HasSubFunction(p)
    BY DEF HasSubFunction, SubFunctionServices
  <2>2. Masked(p) = p /\ ~SuppressBit(p)
    BY <2>1 DEF Masked, SuppressBit
  <2>3. Serve(p, store) = ClearReply(p)
    BY DEF Serve, SessionControl, EcuReset, ClearInformation, ReadInformation, TesterPresent
  <2> QED
    BY <2>2, <2>3 DEF UdsReply, Withheld
<1>2. ASSUME Len(p) = 4
      PROVE  SubSeq(p, 2, 4) = AllGroups <=> p = <<ClearInformation, 255, 255, 255>>
  <2>1. SubSeq(p, 2, 4) = <<p[2], p[3], p[4]>>
    <3> DEFINE s == SubSeq(p, 2, 4)
    <3>1. s \in Seq(Byte)
      BY <1>2, PartOfASequence
    <3>2. Len(s) = 3 /\ s[1] = p[2] /\ s[2] = p[3] /\ s[3] = p[4]
      BY <1>2
    <3> HIDE DEF s
    <3>3. s = <<s[1], s[2], s[3]>>
      BY <3>1, <3>2
    <3> QED
      BY <3>2, <3>3 DEF s
  <2>2. p = <<p[1], p[2], p[3], p[4]>>
    BY <1>2
  <2> QED
    BY <2>1, <2>2 DEF AllGroups
<1>3. Len(p) # 4 => p # <<ClearInformation, 255, 255, 255>>
  OBVIOUS
<1> QED
  BY <1>1, <1>2, <1>3 DEF ClearReply

(* Whatever the bytes and the stored codes: bit 7 of a sub-function withholds  *)
(* the positive answer that the request would get without it, and lets every   *)
(* refusal through; without the bit, and in service 14, there always is an     *)
(* answer.                                                                     *)
LEMMA EveryPayloadIsSuppressedRightly ==
    ASSUME NEW p \in Seq(Byte), p # << >>, p[1] \in UdsSids, NEW store \in Seq(DtcConfigModel)
    PROVE  SuppressedRightly(p, store)
<1>1. CASE p[1] = ClearInformation
  <2>1. UdsReply(p, store) = IF p = <<ClearInformation, 255, 255, 255>> THEN <<PositiveSid(p[1])>>
                             ELSE Negative(p[1], IF Len(p) = 4 THEN OutOfRange ELSE BadLength)
    BY <1>1, ClearInformationReply
  <2>2. UdsReply(p, store) # NoReply
    BY <2>1 DEF Negative, NoReply
  <2> QED
    BY <1>1, <2>1, <2>2 DEF SuppressedRightly
<1>2. CASE p[1] # ClearInformation
  <2>1. p[1] \in SubFunctionServices
    BY <1>2 DEF SubFunctionServices
  <2>2. Answered(p[1], Serve(Masked(p), store))
    <3> DEFINE q == Masked(p)
    <3>1. q[1] = p[1] /\ q[1] \in UdsSids
      BY MaskedSid
    <3> HIDE DEF q
    <3>2. Answered(q[1], Serve(q, store))
      BY <3>1, EveryServiceAnswers
    <3> QED
      BY <3>1, <3>2 DEF q
  <2>3. Serve(Masked(p), store) # NoReply
    BY <2>2, AnAnswerIsNotSilence
  <2>4. CASE Len(p) > 1 /\ p[2] >= 128
    <3> DEFINE q == [p EXCEPT ![2] = @ - 128]
    <3>1. Masked(p) = q /\ SuppressBit(p) /\ Masked(q) = q /\ ~SuppressBit(q)
      BY <2>1, <2>4, MaskedPayload
    <3> HIDE DEF q
    <3>2. UdsReply(q, store) = Serve(q, store)
      BY <3>1 DEF UdsReply, Withheld
    <3>3. UdsReply(p, store) = IF Serve(q, store)[1] # NegativeSid THEN NoReply ELSE Serve(q, store)
      BY <3>1 DEF UdsReply, Withheld
    <3>4. UdsReply(p, store) = IF UdsReply(q, store)[1] = NegativeSid THEN UdsReply(q, store) ELSE NoReply
      BY <3>2, <3>3
    <3>5. p[2] \in Nat /\ Len(p) \in Nat
      BY <2>4, ElementOfSeq, LenProperties, BitSeven
    <3>6. ~(Len(p) = 1 \/ p[2] < 128)
      BY <2>4, <3>5
    <3> QED
      BY <1>2, <3>4, <3>6 DEF SuppressedRightly, q
  <2>5. CASE ~(Len(p) > 1 /\ p[2] >= 128)
    <3>1. ~SuppressBit(p)
      BY <2>5 DEF SuppressBit, HasSubFunction
    <3>2. UdsReply(p, store) # NoReply
      BY <2>3, <3>1 DEF UdsReply, Withheld
    <3> QED
      BY <2>5, <3>2 DEF SuppressedRightly
  <2> QED
    BY <2>4, <2>5
<1> QED
  BY <1>1, <1>2

(* The rule, for the trouble codes that any profile configures. *)
THEOREM SuppressionHolds == Spec => []SuppressionRule
<1>1. StartOK => SuppressionRule
  <2> SUFFICES ASSUME StartOK, NEW key \in Keys(profile), NEW p \in Questions
               PROVE  SuppressedRightly(p, Store(profile, key))
    BY DEF SuppressionRule
  <2>1. profile \in ProfileModel /\ p \in Seq(Byte) /\ p # << >> /\ p[1] \in UdsSids
    BY DiagnosticsAssumption DEF StartOK, Byte
  <2>2. Store(profile, key) \in Seq(DtcConfigModel)
    BY <2>1, StoreShape
  <2> QED
    BY <2>1, <2>2, EveryPayloadIsSuppressedRightly
<1> QED
  BY <1>1, StartsOK, PTL
-----------------------------------------------------------------------------
(* What the log says. *)

(* In a simulator that serves, a name is that of one endpoint. *)
LEMMA NamesAreUnique ==
    ASSUME StartOK, phase = "serving", NEW b \in Bound
    PROVE  EndpointNamed(b.name) = b
<1>1. Accepted(profile) /\ endpoints = Bindings(profile) /\ TransportAccepts(endpoints)
  BY DEF StartOK
<1>2. DOMAIN endpoints = 1..Len(endpoints) /\ \A c \in Bound : \E i \in 1..Len(endpoints) : c = endpoints[i]
  BY <1>1, EndpointShapes
<1>3. \A i, j \in DOMAIN endpoints : endpoints[i].name = endpoints[j].name => i = j
  BY <1>1 DEF TransportAccepts, IsInjective
<1>4. \A c \in Bound : c.name = b.name => c = b
  BY <1>2, <1>3
<1> QED
  BY <1>4 DEF EndpointNamed

(* A reply leaves from an endpoint of the same ECU: reply_via names one. *)
LEMMA RepliesStayWithTheEcu ==
    ASSUME StartOK, phase = "serving", NEW b \in Bound
    PROVE  ReplyVia(b) \in Bound /\ ReplyVia(b).ecu = b.ecu
<1>1. /\ Accepted(profile) /\ endpoints = Bindings(profile)
      /\ profile \in ProfileModel /\ Bound = BindingsOf(profile)
  BY EndpointShapes DEF StartOK
<1>2. CASE b.at.via = NoVia
  BY <1>2 DEF ReplyVia
<1>3. CASE b.at.via # NoVia
  <2>1. PICK ecu \in Range(profile.ecus) : b.at \in Range(ecu.endpoints) /\ ecu.key = b.ecu
    BY <1>1, BindingShape
  <2>2. EcuOK(ecu)
    BY <1>1, <2>1 DEF Accepted, Range
  <2>3. b.at.via \in Range([i \in DOMAIN ecu.endpoints |-> ecu.endpoints[i].name]) \cup {NoVia}
    BY <2>1, <2>2 DEF EcuOK
  <2>4. PICK i \in DOMAIN ecu.endpoints : ecu.endpoints[i].name = b.at.via
    BY <1>3, <2>3 DEF Range
  <2> DEFINE e == ecu.endpoints[i]
             c == BindingOf(ecu, e)
  <2>5. e \in Range(ecu.endpoints) /\ e.name = b.at.via
    BY <2>4 DEF Range
  <2>6. c.ecu = b.ecu /\ c.name = b.ecu \o b.at.via
    BY <2>1, <2>5 DEF BindingOf, EndpointName
  <2> HIDE DEF e
  <2>7. c \in Bound
    BY <1>1, <2>5 DEF BindingsOf
  <2> HIDE DEF c
  <2>8. EndpointNamed(c.name) = c
    BY <2>7, NamesAreUnique
  <2>9. ReplyVia(b) = c
    BY <1>3, <2>6, <2>8 DEF ReplyVia
  <2> QED
    BY <2>6, <2>7, <2>9
<1> QED
  BY <1>2, <1>3

(* The first route at an endpoint's address is the endpoint's. *)
LEMMA FirstIsConfigured ==
    ASSUME StartOK, phase = "serving", NEW b \in Bound
    PROVE  /\ Resolved(b.at.rx, b.at.functional) # {}
           /\ First(Resolved(b.at.rx, b.at.functional)) = Route(b)
<1> DEFINE routes == Resolved(b.at.rx, b.at.functional)
<1>1. Accepted(profile) /\ endpoints = Bindings(profile) /\ ~Ambiguous /\ Route(b) \in table
  BY DEF StartOK
<1>2. \A c \in Bound : Route(c).address = c.at.rx /\ Route(c).functional = c.at.functional
  BY <1>1, EndpointShapes
<1>3. Route(b) \in routes
  BY <1>1, <1>2 DEF Resolved
<1>4. \A r \in routes : r.address = b.at.rx
  BY DEF Resolved
<1>5. \A r \in routes : r \in {Route(c) : c \in Bound} => r = Route(b)
  BY <1>1, <1>2, <1>4 DEF Ambiguous
<1> HIDE DEF routes
<1>6. First(routes) = Route(b)
  BY <1>3, <1>5 DEF First
<1> QED
  BY <1>3, <1>6 DEF routes

(* What is remembered of a request until the publisher comes to it. *)
HandledOK ==
    exchange.outcome # "none" =>
        \E b \in Bound :
            /\ b.name = exchange.at
            /\ exchange.outcome \in {"handled", "raised"}
            /\ exchange.outcome = "handled" =>
                /\ exchange.ecu = b.ecu
                /\ exchange.payload # << >> /\ exchange.reply # NoReply =>
                    \/ exchange.payload[1] \in ObdSids /\ Owner(b.ecu, exchange.payload[1]) = "obd"
                    \/ exchange.payload[1] \in UdsSids /\ Owner(b.ecu, exchange.payload[1]) = "uds"
                    \/ exchange.reply = Negative(exchange.payload[1], NotSupported)
            /\ exchange.outcome = "raised" =>
                \E q, r \in table : /\ q.address = b.at.rx /\ q.functional = TRUE
                                    /\ r.address = b.at.rx /\ r.functional = TRUE /\ q # r

LEMMA HandledStaysOK == StartOK /\ StateOK /\ HandledOK /\ [Next]_vars => HandledOK'
<1> SUFFICES ASSUME StartOK, StateOK, HandledOK, [Next]_vars
             PROVE  HandledOK'
  OBVIOUS
<1>1. ASSUME exchange' = NoExchange
      PROVE  HandledOK'
  BY <1>1 DEF HandledOK, NoExchange
<1>2. ASSUME UNCHANGED <<exchange, endpoints>>, table \subseteq table'
      PROVE  HandledOK'
  <2>1. Bound' = Bound /\ \A ecu, sid : Owner(ecu, sid)' = Owner(ecu, sid)
    BY <1>2 DEF Bound, Owner, Served
  <2> QED
    BY <1>2, <2>1 DEF HandledOK
<1>3. CASE Startup
  <2>1. phase # "serving" /\ exchange' = exchange
    BY <1>3 DEF Startup, Load, BuildEcus, AddRoute, Assemble
  <2> QED
    BY <1>1, <2>1 DEF StateOK
<1>4. ASSUME NEW b \in Range(endpoints), NEW p \in Payloads, Request(b, p)
      PROVE  HandledOK'
  <2>1. /\ phase = "serving" /\ endpoints' = endpoints /\ table' = table /\ b \in Bound /\ Bound' = Bound
        /\ \A ecu, sid : Owner(ecu, sid)' = Owner(ecu, sid)
    BY <1>4 DEF Request, Bound, Owner, Served
  <2>2. Resolved(b.at.rx, b.at.functional) # {}
    BY <2>1, FirstIsConfigured
  <2>3. CASE FanOut(Resolved(b.at.rx, b.at.functional))
    <3>1. exchange' = [NoExchange EXCEPT !.at = b.name, !.payload = p, !.outcome = "raised"]
      BY <1>4, <2>2, <2>3 DEF Request
    <3>2. exchange'.at = b.name /\ exchange'.outcome = "raised"
      BY <3>1 DEF NoExchange
    <3>3. IsFiniteSet(table) /\ Compatible(table) /\ table \subseteq Routes
      BY <2>1 DEF StartOK
    <3>4. PICK q \in table, r \in table : /\ q.address = b.at.rx /\ q.functional = b.at.functional
                                          /\ r.address = b.at.rx /\ r.functional = b.at.functional /\ q # r
      BY <2>3, <3>3, RoutesAt
    <3>5. q.functional /\ r.functional
      BY <3>3, <3>4 DEF Compatible
    <3>6. q.functional = TRUE /\ r.functional = TRUE
      BY <3>3, <3>5 DEF Routes
    <3> QED
      BY <2>1, <3>2, <3>4, <3>6 DEF HandledOK
  <2>4. CASE ~FanOut(Resolved(b.at.rx, b.at.functional))
    <3>1. PICK r \in Resolved(b.at.rx, b.at.functional) :
             exchange' = [at |-> b.name, ecu |-> r.ecu, payload |-> p, reply |-> Reply(r, p), outcome |-> "handled"]
      BY <1>4, <2>2, <2>4 DEF Request
    <3>2. r = Route(b)
      BY <2>1, <2>4, TheOnlyRoute
    <3>3. r.ecu = b.ecu
      BY <3>2 DEF Route
    <3>4. /\ exchange'.at = b.name /\ exchange'.outcome = "handled" /\ exchange'.ecu = b.ecu
          /\ exchange'.payload = p /\ exchange'.reply = Reply(Route(b), p)
      BY <3>1, <3>2, <3>3
    <3>5. ASSUME p # << >>, Reply(Route(b), p) # NoReply
          PROVE  \/ p[1] \in ObdSids /\ Owner(b.ecu, p[1]) = "obd"
                 \/ p[1] \in UdsSids /\ Owner(b.ecu, p[1]) = "uds"
                 \/ Reply(Route(b), p) = Negative(p[1], NotSupported)
      BY <2>1, <3>5, AnswerOfAnEcu
    <3> QED
      BY <2>1, <3>4, <3>5 DEF HandledOK
  <2> QED
    BY <2>3, <2>4
<1>5. ASSUME NEW e \in DOMAIN stores, NEW event \in Range(EcuOf(profile, e).events), ScenarioEvent(e, event)
      PROVE  HandledOK'
  BY <1>1, <1>5 DEF ScenarioEvent
<1>6. ASSUME NEW r \in LateRoutes, LateRoute(r)
      PROVE  HandledOK'
  BY <1>2, <1>6 DEF LateRoute
<1>7. CASE UNCHANGED vars
  BY <1>2, <1>7 DEF vars
<1> QED
  BY <1>3, <1>4, <1>5, <1>6, <1>7 DEF Next, Traffic

LEMMA ReportsOK == StartOK /\ StateOK /\ HandledOK => ReportedAsHandled
<1> SUFFICES ASSUME StartOK, StateOK, HandledOK, exchange.outcome # "none"
             PROVE  ReportedAsHandled
  BY DEF ReportedAsHandled
<1>1. phase = "serving"
  BY DEF StateOK, NoExchange
<1>2. PICK b \in Bound :
            /\ b.name = exchange.at
            /\ exchange.outcome \in {"handled", "raised"}
            /\ exchange.outcome = "handled" =>
                /\ exchange.ecu = b.ecu
                /\ exchange.payload # << >> /\ exchange.reply # NoReply =>
                    \/ exchange.payload[1] \in ObdSids /\ Owner(b.ecu, exchange.payload[1]) = "obd"
                    \/ exchange.payload[1] \in UdsSids /\ Owner(b.ecu, exchange.payload[1]) = "uds"
                    \/ exchange.reply = Negative(exchange.payload[1], NotSupported)
            /\ exchange.outcome = "raised" =>
                \E q, r \in table : /\ q.address = b.at.rx /\ q.functional = TRUE
                                    /\ r.address = b.at.rx /\ r.functional = TRUE /\ q # r
  BY DEF HandledOK
<1> DEFINE routes == Resolved(b.at.rx, b.at.functional)
<1>3. EndpointNamed(exchange.at) = b
  BY <1>1, <1>2, NamesAreUnique
<1>4. routes # {} /\ First(routes) = Route(b) /\ Route(b).ecu = b.ecu
  BY <1>1, FirstIsConfigured DEF Route
<1>5. /\ Report.ecu = b.ecu /\ Report.outcome = Outcome(routes) /\ Report.rx = b.at.rx
      /\ Report.tx = ReplyVia(b).at.tx /\ Report.summary = Summary(exchange.payload)
  BY <1>3, <1>4 DEF Report
<1> HIDE DEF routes
<1>6. b.ecu # Nobody
  <2>1. profile \in ProfileModel /\ Bound = BindingsOf(profile)
    BY <1>1, EndpointShapes DEF StartOK
  <2> QED
    BY <2>1, BindingShape DEF Name, Nobody
<1>7. \E c \in Bound : c.ecu = Report.ecu /\ c.at.tx = Report.tx
  BY <1>1, <1>5, RepliesStayWithTheEcu
<1>8. ASSUME exchange.outcome = "handled"
      PROVE  /\ Report.ecu = exchange.ecu
             /\ Report.outcome = (IF exchange.reply = NoReply THEN "no_response" ELSE "responded")
             /\ exchange.payload # << >> /\ exchange.reply # NoReply =>
                 \/ Report.summary.protocol = Owner(exchange.ecu, exchange.payload[1])
                 \/ exchange.reply = Negative(exchange.payload[1], NotSupported)
  <2>1. Report.ecu = exchange.ecu
    BY <1>2, <1>5, <1>8
  <2>2. Report.outcome = (IF exchange.reply = NoReply THEN "no_response" ELSE "responded")
    BY <1>4, <1>5, <1>8 DEF Outcome
  <2>3. ASSUME exchange.payload # << >>, exchange.reply # NoReply, exchange.reply # Negative(exchange.payload[1], NotSupported)
        PROVE  Report.summary.protocol = Owner(exchange.ecu, exchange.payload[1])
    <3> DEFINE p == exchange.payload
    <3>1. CASE p[1] \in ObdSids /\ Owner(b.ecu, p[1]) = "obd"
      <4>1. Summary(p).protocol = "obd"
        BY <2>3, <3>1 DEF Summary, ObdServices, ObdSids, UdsServices
      <4> QED
        BY <1>2, <1>5, <1>8, <3>1, <4>1
    <3>2. CASE p[1] \in UdsSids /\ Owner(b.ecu, p[1]) = "uds"
      <4>1. p[1] \in UdsServices /\ p[1] \notin ObdServices
        BY <3>2 DEF UdsSids, SessionControl, EcuReset, ClearInformation, ReadInformation, TesterPresent,
                    UdsServices, ObdServices
      <4>2. Summary(p).protocol = "uds"
        BY <2>3, <4>1 DEF Summary
      <4> QED
        BY <1>2, <1>5, <1>8, <3>2, <4>2
    <3> QED
      BY <1>2, <1>8, <2>3, <3>1, <3>2
  <2> QED
    BY <2>1, <2>2, <2>3
<1>9. ASSUME exchange.outcome = "raised"
      PROVE  Report.outcome = "error" /\ FanOut(Resolved(Report.rx, TRUE))
  <2>1. Report.outcome = "error"
    BY <1>5, <1>9 DEF Outcome
  <2> DEFINE yes == TRUE
  <2>2. \E q, r \in table : /\ q.address = b.at.rx /\ q.functional = yes
                            /\ r.address = b.at.rx /\ r.functional = yes /\ q # r
    BY <1>2, <1>9
  <2> HIDE DEF yes
  <2>3. FanOut(Resolved(b.at.rx, yes))
    BY <2>2, RoutesAt DEF StartOK
  <2> QED
    BY <1>5, <2>1, <2>3 DEF yes
<1> QED
  BY <1>2, <1>5, <1>6, <1>7, <1>8, <1>9 DEF ReportedAsHandled

(* What the log says of a request, however late the publisher comes to it,    *)
(* is what became of it: the ECU that handled it and not one whose route was  *)
(* added since, an answer exactly if one was sent, by an endpoint of that     *)
(* ECU, the protocol that answered, and an error only for an address with     *)
(* several routes.                                                            *)
THEOREM ReportsAreTrue == Spec => []ReportedAsHandled
<1>1. Init => HandledOK
  BY DEF Init, HandledOK, NoExchange
<1> QED
  BY <1>1, HandledStaysOK, ReportsOK, InitStarts, StartStaysOK, InitState, StateStaysOK, PTL DEF Spec
-----------------------------------------------------------------------------
(* The codes of an accepted profile stay what they are. *)

(* A store of an accepted profile: as many codes as a count of one byte can say, *)
(* each of them two bytes.                                                         *)
StoreOK(store) ==
    /\ store \in Seq(DtcConfigModel) /\ Len(store) <= MAX_DTCS
    /\ \A i \in 1..Len(store) : CodeOK(store[i].code)

ConfiguredOK ==
    /\ \A e \in DOMAIN stores : StoreOK(stores[e])
    /\ phase \in {"routing", "serving"} => values = Values[profile.kind]

(* Only flags change. *)
LEMMA CodesStay ==
    ASSUME NEW store, StoreOK(store), NEW code, NEW flag \in Flags
    PROVE  StoreOK(Cleared(store)) /\ StoreOK(ClearedCode(store, code)) /\ StoreOK(Raised(store, code, flag))
<1> DEFINE n == Len(store)
<1>1. /\ n \in Nat /\ DOMAIN store = 1..n /\ n <= MAX_DTCS
      /\ \A i \in 1..n : store[i] \in DtcConfigModel /\ CodeOK(store[i].code)
  BY DEF StoreOK
<1>2. /\ Cleared(store) \in Seq(DtcConfigModel) /\ ClearedCode(store, code) \in Seq(DtcConfigModel)
      /\ Raised(store, code, flag) \in Seq(DtcConfigModel)
  BY StoresKeepTheirShape DEF StoreOK
<1> HIDE DEF n
<1>3. ASSUME NEW new \in Seq(DtcConfigModel), DOMAIN new = 1..n, \A i \in 1..n : new[i].code = store[i].code
      PROVE  StoreOK(new)
  <2>1. Len(new) = n
    BY <1>1, <1>3
  <2> QED
    BY <1>1, <1>3, <2>1 DEF StoreOK
<1>4. ASSUME NEW i \in 1..n
      PROVE  /\ [store[i] EXCEPT !.flags = {}].code = store[i].code
             /\ [store[i] EXCEPT !.flags = @ \cup {flag}].code = store[i].code
  <2>1. store[i] \in DtcConfigModel
    BY <1>1
  <2> QED
    BY <2>1 DEF DtcConfigModel
<1>5. StoreOK(Cleared(store))
  <2>1. DOMAIN Cleared(store) = 1..n /\ \A i \in 1..n : Cleared(store)[i].code = store[i].code
    BY <1>1, <1>4 DEF Cleared
  <2> QED
    BY <1>2, <1>3, <2>1
<1>6. StoreOK(ClearedCode(store, code))
  <2>1. DOMAIN ClearedCode(store, code) = 1..n /\ \A i \in 1..n : ClearedCode(store, code)[i].code = store[i].code
    BY <1>1, <1>4 DEF ClearedCode
  <2> QED
    BY <1>2, <1>3, <2>1
<1>7. StoreOK(Raised(store, code, flag))
  <2>1. DOMAIN Raised(store, code, flag) = 1..n /\ \A i \in 1..n : Raised(store, code, flag)[i].code = store[i].code
    BY <1>1, <1>4 DEF Raised
  <2> QED
    BY <1>2, <1>3, <2>1
<1> QED
  BY <1>5, <1>6, <1>7

LEMMA EventsKeepCodes ==
    ASSUME NEW store, StoreOK(store), NEW event \in DtcEvent
    PROVE  StoreOK(AfterEvent(store, event))
<1>1. event.action \in {"raise_pending", "raise_confirmed", "request_indicator", "clear_code", "clear_all"}
  BY DEF DtcEvent
<1>2. {"pending", "confirmed", "indicator_requested"} \subseteq Flags
  BY DEF Flags
<1>3. /\ StoreOK(Cleared(store)) /\ StoreOK(ClearedCode(store, event.code))
      /\ StoreOK(Raised(store, event.code, "pending")) /\ StoreOK(Raised(store, event.code, "confirmed"))
      /\ StoreOK(Raised(store, event.code, "indicator_requested"))
  BY <1>2, CodesStay
<1> QED
  BY <1>1, <1>3 DEF AfterEvent

LEMMA AcceptedStores ==
    ASSUME NEW p \in ProfileModel, Accepted(p), NEW key \in Keys(p)
    PROVE  StoreOK(Store(p, key))
<1> DEFINE ecu == EcuOf(p, key)
<1>1. ecu \in Range(p.ecus) /\ ecu.dtcs \in Seq(DtcConfigModel)
  BY ConfiguredEcu, Shapes
<1>2. EcuOK(ecu)
  BY <1>1 DEF Accepted, Range
<1>3. Store(p, key) = ecu.dtcs
  BY <1>1 DEF Store
<1> DEFINE dtcs == ecu.dtcs
           codes == [i \in DOMAIN dtcs |-> dtcs[i].code]
<1>4. Len(dtcs) <= MAX_DTCS /\ \A code \in Range(codes) : CodeOK(code)
  BY <1>2 DEF EcuOK, CodesFit
<1> HIDE DEF dtcs
<1>5. \A i \in DOMAIN dtcs : CodeOK(dtcs[i].code)
  BY <1>4 DEF Range
<1>6. dtcs \in Seq(DtcConfigModel)
  BY <1>1 DEF dtcs
<1> QED
  BY <1>3, <1>4, <1>5, <1>6 DEF StoreOK, dtcs

LEMMA ConfiguredStaysOK == StartOK /\ StateOK /\ ConfiguredOK /\ [Next]_vars => ConfiguredOK'
<1> SUFFICES ASSUME StartOK, StateOK, ConfiguredOK, [Next]_vars
             PROVE  ConfiguredOK'
  OBVIOUS
<1>1. profile \in ProfileModel
  BY DiagnosticsAssumption DEF StartOK
<1>2. CASE Load
  BY <1>2 DEF Load, ConfiguredOK
<1>3. CASE BuildEcus
  <2>1. Accepted(profile) /\ profile' = profile /\ values' = Values[profile.kind]
    BY <1>3 DEF BuildEcus, StartOK
  <2>2. \A e \in Keys(profile) : StoreOK(Store(profile, e))
    BY <1>1, <2>1, AcceptedStores
  <2>3. stores' = stores \/ stores' = [e \in Keys(profile) |-> Store(profile, e)]
    BY <1>3 DEF BuildEcus
  <2> QED
    BY <2>1, <2>2, <2>3 DEF ConfiguredOK
<1>4. CASE AddRoute
  BY <1>4 DEF AddRoute, ConfiguredOK
<1>5. CASE Assemble
  BY <1>5 DEF Assemble, ConfiguredOK
<1>6. ASSUME NEW b \in Range(endpoints), NEW p \in Payloads, Request(b, p)
      PROVE  ConfiguredOK'
  <2>1. UNCHANGED <<profile, phase, values>>
    BY <1>6 DEF Request
  <2>2. stores' = stores \/ \E r \in table : stores' = AfterRequest(r, p)
    BY <1>6 DEF Request, Resolved
  <2>3. ASSUME NEW r, stores' = AfterRequest(r, p), NEW e \in DOMAIN stores'
        PROVE  StoreOK(stores'[e])
    <3>1. e \in DOMAIN stores /\ StoreOK(stores[e])
      BY <2>3 DEF AfterRequest, ConfiguredOK
    <3>2. "pending" \in Flags
      BY DEF Flags
    <3>3. StoreOK(Cleared(stores[e]))
      BY <3>1, <3>2, CodesStay
    <3> QED
      BY <2>3, <3>1, <3>3 DEF AfterRequest
  <2> QED
    BY <2>1, <2>2, <2>3 DEF ConfiguredOK
<1>7. ASSUME NEW e \in DOMAIN stores, NEW event \in Range(EcuOf(profile, e).events), ScenarioEvent(e, event)
      PROVE  ConfiguredOK'
  <2>1. stores' = [stores EXCEPT ![e] = AfterEvent(@, event)] /\ UNCHANGED <<profile, phase, values>>
    BY <1>7 DEF ScenarioEvent
  <2>2. e \in Keys(profile) /\ StoreOK(stores[e])
    BY DEF StateOK, ConfiguredOK
  <2>3. event \in DtcEvent
    BY <1>1, <2>2, ConfiguredEcu, Shapes, Contained
  <2>4. StoreOK(AfterEvent(stores[e], event))
    BY <2>2, <2>3, EventsKeepCodes
  <2> QED
    BY <2>1, <2>4 DEF ConfiguredOK
<1>8. ASSUME NEW r \in LateRoutes, LateRoute(r)
      PROVE  ConfiguredOK'
  BY <1>8 DEF LateRoute, ConfiguredOK
<1>9. CASE UNCHANGED vars
  BY <1>9 DEF vars, ConfiguredOK
<1> QED
  BY <1>2, <1>3, <1>4, <1>5, <1>6, <1>7, <1>8, <1>9 DEF Next, Startup, Traffic

LEMMA StoresConfigured == Spec => [](StartOK /\ StateOK /\ ConfiguredOK)
<1>1. Init => ConfiguredOK
  BY DEF Init, ConfiguredOK
<1> QED
  BY <1>1, StatesOK, ConfiguredStaysOK, PTL DEF Spec
-----------------------------------------------------------------------------
(* Replies are made of bytes. *)

LEMMA JoinedBytes ==
    ASSUME NEW s \in Seq(Byte), NEW t \in Seq(Byte)
    PROVE  s \o t \in Seq(Byte) /\ Len(s \o t) = Len(s) + Len(t)
  OBVIOUS

LEMMA FewBytes ==
    ASSUME NEW a \in Byte, NEW b \in Byte, NEW c \in Byte
    PROVE  << >> \in Seq(Byte) /\ <<a>> \in Seq(Byte) /\ <<a, b>> \in Seq(Byte) /\ <<a, b, c>> \in Seq(Byte)
  OBVIOUS

LEMMA FlatBytes ==
    ASSUME NEW n \in Nat, NEW ss, ss = [i \in 1..n |-> ss[i]], \A i \in 1..n : ss[i] \in Seq(Byte)
    PROVE  ss \in Seq(Seq(Byte)) /\ Len(ss) = n /\ FlattenSeq(ss) \in Seq(Byte)
<1>1. ss \in [1..n -> Seq(Byte)]
  OBVIOUS
<1>2. ss \in Seq(Seq(Byte)) /\ Len(ss) = n
  BY <1>1
<1> QED
  BY <1>2, FlattenedSeq

(* A number of two bytes, as its bytes. *)
LEMMA TwoBytes ==
    ASSUME NEW n \in Nat, n < 65536
    PROVE  n \div 256 \in Byte /\ n % 256 \in Byte
<1>1. n \in Int /\ 0 <= n /\ n < 65536
  OBVIOUS
<1>2. n \div 256 \in Int /\ 0 <= n \div 256 /\ n \div 256 < 256
  BY <1>1
<1>3. n % 256 \in 0..255
  BY <1>1
<1> QED
  BY <1>2, <1>3 DEF Byte

LEMMA InAnInterval ==
    ASSUME NEW m \in Int, NEW n \in Int, NEW x \in m..n
    PROVE  x \in Int /\ m <= x /\ x <= n
  OBVIOUS

(* Two bits, two bits and twelve. *)
LEMMA CodeIsBytes ==
    ASSUME NEW code, CodeOK(code)
    PROVE  CodeBytes(code) \in Seq(Byte) /\ Len(CodeBytes(code)) = 2
<1> DEFINE number == code[1] * 16384 + code[2] * 4096 + code[3]
           high == number \div 256
           low == number % 256
<1>1. number \in Nat /\ number < 65536
  <2> DEFINE a == code[1]
             b == code[2]
             c == code[3]
  <2>1. a \in Int /\ b \in Int /\ c \in Int /\ 0 <= a /\ a <= 3 /\ 0 <= b /\ b <= 3 /\ 0 <= c /\ c <= 4095
    <3> DEFINE top == 4095
    <3>1. code[1] \in 0..3 /\ code[2] \in 0..3 /\ code[3] \in 0..top
      BY Zenon DEF CodeOK
    <3>2. top \in Int /\ top <= 4095
      OBVIOUS
    <3> HIDE DEF top
    <3>3. code[1] \in Int /\ code[2] \in Int /\ 0 <= code[1] /\ code[1] <= 3 /\ 0 <= code[2] /\ code[2] <= 3
      BY <3>1
    <3>4. code[3] \in Int /\ 0 <= code[3] /\ code[3] <= top
      BY <3>1, <3>2
    <3>5. code[3] <= 4095
      BY <3>2, <3>4
    <3> QED
      BY <3>3, <3>4, <3>5
  <2> HIDE DEF a, b, c
  <2>2. /\ a * 16384 + b * 4096 + c \in Int /\ 0 <= a * 16384 + b * 4096 + c
        /\ a * 16384 + b * 4096 + c < 65536
    BY <2>1
  <2> QED
    BY <2>2 DEF a, b, c
<1>2. CodeBytes(code) = <<high, low>>
  BY DEF CodeBytes
<1> HIDE DEF number
<1> HIDE DEF high, low
<1>3. high \in Byte /\ low \in Byte
  BY <1>1, TwoBytes DEF high, low
<1>4. <<high, low>> \in Seq(Byte) /\ Len(<<high, low>>) = 2
  BY <1>3
<1> QED
  BY <1>2, <1>4

LEMMA StatusIsAByte ==
    ASSUME NEW flags
    PROVE  StatusByte(flags) \in {0, 4, 8, 12, 128, 132, 136, 140} /\ StatusByte(flags) \in Byte
  BY DEF StatusByte, Byte

LEMMA RecordIsBytes ==
    ASSUME NEW s, CodeOK(s.code)
    PROVE  /\ Record(s) \in Seq(Byte) /\ Len(Record(s)) = 4
           /\ Record(s)[1] = CodeBytes(s.code)[1] /\ Record(s)[2] = CodeBytes(s.code)[2]
<1> DEFINE code == CodeBytes(s.code)
           status == StatusByte(s.flags)
<1>1. code \in Seq(Byte) /\ Len(code) = 2 /\ status \in Byte
  BY CodeIsBytes, StatusIsAByte
<1>2. Record(s) = code \o <<1, status>>
  BY DEF Record
<1> HIDE DEF code, status
<1>3. <<1, status>> \in Seq(Byte) /\ Len(<<1, status>>) = 2
  BY <1>1 DEF Byte
<1> DEFINE rest == <<1, status>>
<1> HIDE DEF rest
<1>4. code \o rest \in Seq(Byte) /\ Len(code \o rest) = 4 /\ (code \o rest)[1] = code[1] /\ (code \o rest)[2] = code[2]
  <2>1. rest \in Seq(Byte) /\ Len(rest) = 2
    BY <1>3 DEF rest
  <2>2. code \o rest \in Seq(Byte) /\ Len(code \o rest) = Len(code) + Len(rest)
    BY <1>1, <2>1, JoinedBytes
  <2>3. (code \o rest)[1] = code[1] /\ (code \o rest)[2] = code[2]
    BY <1>1, <2>1
  <2> QED
    BY <1>1, <2>1, <2>2, <2>3
<1> QED
  BY <1>2, <1>4 DEF code, rest

(* The least and the greatest of two numbers. *)
LEMMA OfTwo ==
    ASSUME NEW n \in Int, NEW m \in Int
    PROVE  /\ Min({n, m}) = (IF n <= m THEN n ELSE m)
           /\ Max({n, m}) = (IF n <= m THEN m ELSE n)
<1>1. Min({n, m}) \in {n, m} /\ \A y \in {n, m} : Min({n, m}) <= y
  <2>1. \E x \in {n, m} : \A y \in {n, m} : x <= y
    OBVIOUS
  <2> QED
    BY <2>1 DEF Min
<1>2. Max({n, m}) \in {n, m} /\ \A y \in {n, m} : Max({n, m}) >= y
  <2>1. \E x \in {n, m} : \A y \in {n, m} : x >= y
    OBVIOUS
  <2> QED
    BY <2>1 DEF Max
<1> QED
  BY <1>1, <1>2

(* Whatever a signal's value, its field does not overflow. *)
LEMMA EncodedIsBytes ==
    ASSUME NEW d \in Definitions, NEW v, v[d.signal] \in Int
    PROVE  Encoded(d, v) \in Seq(Byte)
<1> DEFINE n == RawValue(d.by, v[d.signal])
           top == Top(d.by)
           high == n \div 256
           low == n % 256
<1>1. \E raw \in Int : n = Clamped(d.by, raw)
  <2> DEFINE value == v[d.signal]
  <2>1. d.by \in {"percent", "temp", "trim", "timing", "quarter", "hundredth", "thousandth", "byte", "word"}
    BY DEF Definitions
  <2>2. value \in Int
    OBVIOUS
  <2> HIDE DEF value
  <2>3. /\ (value * 255) \div 100 \in Int /\ value + 40 \in Int /\ (value * 128 + 12800) \div 100 \in Int
        /\ (value + 64) * 2 \in Int /\ value * 4 \in Int /\ value * 100 \in Int /\ value * 1000 \in Int
    BY <2>2
  <2> QED
    BY <2>1, <2>2, <2>3 DEF RawValue, value
<1>2. top \in {255, 65535} /\ (top = 65535 <=> d.by \in Words)
  BY DEF Top
<1> HIDE DEF n
<1>3. n \in 0..top
  <2>1. PICK raw \in Int : n = Max({0, Min({top, raw})})
    BY <1>1 DEF Clamped
  <2> HIDE DEF top
  <2>2. Min({top, raw}) = (IF top <= raw THEN top ELSE raw)
    BY <1>2, OfTwo
  <2> DEFINE m == Min({top, raw})
  <2>3. m \in Int /\ m <= top
    BY <1>2, <2>2
  <2> HIDE DEF m
  <2>4. Max({0, m}) = (IF 0 <= m THEN m ELSE 0)
    <3> HIDE DEF top
    <3>1. 0 \in Int /\ m \in Int
      BY <2>3
    <3>2. Max({0, m}) = (IF 0 <= m THEN m ELSE 0)
      BY <3>1, OfTwo
    <3> QED
      BY <3>2
  <2> QED
    BY <1>2, <2>1, <2>3, <2>4 DEF m
<1>4. CASE d.by \in Words
  <2>1. Encoded(d, v) = <<high, low>>
    BY <1>4 DEF Encoded, n
  <2>2. n \in Nat /\ n < 65536
    <3>1. top = 65535
      BY <1>2, <1>4
    <3> HIDE DEF top
    <3>2. n \in Int /\ 0 <= n /\ n <= top
      BY <1>2, <1>3, InAnInterval
    <3> QED
      BY <3>1, <3>2
  <2> HIDE DEF high, low
  <2>3. high \in Byte /\ low \in Byte
    BY <2>2, TwoBytes DEF high, low
  <2> QED
    BY <2>1, <2>3
<1>5. CASE d.by \notin Words
  <2>1. Encoded(d, v) = <<n>>
    BY <1>5 DEF Encoded, n
  <2>2. n \in Byte
    <3>1. top = 255
      BY <1>2, <1>5
    <3> HIDE DEF top
    <3> QED
      BY <1>3, <3>1 DEF Byte
  <2> QED
    BY <2>1, <2>2
<1> QED
  BY <1>4, <1>5

LEMMA MaskIsBytes ==
    ASSUME NEW base, NEW pids
    PROVE  Mask(base, pids) \in Seq(Byte)
<1>1. ASSUME NEW k \in 1..4
      PROVE  MaskByte(base, pids, k) \in Byte
  <2> DEFINE bit(n) == IF base + 8 * k - n \in MaskSet(base, pids) THEN 1 ELSE 0
  <2>1. MaskByte(base, pids, k) = bit(0) + 2 * bit(1) + 4 * bit(2) + 8 * bit(3) + 16 * bit(4) + 32 * bit(5)
                                  + 64 * bit(6) + 128 * bit(7)
    BY DEF MaskByte
  <2>2. /\ bit(0) \in 0..1 /\ bit(1) \in 0..1 /\ bit(2) \in 0..1 /\ bit(3) \in 0..1
        /\ bit(4) \in 0..1 /\ bit(5) \in 0..1 /\ bit(6) \in 0..1 /\ bit(7) \in 0..1
    OBVIOUS
  <2> HIDE DEF bit
  <2> QED
    BY <2>1, <2>2 DEF Byte
<1> DEFINE mask == Mask(base, pids)
<1>2. mask \in [1..4 -> Byte]
  BY <1>1 DEF Mask
<1> HIDE DEF mask
<1>3. \A n \in Nat : [1..n -> Byte] \subseteq Seq(Byte)
  OBVIOUS
<1>4. mask \in Seq(Byte)
  BY <1>2, <1>3
<1> QED
  BY <1>4 DEF mask
-----------------------------------------------------------------------------
(* What is picked from a sequence. *)

(* Places can be counted off: the n-th is the one with n at or before it. *)
LEMMA Ranks ==
    ASSUME NEW m \in Nat, NEW S \in SUBSET (1..m)
    PROVE  LET upto(p) == {q \in S : q <= p}
               nth(n)  == CHOOSE p \in S : Cardinality(upto(p)) = n
               c       == Cardinality(S)
           IN  /\ c \in Nat /\ IsFiniteSet(S)
               /\ \A n \in 1..c : nth(n) \in S /\ Cardinality(upto(nth(n))) = n
               /\ \A p \in S : Cardinality(upto(p)) \in 1..c /\ nth(Cardinality(upto(p))) = p
<1> DEFINE upto(p) == {q \in S : q <= p}
           c       == Cardinality(S)
           rank    == [p \in S |-> Cardinality(upto(p))]
           nth(n)  == CHOOSE p \in S : Cardinality(upto(p)) = n
<1>1. IsFiniteSet(S) /\ c \in Nat
  <2>1. IsFiniteSet(1..m)
    BY FS_Interval
  <2> QED
    BY <2>1, FS_Subset, FS_CardinalityType
<1>2. ASSUME NEW p \in S
      PROVE  IsFiniteSet(upto(p)) /\ Cardinality(upto(p)) \in 1..c
  <2>1. upto(p) \subseteq S /\ p \in upto(p)
    OBVIOUS
  <2> HIDE DEF upto
  <2>2. IsFiniteSet(upto(p)) /\ Cardinality(upto(p)) <= c
    BY <1>1, <2>1, FS_Subset
  <2>3. Cardinality(upto(p)) \in Nat /\ Cardinality(upto(p)) # 0
    BY <2>1, <2>2, FS_CardinalityType, FS_EmptySet
  <2> QED
    BY <1>1, <2>2, <2>3
<1>3. ASSUME NEW p \in S, NEW q \in S, p < q
      PROVE  Cardinality(upto(p)) < Cardinality(upto(q))
  <2>0. \A x \in S : x \in Int
    OBVIOUS
  <2>1. upto(p) \subseteq upto(q) /\ q \in upto(q) /\ q \notin upto(p)
    <3>1. p \in Int /\ q \in Int /\ p < q
      BY <1>3, <2>0
    <3>2. \A x \in S : x <= p => x <= q
      BY <2>0, <3>1
    <3>3. q <= q /\ ~(q <= p)
      BY <3>1
    <3> QED
      BY <3>2, <3>3
  <2>2. IsFiniteSet(upto(p)) /\ IsFiniteSet(upto(q))
        /\ Cardinality(upto(p)) \in Nat /\ Cardinality(upto(q)) \in Nat
    BY <1>2
  <2> HIDE DEF upto
  <2>3. Cardinality(upto(p)) <= Cardinality(upto(q)) /\ Cardinality(upto(p)) # Cardinality(upto(q))
    BY <2>1, <2>2, FS_Subset
  <2> QED
    BY <2>2, <2>3
<1>4. rank \in Injection(S, 1..c)
  <2>1. rank \in [S -> 1..c]
    BY <1>2
  <2>2. ASSUME NEW p \in S, NEW q \in S, rank[p] = rank[q]
        PROVE  p = q
    <3>1. ~(p < q) /\ ~(q < p)
      <4>1. Cardinality(upto(p)) = Cardinality(upto(q)) /\ Cardinality(upto(p)) \in Nat
        BY <1>2, <2>2
      <4> HIDE DEF upto
      <4> QED
        BY <1>3, <4>1
    <3> QED
      BY <3>1
  <2> HIDE DEF rank
  <2> QED
    BY <2>1, <2>2 DEF Injection, IsInjective
<1>5. \A n \in 1..c : \E p \in S : rank[p] = n
  <2>1. IsFiniteSet(1..c) /\ Cardinality(1..c) = c
    BY <1>1, FS_Interval
  <2> HIDE DEF rank
  <2>2. rank \in Surjection(S, 1..c)
    BY <1>1, <1>4, <2>1, FS_Injection
  <2> QED
    BY <2>2 DEF Surjection
<1>6. \A p \in S : rank[p] = Cardinality(upto(p))
  OBVIOUS
<1> HIDE DEF rank, upto
<1>7. ASSUME NEW n \in 1..c
      PROVE  nth(n) \in S /\ Cardinality(upto(nth(n))) = n
  <2>1. \E p \in S : Cardinality(upto(p)) = n
    BY <1>5, <1>6
  <2> QED
    BY <2>1
<1>8. ASSUME NEW p \in S
      PROVE  nth(Cardinality(upto(p))) = p
  <2>1. Cardinality(upto(p)) \in 1..c
    BY <1>2
  <2> DEFINE q == nth(Cardinality(upto(p)))
  <2>2. q \in S /\ Cardinality(upto(q)) = Cardinality(upto(p))
    BY <1>7, <2>1
  <2> HIDE DEF q
  <2>3. ~(p < q) /\ ~(q < p)
    BY <1>1, <1>3, <2>1, <2>2
  <2> QED
    BY <2>2, <2>3 DEF q
<1> QED
  BY <1>1, <1>2, <1>7, <1>8 DEF upto

(* Which of some places a place is, counted from one. *)
RankIn(places, p) == Cardinality({q \in places : q <= p})

(* The n-th that is picked is the entry at the n-th of the places. *)
PickedInOrder(seq, places) ==
    LET n == Cardinality(places)
        t == InOrder(seq, places)
    IN  /\ n \in Nat /\ IsFiniteSet(places) /\ t = [k \in 1..n |-> t[k]]
        /\ \A k \in 1..n : \E p \in places : t[k] = seq[p] /\ RankIn(places, p) = k
        /\ \A p \in places : RankIn(places, p) \in 1..n /\ t[RankIn(places, p)] = seq[p]

LEMMA PickedFrom ==
    ASSUME NEW m \in Nat, NEW seq, NEW places \in SUBSET (1..m)
    PROVE  PickedInOrder(seq, places)
<1> DEFINE n == Cardinality(places)
           t == InOrder(seq, places)
           rank(p) == Cardinality({q \in places : q <= p})
           nth(k) == CHOOSE p \in places : Cardinality({q \in places : q <= p}) = k
<1>1. /\ n \in Nat /\ IsFiniteSet(places)
      /\ \A k \in 1..n : nth(k) \in places /\ rank(nth(k)) = k
      /\ \A p \in places : rank(p) \in 1..n /\ nth(rank(p)) = p
  BY Ranks
<1>2. t = [k \in 1..n |-> seq[nth(k)]]
  BY DEF InOrder
<1>3. \A p : RankIn(places, p) = rank(p)
  BY DEF RankIn
<1> HIDE DEF n, t, rank, nth
<1>4. t = [k \in 1..n |-> t[k]] /\ \A k \in 1..n : t[k] = seq[nth(k)]
  BY <1>2
<1>5. \A k \in 1..n : \E p \in places : t[k] = seq[p] /\ RankIn(places, p) = k
  BY <1>1, <1>3, <1>4
<1>6. \A p \in places : RankIn(places, p) \in 1..n /\ t[RankIn(places, p)] = seq[p]
  BY <1>1, <1>3, <1>4
<1> QED
  BY <1>1, <1>4, <1>5, <1>6 DEF n, t, PickedInOrder

(* The function that FlattenSeq computes. *)
LEMMA FlatIsThere ==
    ASSUME NEW S, NEW ss \in Seq(Seq(S)), Len(ss) # 0
    PROVE  \E g : IsFlat(g, ss, Len(ss)) /\ FlattenSeq(ss) = g[Len(ss)]
<1> DEFINE flat == CHOOSE g : IsFlat(g, ss, Len(ss))
<1>1. FlattenSeq(ss) = flat[Len(ss)]
  BY DEF FlattenSeq, IsFlat
<1>2. Len(ss) \in Nat
  OBVIOUS
<1>3. IsFlat(flat, ss, Len(ss))
  BY <1>2, ThereIsAFlat
<1> QED
  BY <1>1, <1>3

LEMMA SecondPart ==
    ASSUME NEW S, NEW a \in Seq(S), NEW b \in Seq(S), NEW j \in 1..Len(b)
    PROVE  (a \o b)[Len(a) + j] = b[j]
<1>1. Len(a) \in Nat /\ Len(b) \in Nat
  OBVIOUS
<1> DEFINE at == Len(a) + j
<1>2. at \in 1..Len(a) + Len(b) /\ ~(at <= Len(a)) /\ at - Len(a) = j
  BY <1>1
<1> HIDE DEF at
<1>3. (a \o b)[at] = b[at - Len(a)]
  BY <1>1, <1>2, ConcatProperties
<1> QED
  BY <1>2, <1>3 DEF at

(* The lengths of a code and of a record. *)
Widths == {2, 4}

AllOfLength(ss, m) == \A i \in 1..Len(ss) : Len(ss[i]) = m

JoinedOf(ss, m, S) ==
    /\ FlattenSeq(ss) \in Seq(S) /\ Len(FlattenSeq(ss)) = m * Len(ss)
    /\ \A i \in 1..Len(ss) : \A j \in 1..m : FlattenSeq(ss)[m * (i - 1) + j] = ss[i][j]

(* Sequences of one length, joined: the i-th begins where as many of them have ended. *)
LEMMA FlatOfOneLength ==
    ASSUME NEW S, NEW m \in Widths, NEW ss \in Seq(Seq(S)), AllOfLength(ss, m)
    PROVE  JoinedOf(ss, m, S)
<1> DEFINE len == Len(ss)
           flat == FlattenSeq(ss)
<1> m \in {2, 4}
  BY DEF Widths
<1>0. \A x, y \in Seq(S) : \A k \in 1..Len(y) : (x \o y)[Len(x) + k] = y[k]
  BY SecondPart
<1>1. len \in Nat /\ flat \in Seq(S) /\ \A i \in 1..len : ss[i] \in Seq(S) /\ Len(ss[i]) = m
  BY FlattenedSeq DEF AllOfLength
<1>2. CASE len = 0
  <2>1. flat = ss /\ Len(flat) = 0
    BY <1>2 DEF FlattenSeq
  <2> QED
    BY <1>1, <1>2, <2>1 DEF JoinedOf
<1>3. CASE len # 0
  <2>1. PICK g : IsFlat(g, ss, len) /\ flat = g[len]
    BY <1>1, <1>3, FlatIsThere
  <2>2. \A i \in 1..len : g[i] = IF i = 1 THEN ss[i] ELSE g[i - 1] \o ss[i]
    BY <2>1 DEF IsFlat
  <2> DEFINE Good(n) == /\ g[n] \in Seq(S) /\ Len(g[n]) = m * n
                        /\ \A i \in 1..n : \A j \in 1..m : g[n][m * (i - 1) + j] = ss[i][j]
             T == {n \in Nat : n + 1 <= len => Good(n + 1)}
  <2>3. 0 \in T
    <3>1. g[1] = ss[1] /\ ss[1] \in Seq(S) /\ Len(ss[1]) = m
      BY <1>1, <1>3, <2>2
    <3> QED
      BY <3>1
  <2>4. ASSUME NEW n \in T
        PROVE  n + 1 \in T
    <3>1. n \in Nat /\ (n + 1 <= len => Good(n + 1)) /\ (n + 1) + 1 = n + 2 /\ (n + 2) - 1 = n + 1
      OBVIOUS
    <3> HIDE DEF Good
    <3> SUFFICES ASSUME n + 2 <= len
                 PROVE  Good(n + 2)
      BY <3>1
    <3> DEFINE a == g[n + 1]
               b == ss[n + 2]
    <3>2. Good(n + 1)
      BY <1>1, <3>1
    <3>3. /\ a \in Seq(S) /\ b \in Seq(S) /\ Len(a) = m * (n + 1) /\ Len(b) = m
          /\ g[n + 2] = a \o b
      <4>1. n + 2 \in 1..len /\ n + 2 # 1
        BY <1>1, <3>1
      <4>2. g[n + 2] = g[(n + 2) - 1] \o ss[n + 2]
        BY <2>2, <4>1
      <4>3. a \in Seq(S) /\ Len(a) = m * (n + 1)
        BY <3>2 DEF Good
      <4> QED
        BY <1>1, <3>1, <4>1, <4>2, <4>3
    <3>4. \A i \in 1..n + 1 : \A j \in 1..m : a[m * (i - 1) + j] = ss[i][j]
      BY <3>2 DEF Good
    <3> HIDE DEF a, b
    <3>5. a \o b \in Seq(S) /\ Len(a \o b) = Len(a) + Len(b)
      BY <3>3
    <3>6. m * (n + 1) + m = m * (n + 2)
      BY <3>1
    <3>7. ASSUME NEW i \in 1..n + 2, NEW j \in 1..m
          PROVE  (a \o b)[m * (i - 1) + j] = ss[i][j]
      <4>1. CASE i = n + 2
        <5>1. m * (i - 1) + j = Len(a) + j
          BY <3>1, <3>3, <4>1
        <5>2. j \in 1..Len(b)
          BY <3>3
        <5>3. (a \o b)[Len(a) + j] = b[j]
          BY <1>0, <3>3, <5>2
        <5> QED
          BY <4>1, <5>1, <5>3 DEF b
      <4>2. CASE i # n + 2
        <5>1. i \in 1..n + 1
          BY <3>1, <4>2
        <5> DEFINE at == m * (i - 1) + j
        <5>2. at \in 1..Len(a)
          BY <3>1, <3>3, <5>1
        <5> HIDE DEF at
        <5>3. (a \o b)[at] = a[at]
          BY <3>3, <5>2
        <5> QED
          BY <3>4, <5>1, <5>3 DEF at
      <4> QED
        BY <4>1, <4>2
    <3> QED
      BY <3>3, <3>5, <3>6, <3>7 DEF Good
  <2>5. \A n \in Nat : n \in T
    <3>1. T \subseteq Nat
      OBVIOUS
    <3> HIDE DEF T
    <3> QED
      BY <2>3, <2>4, <3>1, NatSetInduction
  <2>6. Good(len)
    <3>1. len - 1 \in Nat /\ (len - 1) + 1 = len /\ len <= len
      BY <1>1, <1>3
    <3>2. len - 1 \in T
      BY <2>5, <3>1
    <3> HIDE DEF Good, len
    <3> QED
      BY <3>1, <3>2
  <2> QED
    BY <1>1, <2>1, <2>6 DEF JoinedOf
<1> QED
  BY <1>2, <1>3

(* What is made of each pick, and all of it joined: each is where its rank puts it. *)
MadeOfPicks(seq, places, m, f, ss) ==
    /\ \A p \in places : f[p] \in Seq(Byte) /\ Len(f[p]) = m
    /\ ss = [k \in 1..Cardinality(places) |-> ss[k]]
    /\ \A k \in 1..Cardinality(places) : \A p \in places : InOrder(seq, places)[k] = seq[p] => ss[k] = f[p]

PicksJoined(c, places, m, f, all) ==
    /\ Cardinality(places) \in Nat /\ Cardinality(places) <= c
    /\ all \in Seq(Byte) /\ Len(all) = m * Cardinality(places)
    /\ \A p \in places : RankIn(places, p) \in 1..Cardinality(places)
    /\ \A p \in places : \A j \in 1..m : all[m * (RankIn(places, p) - 1) + j] = f[p][j]
    /\ \A k \in 1..Cardinality(places) : \E p \in places : RankIn(places, p) = k

LEMMA JoinedPicks ==
    ASSUME NEW c \in Nat, NEW seq, NEW places \in SUBSET (1..c), NEW m \in Widths, NEW f, NEW ss,
           MadeOfPicks(seq, places, m, f, ss)
    PROVE  PicksJoined(c, places, m, f, FlattenSeq(ss))
<1> DEFINE n == Cardinality(places)
           t == InOrder(seq, places)
           all == FlattenSeq(ss)
<1>01. PickedInOrder(seq, places)
  BY PickedFrom
<1>1. /\ n \in Nat /\ IsFiniteSet(places)
      /\ t = [k \in 1..n |-> t[k]]
      /\ \A k \in 1..n : \E p \in places : t[k] = seq[p] /\ RankIn(places, p) = k
      /\ \A p \in places : RankIn(places, p) \in 1..n /\ t[RankIn(places, p)] = seq[p]
  BY <1>01 DEF PickedInOrder
<1>2. n <= c
  <2>1. IsFiniteSet(1..c) /\ Cardinality(1..c) = c
    BY FS_Interval
  <2> QED
    BY <2>1, FS_Subset
<1>3. /\ ss = [k \in 1..n |-> ss[k]]
      /\ \A k \in 1..n : \A p \in places : t[k] = seq[p] => ss[k] = f[p]
  BY Zenon DEF MadeOfPicks
<1>0. \A p \in places : f[p] \in Seq(Byte) /\ Len(f[p]) = m
  BY DEF MadeOfPicks
<1> HIDE DEF n, t
<1>4. ASSUME NEW k \in 1..n
      PROVE  ss[k] \in Seq(Byte) /\ Len(ss[k]) = m
  <2>1. PICK p \in places : t[k] = seq[p]
    BY <1>1
  <2>2. ss[k] = f[p]
    BY <1>3, <2>1
  <2> QED
    BY <1>0, <2>2
<1>5. \A p \in places : ss[RankIn(places, p)] = f[p]
  BY <1>1, <1>3
<1>6. ss \in Seq(Seq(Byte)) /\ Len(ss) = n
  BY <1>1, <1>3, <1>4, FlatBytes
<1>7. /\ all \in Seq(Byte) /\ Len(all) = m * n
      /\ \A i \in 1..n : \A j \in 1..m : all[m * (i - 1) + j] = ss[i][j]
  <2>1. \A i \in 1..Len(ss) : Len(ss[i]) = m
    BY <1>4, <1>6
  <2>2. AllOfLength(ss, m)
    BY <2>1 DEF AllOfLength
  <2>3. JoinedOf(ss, m, Byte)
    BY <1>6, <2>2, FlatOfOneLength
  <2> QED
    BY <1>6, <2>3 DEF JoinedOf
<1> HIDE DEF all
<1>8. ASSUME NEW p \in places, NEW j \in 1..m
      PROVE  all[m * (RankIn(places, p) - 1) + j] = f[p][j]
  <2> DEFINE i == RankIn(places, p)
  <2>1. i \in 1..n /\ ss[i] = f[p]
    BY <1>1, <1>5
  <2> HIDE DEF i
  <2>2. all[m * (i - 1) + j] = ss[i][j]
    BY <1>7, <2>1
  <2> QED
    BY <2>1, <2>2 DEF i
<1>9. \A k \in 1..n : \E p \in places : RankIn(places, p) = k
  BY <1>1
<1> QED
  BY <1>1, <1>2, <1>7, <1>8, <1>9 DEF n, all, PicksJoined

(* The places of the codes whose status shares a bit with the mask, and of the *)
(* confirmed ones.                                                              *)
Sharing(store, mask) == {i \in DOMAIN store : Shares(StatusByte(store[i].flags), mask)}
ConfirmedIn(store) == {i \in DOMAIN store : "confirmed" \in store[i].flags}

(* The records that UDS reads with a mask, and where each of them is. *)
RecordsAre(store, mask) ==
    LET places == Sharing(store, mask)
        n == Cardinality(places)
        all == Records(store, mask)
    IN  /\ n \in Nat /\ all \in Seq(Byte) /\ Len(all) = 4 * n
        /\ \A p \in places : RankIn(places, p) \in 1..n
        /\ \A p \in places : \A j \in 1..4 : all[4 * (RankIn(places, p) - 1) + j] = Record(store[p])[j]
        /\ \A k \in 1..n : \E p \in places : RankIn(places, p) = k

LEMMA RecordsRead ==
    ASSUME NEW store, StoreOK(store), NEW mask
    PROVE  RecordsAre(store, mask)
<1> DEFINE c == Len(store)
           places == Sharing(store, mask)
           n == Cardinality(places)
           t == InOrder(store, places)
           ss == [i \in DOMAIN t |-> Record(t[i])]
           f == [p \in places |-> Record(store[p])]
<1>1. c \in Nat /\ DOMAIN store = 1..c /\ \A i \in 1..c : CodeOK(store[i].code)
  BY DEF StoreOK
<1>2. places \in SUBSET (1..c)
  BY <1>1 DEF Sharing
<1>3. Records(store, mask) = FlattenSeq(ss)
  BY DEF Records, Sharing
<1>4. \A p \in places : f[p] = Record(store[p])
  OBVIOUS
<1> HIDE DEF c, places, f
<1>5. ASSUME NEW p \in places
      PROVE  f[p] \in Seq(Byte) /\ Len(f[p]) = 4
  <2>1. CodeOK(store[p].code) /\ f[p] = Record(store[p])
    BY <1>1, <1>2, <1>4
  <2> QED
    BY <2>1, RecordIsBytes
<1>6. t = [k \in 1..n |-> t[k]]
  BY <1>1, <1>2, PickedFrom DEF PickedInOrder
<1> HIDE DEF t, n
<1>7. ss = [k \in 1..n |-> ss[k]] /\ \A k \in 1..n : ss[k] = Record(t[k])
  <2>1. DOMAIN t = 1..n
    BY <1>6
  <2> QED
    BY <2>1
<1> HIDE DEF ss
<1>8. \A k \in 1..n : \A p \in places : t[k] = store[p] => ss[k] = f[p]
  BY <1>4, <1>7
<1>9. /\ n \in Nat /\ FlattenSeq(ss) \in Seq(Byte) /\ Len(FlattenSeq(ss)) = 4 * n
      /\ \A p \in places : RankIn(places, p) \in 1..n
      /\ \A p \in places : \A j \in 1..4 : FlattenSeq(ss)[4 * (RankIn(places, p) - 1) + j] = f[p][j]
      /\ \A k \in 1..n : \E p \in places : RankIn(places, p) = k
  <2> DEFINE m == 4
  <2>1. m \in Widths /\ MadeOfPicks(store, places, m, f, ss)
    BY <1>5, <1>7, <1>8 DEF Widths, MadeOfPicks, n, t
  <2> HIDE DEF m
  <2>2. PicksJoined(c, places, m, f, FlattenSeq(ss))
    BY <1>1, <1>2, <2>1, JoinedPicks
  <2> QED
    BY <2>2 DEF PicksJoined, n, m
<1>10. \A p \in places : \A j \in 1..4 : FlattenSeq(ss)[4 * (RankIn(places, p) - 1) + j] = Record(store[p])[j]
  BY <1>4, <1>9
<1> QED
  BY <1>3, <1>9, <1>10 DEF places, n, RecordsAre

(* The codes that Mode 03 lists, and where: the number of them fits a byte. *)
CodesAre(store) ==
    LET places == ConfirmedIn(store)
        n == Cardinality(places)
        all == EncodedCodes(Confirmed(store))
    IN  /\ n \in Nat /\ n <= 255 /\ all \in Seq(Byte) /\ Len(all) = 1 + 2 * n /\ all[1] = n
        /\ \A p \in places : RankIn(places, p) \in 1..n
        /\ \A p \in places : \A j \in 1..2 : all[1 + 2 * (RankIn(places, p) - 1) + j] = CodeBytes(store[p].code)[j]
        /\ \A k \in 1..n : \E p \in places : RankIn(places, p) = k

LEMMA CodesRead ==
    ASSUME NEW store, StoreOK(store)
    PROVE  CodesAre(store)
<1> DEFINE c == Len(store)
           places == ConfirmedIn(store)
           n == Cardinality(places)
           t == InOrder(store, places)
           ss == [i \in DOMAIN t |-> CodeBytes(t[i].code)]
           f == [p \in places |-> CodeBytes(store[p].code)]
           flat == FlattenSeq(ss)
           all == EncodedCodes(Confirmed(store))
<1>1. c \in Nat /\ DOMAIN store = 1..c /\ c <= 255 /\ \A i \in 1..c : CodeOK(store[i].code)
  BY DEF StoreOK, MAX_DTCS
<1>2. places \in SUBSET (1..c)
  BY <1>1 DEF ConfirmedIn
<1>3. all = IF Len(t) \notin 1..255 THEN <<0>> ELSE <<Len(t)>> \o flat
  BY DEF EncodedCodes, Confirmed, ConfirmedIn
<1>4. \A p \in places : f[p] = CodeBytes(store[p].code)
  OBVIOUS
<1> HIDE DEF c, places, f
<1>5. ASSUME NEW p \in places
      PROVE  f[p] \in Seq(Byte) /\ Len(f[p]) = 2
  <2>1. CodeOK(store[p].code) /\ f[p] = CodeBytes(store[p].code)
    BY <1>1, <1>2, <1>4
  <2> QED
    BY <2>1, CodeIsBytes
<1>6. n \in Nat /\ t = [k \in 1..n |-> t[k]]
  BY <1>1, <1>2, PickedFrom DEF PickedInOrder
<1> HIDE DEF t, n, all
<1>7. Len(t) = n /\ DOMAIN t = 1..n
  BY <1>6
<1>8. ss = [k \in 1..n |-> ss[k]] /\ \A k \in 1..n : ss[k] = CodeBytes(t[k].code)
  BY <1>7
<1> HIDE DEF ss
<1>9. \A k \in 1..n : \A p \in places : t[k] = store[p] => ss[k] = f[p]
  BY <1>4, <1>8
<1>10. /\ n <= c /\ flat \in Seq(Byte) /\ Len(flat) = 2 * n
       /\ \A p \in places : RankIn(places, p) \in 1..n
       /\ \A p \in places : \A j \in 1..2 : flat[2 * (RankIn(places, p) - 1) + j] = f[p][j]
       /\ \A k \in 1..n : \E p \in places : RankIn(places, p) = k
  <2> DEFINE m == 2
  <2>1. m \in Widths /\ MadeOfPicks(store, places, m, f, ss)
    BY <1>5, <1>8, <1>9 DEF Widths, MadeOfPicks, n, t
  <2> HIDE DEF m
  <2>2. PicksJoined(c, places, m, f, FlattenSeq(ss))
    BY <1>1, <1>2, <2>1, JoinedPicks
  <2> QED
    BY <2>2 DEF PicksJoined, n, m
<1> HIDE DEF flat
<1>11. n <= 255 /\ (n # 0 => n \in 1..255) /\ n \in Byte
  <2>1. n \in Nat /\ n <= c
    BY <1>6, <1>10
  <2> QED
    BY <1>1, <2>1 DEF Byte
<1>12. CASE n = 0
  <2>1. all = <<0>>
    BY <1>3, <1>7, <1>12
  <2>2. \A p : p \notin places
    BY <1>10, <1>12
  <2>3. all \in Seq(Byte) /\ Len(all) = 1 /\ all[1] = 0
    BY <2>1 DEF Byte
  <2>4. /\ n <= 255 /\ Len(all) = 1 + 2 * n /\ all[1] = n
    BY <1>12, <2>3
  <2>5. /\ \A p \in places : RankIn(places, p) \in 1..n
        /\ \A p \in places : \A j \in 1..2 : all[1 + 2 * (RankIn(places, p) - 1) + j] = CodeBytes(store[p].code)[j]
    BY Zenon, <2>2
  <2> QED
    BY <1>6, <1>10, <2>3, <2>4, <2>5 DEF places, n, all, CodesAre
<1>13. CASE n # 0
  <2>1. all = <<n>> \o flat
    BY <1>3, <1>7, <1>11, <1>13
  <2> DEFINE head == <<n>>
  <2>2. head \in Seq(Byte) /\ Len(head) = 1 /\ head[1] = n
    BY <1>11
  <2> HIDE DEF head
  <2>3. all = head \o flat
    BY <2>1 DEF head
  <2>4. all \in Seq(Byte) /\ Len(all) = 1 + 2 * n
    BY <1>10, <2>2, <2>3, JoinedBytes
  <2>5. all[1] = n
    <3>1. 1 \in 1..Len(head) + Len(flat) /\ 1 <= Len(head)
      BY <1>6, <1>10, <2>2
    <3> QED
      BY <1>10, <2>2, <2>3, <3>1, ConcatProperties
  <2>6. \A k \in 1..Len(flat) : all[1 + k] = flat[k]
    <3>1. \A x, y \in Seq(Byte) : \A k \in 1..Len(y) : (x \o y)[Len(x) + k] = y[k]
      BY SecondPart
    <3> QED
      BY <1>10, <2>2, <2>3, <3>1
  <2>7. ASSUME NEW p \in places, NEW j \in 1..2
        PROVE  all[1 + 2 * (RankIn(places, p) - 1) + j] = CodeBytes(store[p].code)[j]
    <3> DEFINE r == RankIn(places, p)
               at == 2 * (r - 1) + j
    <3>1. r \in 1..n /\ f[p] = CodeBytes(store[p].code) /\ flat[at] = f[p][j]
      BY <1>4, <1>10
    <3> HIDE DEF r
    <3>2. at \in 1..2 * n /\ 1 + at = 1 + 2 * (r - 1) + j
      BY <1>6, <3>1
    <3> HIDE DEF at
    <3>3. all[1 + at] = flat[at]
      BY <1>10, <2>6, <3>2
    <3> QED
      BY <3>1, <3>2, <3>3 DEF r
  <2> QED
    BY <1>6, <1>10, <1>11, <2>4, <2>5, <2>7 DEF places, n, all, CodesAre
<1> QED
  BY <1>12, <1>13
-----------------------------------------------------------------------------
(* Bits, and the two views of a store. *)

LEMMA Powers ==
    /\ 2^0 = 1 /\ 2^1 = 2 /\ 2^2 = 4 /\ 2^3 = 8 /\ 2^4 = 16 /\ 2^5 = 32 /\ 2^6 = 64 /\ 2^7 = 128
  OBVIOUS

(* A bit of a number, written out. *)
LEMMA BitIs ==
    ASSUME NEW n \in Nat
    PROVE  /\ Bit(n, 0) <=> n % 2 = 1
           /\ Bit(n, 1) <=> (n \div 2) % 2 = 1
           /\ Bit(n, 2) <=> (n \div 4) % 2 = 1
           /\ Bit(n, 3) <=> (n \div 8) % 2 = 1
           /\ Bit(n, 4) <=> (n \div 16) % 2 = 1
           /\ Bit(n, 5) <=> (n \div 32) % 2 = 1
           /\ Bit(n, 6) <=> (n \div 64) % 2 = 1
           /\ Bit(n, 7) <=> (n \div 128) % 2 = 1
<1>1. n \div 1 = n
  OBVIOUS
<1> QED
  BY <1>1, Powers DEF Bit

(* The bits that a status byte has are those of its flags. *)
LEMMA StatusBits ==
    ASSUME NEW flags, NEW k \in 0..7
    PROVE  Bit(StatusByte(flags), k) <=> \/ k = 2 /\ "pending" \in flags
                                         \/ k = 3 /\ "confirmed" \in flags
                                         \/ k = 7 /\ "indicator_requested" \in flags
<1> DEFINE st == StatusByte(flags)
           a == IF "pending" \in flags THEN 4 ELSE 0
           b == IF "confirmed" \in flags THEN 8 ELSE 0
           c == IF "indicator_requested" \in flags THEN 128 ELSE 0
<1>1. st = a + b + c
  BY DEF StatusByte
<1>2. /\ a \in {0, 4} /\ (a = 4 <=> "pending" \in flags)
      /\ b \in {0, 8} /\ (b = 8 <=> "confirmed" \in flags)
      /\ c \in {0, 128} /\ (c = 128 <=> "indicator_requested" \in flags)
  OBVIOUS
<1> HIDE DEF a, b, c, st
<1>3. st \in Nat
  BY <1>1, <1>2
<1>4. /\ ~(st % 2 = 1) /\ ~((st \div 2) % 2 = 1) /\ ~((st \div 16) % 2 = 1)
      /\ ~((st \div 32) % 2 = 1) /\ ~((st \div 64) % 2 = 1)
  BY <1>1, <1>2
<1>5. /\ (st \div 4) % 2 = 1 <=> a = 4
      /\ (st \div 8) % 2 = 1 <=> b = 8
      /\ (st \div 128) % 2 = 1 <=> c = 128
  BY <1>1, <1>2
<1>6. /\ ~Bit(st, 0) /\ ~Bit(st, 1) /\ ~Bit(st, 4) /\ ~Bit(st, 5) /\ ~Bit(st, 6)
      /\ Bit(st, 2) <=> a = 4
      /\ Bit(st, 3) <=> b = 8
      /\ Bit(st, 7) <=> c = 128
  BY <1>3, <1>4, <1>5, BitIs
<1>7. k = 0 \/ k = 1 \/ k = 2 \/ k = 3 \/ k = 4 \/ k = 5 \/ k = 6 \/ k = 7
  OBVIOUS
<1> QED
  BY <1>2, <1>6, <1>7 DEF st

(* The bits of a mask of one bit, and of the mask that is not available. *)
LEMMA MaskBits ==
    ASSUME NEW k \in 0..7, NEW j \in 0..7
    PROVE  /\ Bit(2^k, j) <=> j = k
           /\ Bit(255 - AvailabilityMask, j) <=> j \notin {2, 3, 7}
<1>1. j = 0 \/ j = 1 \/ j = 2 \/ j = 3 \/ j = 4 \/ j = 5 \/ j = 6 \/ j = 7
  OBVIOUS
<1>2. Bit(255 - AvailabilityMask, j) <=> j \notin {2, 3, 7}
  <2>1. 255 - AvailabilityMask = 115 /\ 115 \in Nat
    BY DEF AvailabilityMask
  <2>2. /\ Bit(115, 0) /\ Bit(115, 1) /\ ~Bit(115, 2) /\ ~Bit(115, 3)
        /\ Bit(115, 4) /\ Bit(115, 5) /\ Bit(115, 6) /\ ~Bit(115, 7)
    BY BitIs
  <2> QED
    BY <1>1, <2>1, <2>2
<1>3. Bit(2^k, j) <=> j = k
  <2>0. \A n \in {1, 2, 4, 8, 16, 32, 64, 128} : n \in Nat
    OBVIOUS
  <2>1. k = 0 \/ k = 1 \/ k = 2 \/ k = 3 \/ k = 4 \/ k = 5 \/ k = 6 \/ k = 7
    OBVIOUS
  <2>2. CASE k = 0
    <3>1. /\ Bit(1, 0) /\ ~Bit(1, 1) /\ ~Bit(1, 2) /\ ~Bit(1, 3) /\ ~Bit(1, 4) /\ ~Bit(1, 5) /\ ~Bit(1, 6) /\ ~Bit(1, 7)
      BY BitIs
    <3> QED
      BY <1>1, <2>2, <3>1, Powers
  <2>3. CASE k = 1
    <3>1. /\ ~Bit(2, 0) /\ Bit(2, 1) /\ ~Bit(2, 2) /\ ~Bit(2, 3) /\ ~Bit(2, 4) /\ ~Bit(2, 5) /\ ~Bit(2, 6) /\ ~Bit(2, 7)
      BY BitIs
    <3> QED
      BY <1>1, <2>3, <3>1, Powers
  <2>4. CASE k = 2
    <3>1. /\ ~Bit(4, 0) /\ ~Bit(4, 1) /\ Bit(4, 2) /\ ~Bit(4, 3) /\ ~Bit(4, 4) /\ ~Bit(4, 5) /\ ~Bit(4, 6) /\ ~Bit(4, 7)
      BY BitIs
    <3> QED
      BY <1>1, <2>4, <3>1, Powers
  <2>5. CASE k = 3
    <3>1. /\ ~Bit(8, 0) /\ ~Bit(8, 1) /\ ~Bit(8, 2) /\ Bit(8, 3) /\ ~Bit(8, 4) /\ ~Bit(8, 5) /\ ~Bit(8, 6) /\ ~Bit(8, 7)
      BY BitIs
    <3> QED
      BY <1>1, <2>5, <3>1, Powers
  <2>6. CASE k = 4
    <3>1. /\ ~Bit(16, 0) /\ ~Bit(16, 1) /\ ~Bit(16, 2) /\ ~Bit(16, 3) /\ Bit(16, 4) /\ ~Bit(16, 5) /\ ~Bit(16, 6) /\ ~Bit(16, 7)
      BY BitIs
    <3> QED
      BY <1>1, <2>6, <3>1, Powers
  <2>7. CASE k = 5
    <3>1. /\ ~Bit(32, 0) /\ ~Bit(32, 1) /\ ~Bit(32, 2) /\ ~Bit(32, 3) /\ ~Bit(32, 4) /\ Bit(32, 5) /\ ~Bit(32, 6) /\ ~Bit(32, 7)
      BY BitIs
    <3> QED
      BY <1>1, <2>7, <3>1, Powers
  <2>8. CASE k = 6
    <3>1. /\ ~Bit(64, 0) /\ ~Bit(64, 1) /\ ~Bit(64, 2) /\ ~Bit(64, 3) /\ ~Bit(64, 4) /\ ~Bit(64, 5) /\ Bit(64, 6) /\ ~Bit(64, 7)
      BY BitIs
    <3> QED
      BY <1>1, <2>8, <3>1, Powers
  <2>9. CASE k = 7
    <3>1. /\ ~Bit(128, 0) /\ ~Bit(128, 1) /\ ~Bit(128, 2) /\ ~Bit(128, 3) /\ ~Bit(128, 4) /\ ~Bit(128, 5) /\ ~Bit(128, 6) /\ Bit(128, 7)
      BY BitIs
    <3> QED
      BY <1>1, <2>9, <3>1, Powers
  <2> QED
    BY <2>1, <2>2, <2>3, <2>4, <2>5, <2>6, <2>7, <2>8, <2>9
<1> QED
  BY <1>2, <1>3

(* Which codes a mask of one bit finds, of several, of those that are not available. *)
LEMMA SharingIs ==
    ASSUME NEW store
    PROVE  /\ Sharing(store, 2^3) = ConfirmedIn(store)
           /\ Sharing(store, 2^7) = {i \in DOMAIN store : "indicator_requested" \in store[i].flags}
           /\ Sharing(store, 255 - AvailabilityMask) = {}
           /\ \A mask : Sharing(store, mask) = UNION {Sharing(store, 2^k) : k \in {j \in 0..7 : Bit(mask, j)}}
<1>1. ASSUME NEW k \in 0..7, NEW flags
      PROVE  Shares(StatusByte(flags), 2^k) <=> Bit(StatusByte(flags), k)
  <2>1. \A j \in 0..7 : Bit(2^k, j) <=> j = k
    BY MaskBits
  <2> QED
    BY Zenon, <2>1 DEF Shares
<1>2. ASSUME NEW flags
      PROVE  /\ Shares(StatusByte(flags), 2^3) <=> "confirmed" \in flags
             /\ Shares(StatusByte(flags), 2^7) <=> "indicator_requested" \in flags
  <2>1. 3 \in 0..7 /\ 7 \in 0..7 /\ ~(3 = 2) /\ ~(3 = 7) /\ ~(7 = 2) /\ ~(7 = 3)
    OBVIOUS
  <2>2. /\ Bit(StatusByte(flags), 3) <=> "confirmed" \in flags
        /\ Bit(StatusByte(flags), 7) <=> "indicator_requested" \in flags
    BY <2>1, StatusBits
  <2> QED
    BY Zenon, <1>1, <2>1, <2>2
<1>3. ASSUME NEW flags
      PROVE  ~Shares(StatusByte(flags), 255 - AvailabilityMask)
  <2>1. \A j \in 0..7 : Bit(255 - AvailabilityMask, j) <=> j \notin {2, 3, 7}
    <3>1. 0 \in 0..7
      OBVIOUS
    <3> QED
      BY <3>1, MaskBits
  <2>2. \A j \in 0..7 : Bit(StatusByte(flags), j) => j \in {2, 3, 7}
    BY StatusBits
  <2> QED
    BY Zenon, <2>1, <2>2 DEF Shares
<1>4. ASSUME NEW mask, NEW flags
      PROVE  Shares(StatusByte(flags), mask) <=>
                 \E k \in {j \in 0..7 : Bit(mask, j)} : Shares(StatusByte(flags), 2^k)
  BY Zenon, <1>1 DEF Shares
<1>5. \A mask : Sharing(store, mask) = UNION {Sharing(store, 2^k) : k \in {j \in 0..7 : Bit(mask, j)}}
  <2> TAKE mask
  <2> DEFINE bits == {j \in 0..7 : Bit(mask, j)}
  <2>1. \A i : i \in Sharing(store, mask) <=> i \in DOMAIN store /\ Shares(StatusByte(store[i].flags), mask)
    BY Zenon DEF Sharing
  <2>2. \A k, i : i \in Sharing(store, 2^k) <=> i \in DOMAIN store /\ Shares(StatusByte(store[i].flags), 2^k)
    BY Zenon DEF Sharing
  <2>3. \A i : Shares(StatusByte(store[i].flags), mask) <=> \E k \in bits : Shares(StatusByte(store[i].flags), 2^k)
    BY Zenon, <1>4
  <2> HIDE DEF bits
  <2>4. \A i : i \in Sharing(store, mask) <=> \E k \in bits : i \in Sharing(store, 2^k)
    BY Zenon, <2>1, <2>2, <2>3
  <2>5. Sharing(store, mask) = UNION {Sharing(store, 2^k) : k \in bits}
    BY Zenon, <2>4
  <2> QED
    BY Zenon, <2>5 DEF bits
<1> QED
  BY Zenon, <1>2, <1>3, <1>5 DEF Sharing, ConfirmedIn

LEMMA SameEntries ==
    ASSUME NEW s \in Seq(Byte), NEW t \in Seq(Byte), Len(s) = Len(t), \A i \in 1..Len(s) : s[i] = t[i]
    PROVE  s = t
  BY SeqEqual

(* A part of a sequence is known by its entries. *)
LEMMA PartIs ==
    ASSUME NEW s \in Seq(Byte), NEW r \in Seq(Byte), NEW first \in Nat \ {0}, NEW last \in Nat,
           last <= Len(s), first + Len(r) = last + 1,
           \A j \in 1..Len(r) : s[first - 1 + j] = r[j]
    PROVE  SubSeq(s, first, last) = r
<1> DEFINE t == SubSeq(s, first, last)
<1>1. Len(s) \in Nat /\ Len(r) \in Nat
  OBVIOUS
<1>2. t \in Seq(Byte)
  BY PartOfASequence
<1>3. \A i \in first..last : s[i] \in Byte
  <2>1. \A i \in 1..Len(s) : s[i] \in Byte
    OBVIOUS
  <2> QED
    BY <1>1, <2>1
<1>4. Len(t) = Len(r) /\ \A j \in 1..Len(r) : t[j] = s[first - 1 + j]
  <2>1. /\ Len(t) = IF first <= last THEN last - first + 1 ELSE 0
        /\ \A i \in 1..last - first + 1 : t[i] = s[first + i - 1]
    BY <1>3, SubSeqProperties
  <2> HIDE DEF t
  <2>2. \A j \in 1..Len(r) : first - 1 + j = first + j - 1 /\ j \in 1..last - first + 1
    BY <1>1
  <2> QED
    BY <1>1, <2>1, <2>2
<1> HIDE DEF t
<1>5. t = r
  BY <1>2, <1>4, SameEntries
<1> QED
  BY <1>5 DEF t

(* What UDS reads with a mask. *)
ReadPayload(mask) == <<ReadInformation, 2, mask>>

LEMMA ReadIs ==
    ASSUME NEW mask, NEW store
    PROVE  UdsReply(ReadPayload(mask), store) = <<PositiveSid(ReadInformation), 2, AvailabilityMask>> \o Records(store, mask)
<1> DEFINE p == ReadPayload(mask)
<1>1. p[1] = ReadInformation /\ p[2] = 2 /\ p[3] = mask /\ Len(p) = 3 /\ DOMAIN p = 1..3
  BY DEF ReadPayload
<1>2. Masked(p) = p /\ ~SuppressBit(p)
  <2>1. 2 % 128 = 2 /\ ~(2 >= 128)
    OBVIOUS
  <2>2. [p EXCEPT ![2] = @ % 128] = p
    BY <1>1, <2>1 DEF ReadPayload
  <2> QED
    BY <1>1, <2>1, <2>2 DEF Masked, SuppressBit
<1> HIDE DEF p
<1>3. Serve(p, store) = ReadReply(p, store)
  BY <1>1 DEF Serve, SessionControl, EcuReset, ClearInformation, ReadInformation, TesterPresent
<1>4. ReadReply(p, store) = <<PositiveSid(ReadInformation), p[2], AvailabilityMask>> \o Records(store, p[3])
  <2>1. ~(Len(p) < 2) /\ ~(Len(p) # 3)
    BY <1>1
  <2> QED
    BY <1>1, <2>1 DEF ReadReply
<1> QED
  BY <1>1, <1>2, <1>3, <1>4 DEF UdsReply, Withheld, p

(* Where its records are. *)
ReadAre(reply, store, mask) ==
    LET places == Sharing(store, mask)
        n == Cardinality(places)
    IN  /\ n \in Nat /\ reply \in Seq(Byte) /\ Len(reply) = 3 + 4 * n
        /\ \A p \in places : RankIn(places, p) \in 1..n
        /\ \A p \in places : SubSeq(reply, 4 * RankIn(places, p), 4 * RankIn(places, p) + 3) = Record(store[p])
        /\ \A p \in places : SubSeq(reply, 4 * RankIn(places, p), 4 * RankIn(places, p) + 1) = CodeBytes(store[p].code)
        /\ \A k \in 1..n : \E p \in places : RankIn(places, p) = k

LEMMA UdsReads ==
    ASSUME NEW store, StoreOK(store), NEW mask
    PROVE  ReadAre(UdsReply(ReadPayload(mask), store), store, mask)
<1> DEFINE places == Sharing(store, mask)
           n == Cardinality(places)
           all == Records(store, mask)
           head == <<PositiveSid(ReadInformation), 2, AvailabilityMask>>
           reply == UdsReply(ReadPayload(mask), store)
<1>1. /\ n \in Nat /\ all \in Seq(Byte) /\ Len(all) = 4 * n
      /\ \A p \in places : RankIn(places, p) \in 1..n
      /\ \A p \in places : \A j \in 1..4 : all[4 * (RankIn(places, p) - 1) + j] = Record(store[p])[j]
      /\ \A k \in 1..n : \E p \in places : RankIn(places, p) = k
  BY RecordsRead DEF RecordsAre
<1>2. reply = head \o all
  BY ReadIs
<1>3. head \in Seq(Byte) /\ Len(head) = 3
  <2>1. PositiveSid(ReadInformation) \in Byte /\ 2 \in Byte /\ AvailabilityMask \in Byte
    BY DEF PositiveSid, ReadInformation, AvailabilityMask, Byte
  <2> QED
    BY <2>1, FewBytes
<1>4. \A p \in places : CodeOK(store[p].code)
  BY DEF Sharing, StoreOK
<1> HIDE DEF places, n, all, head, reply
<1>5. reply \in Seq(Byte) /\ Len(reply) = 3 + 4 * n
  BY <1>1, <1>2, <1>3, JoinedBytes
<1>6. \A k \in 1..Len(all) : reply[3 + k] = all[k]
  <2>1. \A x, y \in Seq(Byte) : \A k \in 1..Len(y) : (x \o y)[Len(x) + k] = y[k]
    BY SecondPart
  <2> QED
    BY <1>1, <1>2, <1>3, <2>1
<1>7. ASSUME NEW p \in places
      PROVE  /\ SubSeq(reply, 4 * RankIn(places, p), 4 * RankIn(places, p) + 3) = Record(store[p])
             /\ SubSeq(reply, 4 * RankIn(places, p), 4 * RankIn(places, p) + 1) = CodeBytes(store[p].code)
  <2> DEFINE i == RankIn(places, p)
             record == Record(store[p])
             code == CodeBytes(store[p].code)
  <2>1. i \in 1..n /\ \A j \in 1..4 : all[4 * (i - 1) + j] = record[j]
    BY <1>1
  <2>2. record \in Seq(Byte) /\ Len(record) = 4 /\ code \in Seq(Byte) /\ Len(code) = 2 /\ record[1] = code[1] /\ record[2] = code[2]
    <3>1. CodeOK(store[p].code)
      BY <1>4
    <3> DEFINE s == store[p]
    <3>2. CodeOK(s.code)
      BY <3>1
    <3> HIDE DEF s
    <3>3. Record(s) \in Seq(Byte) /\ Len(Record(s)) = 4 /\ CodeBytes(s.code) \in Seq(Byte) /\ Len(CodeBytes(s.code)) = 2
          /\ Record(s)[1] = CodeBytes(s.code)[1] /\ Record(s)[2] = CodeBytes(s.code)[2]
      BY <3>2, RecordIsBytes, CodeIsBytes
    <3> QED
      BY <3>3 DEF s
  <2> HIDE DEF i, record, code
  <2>3. ASSUME NEW j \in 1..4
        PROVE  reply[4 * i - 1 + j] = record[j]
    <3> DEFINE at == 4 * (i - 1) + j
    <3>1. at \in 1..4 * n /\ 3 + at = 4 * i - 1 + j
      BY <1>1, <2>1
    <3>2. all[at] = record[j]
      BY <2>1
    <3> HIDE DEF at
    <3>3. reply[3 + at] = all[at]
      BY <1>1, <1>6, <3>1
    <3> QED
      BY <3>1, <3>2, <3>3
  <2>4. SubSeq(reply, 4 * i, 4 * i + 3) = record
    <3> DEFINE first == 4 * i
               last == 4 * i + 3
    <3>1. first \in Nat \ {0} /\ last \in Nat /\ last <= Len(reply) /\ first + Len(record) = last + 1
      BY <1>1, <1>5, <2>1, <2>2
    <3>2. \A j \in 1..Len(record) : reply[first - 1 + j] = record[j]
      BY <2>2, <2>3
    <3> HIDE DEF first, last
    <3>3. SubSeq(reply, first, last) = record
      BY <1>5, <2>2, <3>1, <3>2, PartIs
    <3> QED
      BY <3>3 DEF first, last
  <2>5. SubSeq(reply, 4 * i, 4 * i + 1) = code
    <3> DEFINE first == 4 * i
               last == 4 * i + 1
    <3>1. first \in Nat \ {0} /\ last \in Nat /\ last <= Len(reply) /\ first + Len(code) = last + 1
      BY <1>1, <1>5, <2>1, <2>2
    <3>2. \A j \in 1..Len(code) : reply[first - 1 + j] = code[j]
      <4>1. \A j \in 1..2 : record[j] = code[j] /\ j \in 1..4
        BY <2>2
      <4> QED
        BY <2>2, <2>3, <4>1
    <3> HIDE DEF first, last
    <3>3. SubSeq(reply, first, last) = code
      BY <1>5, <2>2, <3>1, <3>2, PartIs
    <3> QED
      BY <3>3 DEF first, last
  <2> QED
    BY <2>4, <2>5 DEF i, record, code
<1> QED
  BY <1>1, <1>5, <1>7 DEF ReadAre, places, n, reply

(* The codes of Mode 03, where they are in its reply. *)
ListedAre(reply, store) ==
    LET places == ConfirmedIn(store)
        n == Cardinality(places)
    IN  /\ n \in Nat /\ reply \in Seq(Byte) /\ Len(reply) = 2 + 2 * n /\ reply[2] = n
        /\ \A p \in places : RankIn(places, p) \in 1..n
        /\ \A p \in places : SubSeq(reply, 2 * RankIn(places, p) + 1, 2 * RankIn(places, p) + 2) = CodeBytes(store[p].code)
        /\ \A k \in 1..n : \E p \in places : RankIn(places, p) = k

LEMMA ObdLists ==
    ASSUME NEW store, StoreOK(store)
    PROVE  ListedAre(Mode03(<<StoredDtcs>>, store), store)
<1> DEFINE places == ConfirmedIn(store)
           n == Cardinality(places)
           all == EncodedCodes(Confirmed(store))
           head == <<PositiveSid(StoredDtcs)>>
           reply == Mode03(<<StoredDtcs>>, store)
<1>1. /\ n \in Nat /\ n <= 255 /\ all \in Seq(Byte) /\ Len(all) = 1 + 2 * n /\ all[1] = n
      /\ \A p \in places : RankIn(places, p) \in 1..n
      /\ \A p \in places : \A j \in 1..2 : all[1 + 2 * (RankIn(places, p) - 1) + j] = CodeBytes(store[p].code)[j]
      /\ \A k \in 1..n : \E p \in places : RankIn(places, p) = k
  BY CodesRead DEF CodesAre
<1>2. head \in Seq(Byte) /\ Len(head) = 1
  <2>1. PositiveSid(StoredDtcs) \in Byte
    BY DEF PositiveSid, StoredDtcs, Byte
  <2> QED
    BY <2>1, FewBytes
<1>3. \A p \in places : CodeOK(store[p].code)
  BY DEF ConfirmedIn, StoreOK
<1>4. reply = head \o all
  <2>1. Len(<<StoredDtcs>>) = 1 /\ <<StoredDtcs>>[1] = StoredDtcs
    OBVIOUS
  <2>2. Echo(<<StoredDtcs>>) = head \o << >>
    BY <2>1 DEF Echo
  <2> HIDE DEF head
  <2>3. head \o << >> = head
    BY <1>2
  <2> QED
    BY <2>2, <2>3 DEF Mode03
<1> HIDE DEF places, n, all, head, reply
<1>5. reply \in Seq(Byte) /\ Len(reply) = 2 + 2 * n
  <2>1. reply \in Seq(Byte) /\ Len(reply) = Len(head) + Len(all)
    BY <1>1, <1>2, <1>4, JoinedBytes
  <2> QED
    BY <1>1, <1>2, <2>1
<1>6. \A k \in 1..Len(all) : reply[1 + k] = all[k]
  <2>1. \A x, y \in Seq(Byte) : \A k \in 1..Len(y) : (x \o y)[Len(x) + k] = y[k]
    BY SecondPart
  <2> QED
    BY <1>1, <1>2, <1>4, <2>1
<1>7. reply[2] = n
  <2>1. 1 \in 1..Len(all) /\ 1 + 1 = 2
    BY <1>1
  <2> QED
    BY <1>1, <1>6, <2>1
<1>8. ASSUME NEW p \in places
      PROVE  SubSeq(reply, 2 * RankIn(places, p) + 1, 2 * RankIn(places, p) + 2) = CodeBytes(store[p].code)
  <2> DEFINE i == RankIn(places, p)
             code == CodeBytes(store[p].code)
             first == 2 * i + 1
             last == 2 * i + 2
  <2>1. i \in 1..n /\ \A j \in 1..2 : all[1 + 2 * (i - 1) + j] = code[j]
    BY <1>1
  <2>2. code \in Seq(Byte) /\ Len(code) = 2
    <3>1. CodeOK(store[p].code)
      BY <1>3
    <3> DEFINE c == store[p].code
    <3>2. CodeOK(c)
      BY <3>1
    <3> HIDE DEF c
    <3>3. CodeBytes(c) \in Seq(Byte) /\ Len(CodeBytes(c)) = 2
      BY <3>2, CodeIsBytes
    <3> QED
      BY <3>3 DEF c
  <2> HIDE DEF i, code
  <2>3. ASSUME NEW j \in 1..2
        PROVE  reply[first - 1 + j] = code[j]
    <3> DEFINE at == 1 + 2 * (i - 1) + j
    <3>1. at \in 1..1 + 2 * n /\ 1 + at = first - 1 + j
      BY <1>1, <2>1
    <3>2. all[at] = code[j]
      BY <2>1
    <3> HIDE DEF at
    <3>3. reply[1 + at] = all[at]
      BY <1>1, <1>6, <3>1
    <3> QED
      BY <3>1, <3>2, <3>3
  <2>4. first \in Nat \ {0} /\ last \in Nat /\ last <= Len(reply) /\ first + Len(code) = last + 1
    BY <1>1, <1>5, <2>1, <2>2
  <2>5. \A j \in 1..Len(code) : reply[first - 1 + j] = code[j]
    BY <2>2, <2>3
  <2> HIDE DEF first, last
  <2>6. SubSeq(reply, first, last) = code
    BY <1>5, <2>2, <2>4, <2>5, PartIs
  <2> QED
    BY <2>6 DEF first, last, i, code
<1> QED
  BY <1>1, <1>5, <1>7, <1>8 DEF ListedAre, places, n, reply

(* The records that a reply holds are those of the codes that the mask finds. *)
FoundBy(store, mask) ==
    LET reply == UdsReply(ReadPayload(mask), store)
    IN  {SubSeq(reply, 4 * i, 4 * i + 3) : i \in 1..(Len(reply) - 3) \div 4}

LEMMA FoundIs ==
    ASSUME NEW store, StoreOK(store), NEW mask
    PROVE  FoundBy(store, mask) = {Record(store[p]) : p \in Sharing(store, mask)}
<1> DEFINE places == Sharing(store, mask)
           n == Cardinality(places)
           reply == UdsReply(ReadPayload(mask), store)
           part(i) == SubSeq(reply, 4 * i, 4 * i + 3)
<1>1. /\ n \in Nat /\ Len(reply) = 3 + 4 * n
      /\ \A p \in places : RankIn(places, p) \in 1..n
      /\ \A p \in places : part(RankIn(places, p)) = Record(store[p])
      /\ \A k \in 1..n : \E p \in places : RankIn(places, p) = k
  BY UdsReads DEF ReadAre
<1>2. FoundBy(store, mask) = {part(i) : i \in 1..(Len(reply) - 3) \div 4}
  BY DEF FoundBy
<1> HIDE DEF places, n, reply, part
<1>3. (Len(reply) - 3) \div 4 = n
  BY <1>1
<1>4. {part(i) : i \in 1..n} = {Record(store[p]) : p \in places}
  BY <1>1
<1> QED
  BY <1>2, <1>3, <1>4 DEF places

(* The two protocols' views of a store. *)
LEMMA OneStoreAgrees ==
    ASSUME NEW store, StoreOK(store)
    PROVE  LET obd == Mode03(<<StoredDtcs>>, store)
               read == UdsReply(ReadPayload(8), store)
           IN  /\ Len(obd) = 2 + 2 * obd[2] /\ Len(read) = 3 + 4 * obd[2]
               /\ \A i \in 1..obd[2] : SubSeq(obd, 2 * i + 1, 2 * i + 2) = SubSeq(read, 4 * i, 4 * i + 1)
<1> DEFINE places == ConfirmedIn(store)
           n == Cardinality(places)
           obd == Mode03(<<StoredDtcs>>, store)
           read == UdsReply(ReadPayload(8), store)
<1>1. Sharing(store, 8) = places
  BY SharingIs, Powers
<1>2. /\ Len(read) = 3 + 4 * n
      /\ \A p \in places : SubSeq(read, 4 * RankIn(places, p), 4 * RankIn(places, p) + 1) = CodeBytes(store[p].code)
  <2>1. ReadAre(read, store, 8)
    BY UdsReads
  <2> HIDE DEF read
  <2> QED
    BY <1>1, <2>1 DEF ReadAre
<1>3. /\ Len(obd) = 2 + 2 * n /\ obd[2] = n
      /\ \A p \in places : SubSeq(obd, 2 * RankIn(places, p) + 1, 2 * RankIn(places, p) + 2) = CodeBytes(store[p].code)
      /\ \A k \in 1..n : \E p \in places : RankIn(places, p) = k
  <2>1. ListedAre(obd, store)
    BY ObdLists
  <2> HIDE DEF obd
  <2> QED
    BY <2>1 DEF ListedAre
<1> HIDE DEF places, n, obd, read
<1>4. ASSUME NEW i \in 1..n
      PROVE  SubSeq(obd, 2 * i + 1, 2 * i + 2) = SubSeq(read, 4 * i, 4 * i + 1)
  <2>1. PICK p \in places : RankIn(places, p) = i
    BY <1>3
  <2> QED
    BY <1>2, <1>3, <2>1
<1> QED
  BY <1>2, <1>3, <1>4 DEF obd, read

LEMMA OneStoreFinds ==
    ASSUME NEW store, StoreOK(store)
    PROVE  /\ \A mask : FoundBy(store, mask) = UNION {FoundBy(store, 2^k) : k \in {j \in 0..7 : Bit(mask, j)}}
           /\ FoundBy(store, 255 - AvailabilityMask) = {}
<1>1. \A mask : FoundBy(store, mask) = {Record(store[p]) : p \in Sharing(store, mask)}
  BY FoundIs
<1>2. \A mask : Sharing(store, mask) = UNION {Sharing(store, 2^k) : k \in {j \in 0..7 : Bit(mask, j)}}
  BY SharingIs
<1>3. ASSUME NEW mask
      PROVE  FoundBy(store, mask) = UNION {FoundBy(store, 2^k) : k \in {j \in 0..7 : Bit(mask, j)}}
  <2> DEFINE bits == {j \in 0..7 : Bit(mask, j)}
             found(m) == {Record(store[p]) : p \in Sharing(store, m)}
  <2>1. Sharing(store, mask) = UNION {Sharing(store, 2^k) : k \in bits}
    BY <1>2
  <2> HIDE DEF bits
  <2>2. \A r : r \in found(mask) <=> \E k \in bits : r \in found(2^k)
    BY Zenon, <2>1
  <2>3. \A m : FoundBy(store, m) = found(m)
    BY <1>1
  <2> HIDE DEF found
  <2>4. \A r : r \in FoundBy(store, mask) <=> \E k \in bits : r \in FoundBy(store, 2^k)
    BY Zenon, <2>2, <2>3
  <2>5. FoundBy(store, mask) = UNION {FoundBy(store, 2^k) : k \in bits}
    BY Zenon, <2>4
  <2> QED
    BY Zenon, <2>5 DEF bits
<1>4. FoundBy(store, 255 - AvailabilityMask) = {}
  <2>1. Sharing(store, 255 - AvailabilityMask) = {}
    BY SharingIs
  <2> QED
    BY <1>1, <2>1
<1> QED
  BY <1>3, <1>4

(* In every state of a start that was accepted, the views of every ECU agree. *)
LEMMA StoresAgree == ConfiguredOK => ViewsAgree
<1> SUFFICES ASSUME ConfiguredOK, NEW e \in DOMAIN stores
             PROVE  LET obd == Mode03(<<StoredDtcs>>, stores[e])
                        uds(mask) == UdsReply(<<ReadInformation, 2, mask>>, stores[e])
                        found(mask) == LET reply == uds(mask)
                                       IN  {SubSeq(reply, 4 * i, 4 * i + 3) : i \in 1..(Len(reply) - 3) \div 4}
                        byBit == [k \in 0..7 |-> found(2^k)]
                    IN  /\ Len(obd) = 2 + 2 * obd[2] /\ Len(uds(8)) = 3 + 4 * obd[2]
                        /\ \A i \in 1..obd[2] : SubSeq(obd, 2 * i + 1, 2 * i + 2) = SubSeq(uds(8), 4 * i, 4 * i + 1)
                        /\ \A mask \in {AvailabilityMask, 12, 255} :
                            found(mask) = UNION {byBit[k] : k \in {j \in 0..7 : Bit(mask, j)}}
                        /\ found(255 - AvailabilityMask) = {}
  BY DEF ViewsAgree
<1> DEFINE store == stores[e]
           obd == Mode03(<<StoredDtcs>>, store)
           uds(mask) == UdsReply(<<ReadInformation, 2, mask>>, store)
           found(mask) == {SubSeq(uds(mask), 4 * i, 4 * i + 3) : i \in 1..(Len(uds(mask)) - 3) \div 4}
           byBit == [k \in 0..7 |-> found(2^k)]
<1>1. StoreOK(store)
  BY DEF ConfiguredOK
<1>2. \A mask : uds(mask) = UdsReply(ReadPayload(mask), store) /\ found(mask) = FoundBy(store, mask)
  BY DEF ReadPayload, FoundBy
<1> HIDE DEF store, uds, found
<1>3. /\ Len(obd) = 2 + 2 * obd[2] /\ Len(uds(8)) = 3 + 4 * obd[2]
      /\ \A i \in 1..obd[2] : SubSeq(obd, 2 * i + 1, 2 * i + 2) = SubSeq(uds(8), 4 * i, 4 * i + 1)
  BY <1>1, <1>2, OneStoreAgrees
<1> HIDE DEF obd
<1>4. \A mask : found(mask) = UNION {byBit[k] : k \in {j \in 0..7 : Bit(mask, j)}}
  <2> TAKE mask
  <2>1. found(mask) = UNION {found(2^k) : k \in {j \in 0..7 : Bit(mask, j)}}
    <3>1. FoundBy(store, mask) = UNION {FoundBy(store, 2^k) : k \in {j \in 0..7 : Bit(mask, j)}}
      BY <1>1, OneStoreFinds
    <3>2. \A k : FoundBy(store, 2^k) = found(2^k)
      BY <1>2
    <3> QED
      BY Zenon, <1>2, <3>1, <3>2
  <2>2. \A k \in {j \in 0..7 : Bit(mask, j)} : byBit[k] = found(2^k)
    BY Zenon
  <2> HIDE DEF byBit
  <2> QED
    BY Zenon, <2>1, <2>2
<1>5. found(255 - AvailabilityMask) = {}
  BY <1>1, <1>2, OneStoreFinds
<1> HIDE DEF byBit
<1>6. /\ Len(obd) = 2 + 2 * obd[2] /\ Len(uds(8)) = 3 + 4 * obd[2]
      /\ \A i \in 1..obd[2] : SubSeq(obd, 2 * i + 1, 2 * i + 2) = SubSeq(uds(8), 4 * i, 4 * i + 1)
      /\ \A mask \in {AvailabilityMask, 12, 255} : found(mask) = UNION {byBit[k] : k \in {j \in 0..7 : Bit(mask, j)}}
      /\ found(255 - AvailabilityMask) = {}
  BY <1>3, <1>4, <1>5
<1> QED
  BY Zenon, <1>6 DEF obd, uds, found, byBit, store

(* What is shown of a store. *)
LEMMA OneStoreShown ==
    ASSUME NEW store, StoreOK(store)
    PROVE  LET confirmed == {i \in DOMAIN store : "confirmed" \in store[i].flags}
               rank(i) == Cardinality({j \in confirmed : j <= i})
               obd == Mode03(<<StoredDtcs>>, store)
           IN  /\ obd[2] = Cardinality(confirmed) /\ Len(obd) = 2 + 2 * Cardinality(confirmed)
               /\ \A i \in confirmed : SubSeq(obd, 2 * rank(i) + 1, 2 * rank(i) + 2) = CodeBytes(store[i].code)
<1> DEFINE places == ConfirmedIn(store)
           obd == Mode03(<<StoredDtcs>>, store)
<1>1. /\ Len(obd) = 2 + 2 * Cardinality(places) /\ obd[2] = Cardinality(places)
      /\ \A p \in places : SubSeq(obd, 2 * RankIn(places, p) + 1, 2 * RankIn(places, p) + 2) = CodeBytes(store[p].code)
  <2>1. ListedAre(obd, store)
    BY ObdLists
  <2> HIDE DEF obd
  <2> QED
    BY <2>1 DEF ListedAre
<1>2. \A p : RankIn(places, p) = Cardinality({q \in places : q <= p})
  BY DEF RankIn
<1>3. places = {i \in DOMAIN store : "confirmed" \in store[i].flags}
  BY DEF ConfirmedIn
<1> HIDE DEF obd, places
<1>4. \A p \in places : SubSeq(obd, 2 * Cardinality({q \in places : q <= p}) + 1, 2 * Cardinality({q \in places : q <= p}) + 2)
                            = CodeBytes(store[p].code)
  BY Zenon, <1>1, <1>2
<1> QED
  BY Zenon, <1>1, <1>3, <1>4 DEF obd

(* The lamp is on exactly when some code asks for it. *)
LEMMA OneStoreLamp ==
    ASSUME NEW store, StoreOK(store)
    PROVE  IndicatorOn(store) <=> Len(UdsReply(ReadPayload(128), store)) > 3
<1> DEFINE places == Sharing(store, 128)
           n == Cardinality(places)
           reply == UdsReply(ReadPayload(128), store)
<1>1. places = {i \in DOMAIN store : "indicator_requested" \in store[i].flags}
  BY SharingIs, Powers
<1>2. /\ n \in Nat /\ Len(reply) = 3 + 4 * n
      /\ \A p \in places : RankIn(places, p) \in 1..n
      /\ \A k \in 1..n : \E p \in places : RankIn(places, p) = k
  <2>1. ReadAre(reply, store, 128)
    BY UdsReads
  <2> HIDE DEF reply
  <2> QED
    BY <2>1 DEF ReadAre
<1>3. IndicatorOn(store) <=> places # {}
  BY <1>1 DEF IndicatorOn, Range
<1> HIDE DEF places, n, reply
<1>4. n = 0 <=> places = {}
  <2>1. n # 0 => 1 \in 1..n
    BY <1>2
  <2>2. n = 0 => \A k : k \notin 1..n
    BY <1>2
  <2> QED
    BY <1>2, <2>1, <2>2
<1>5. Len(reply) > 3 <=> n # 0
  BY <1>2
<1> QED
  BY <1>3, <1>4, <1>5 DEF reply

LEMMA StoresShown == ConfiguredOK => DtcsShown
<1> SUFFICES ASSUME ConfiguredOK, NEW e \in DOMAIN stores
             PROVE  LET shown == DtcSnapshot(e)
                        obd == Mode03(<<StoredDtcs>>, stores[e])
                        confirmed == {i \in DOMAIN shown.codes : "confirmed" \in shown.codes[i].flags}
                        rank(i) == Cardinality({j \in confirmed : j <= i})
                    IN  /\ obd[2] = Cardinality(confirmed) /\ Len(obd) = 2 + 2 * Cardinality(confirmed)
                        /\ \A i \in confirmed : SubSeq(obd, 2 * rank(i) + 1, 2 * rank(i) + 2)
                                                    = CodeBytes(shown.codes[i].code)
                        /\ shown.mil <=> Len(UdsReply(<<ReadInformation, 2, 128>>, stores[e])) > 3
  BY DEF DtcsShown
<1> DEFINE store == stores[e]
           confirmed == {i \in DOMAIN store : "confirmed" \in store[i].flags}
           rank(i) == Cardinality({j \in confirmed : j <= i})
           obd == Mode03(<<StoredDtcs>>, store)
<1>1. StoreOK(store)
  BY DEF ConfiguredOK
<1>2. DtcSnapshot(e).codes = store /\ DtcSnapshot(e).mil = IndicatorOn(store)
  BY DEF DtcSnapshot
<1> HIDE DEF store
<1>3. /\ obd[2] = Cardinality(confirmed) /\ Len(obd) = 2 + 2 * Cardinality(confirmed)
      /\ \A i \in confirmed : SubSeq(obd, 2 * rank(i) + 1, 2 * rank(i) + 2) = CodeBytes(store[i].code)
  BY <1>1, OneStoreShown
<1>4. IndicatorOn(store) <=> Len(UdsReply(<<ReadInformation, 2, 128>>, store)) > 3
  BY <1>1, OneStoreLamp DEF ReadPayload
<1> HIDE DEF confirmed, rank, obd
<1>5. DtcSnapshot(e).mil <=> Len(UdsReply(<<ReadInformation, 2, 128>>, store)) > 3
  BY <1>2, <1>4
<1> USE DEF confirmed, rank, obd
<1> QED
  BY Zenon, <1>2, <1>3, <1>5 DEF store
-----------------------------------------------------------------------------
(* Every reply is made of bytes. *)

LEMMA NegativeIsBytes ==
    ASSUME NEW sid \in Byte, NEW nrc \in Byte
    PROVE  Negative(sid, nrc) \in Seq(Byte)
<1>1. NegativeSid \in Byte
  BY DEF NegativeSid, Byte
<1> QED
  BY <1>1, FewBytes DEF Negative

LEMMA Codings ==
    /\ NotSupported \in Byte /\ SubFunctionNotSupported \in Byte /\ BadLength \in Byte /\ OutOfRange \in Byte
    /\ \A sid \in ObdSids \cup UdsSids : sid \in Byte /\ PositiveSid(sid) \in Byte
  BY DEF NotSupported, SubFunctionNotSupported, BadLength, OutOfRange, PositiveSid, Byte, ObdSids, UdsSids,
         SessionControl, EcuReset, ClearInformation, ReadInformation, TesterPresent

(* Masking a byte leaves a byte. *)
LEMMA MaskedIsBytes ==
    ASSUME NEW p \in Seq(Byte)
    PROVE  Masked(p) \in Seq(Byte)
<1>1. CASE HasSubFunction(p)
  <2>1. 2 \in 1..Len(p) /\ p[2] \in Byte
    BY <1>1 DEF HasSubFunction
  <2>2. p[2] % 128 \in Byte
    <3> DEFINE b == p[2]
    <3>1. b \in Byte
      BY <2>1
    <3> HIDE DEF b
    <3>2. b \in Nat /\ (b < 128 => b % 128 = b) /\ (b >= 128 => b % 128 \in Byte)
      BY <3>1, BitSeven
    <3>3. b % 128 \in Byte
      BY <3>1, <3>2
    <3> QED
      BY <3>3 DEF b
  <2>3. [p EXCEPT ![2] = p[2] % 128] \in Seq(Byte)
    BY <2>1, <2>2, ExceptSeq
  <2> QED
    BY <1>1, <2>3 DEF Masked
<1>2. CASE ~HasSubFunction(p)
  BY <1>2 DEF Masked
<1> QED
  BY <1>1, <1>2

LEMMA ServiceIsBytes ==
    ASSUME NEW q \in Seq(Byte), q # << >>, q[1] \in UdsSids, NEW store, StoreOK(store)
    PROVE  Serve(q, store) \in Seq(Byte)
<1> DEFINE sid == q[1]
<1>1. /\ \A nrc \in {SubFunctionNotSupported, BadLength, OutOfRange} : Negative(sid, nrc) \in Seq(Byte)
      /\ sid \in Byte /\ PositiveSid(sid) \in Byte
  <2>1. sid \in Byte /\ PositiveSid(sid) \in Byte
    BY Codings
  <2> QED
    BY <2>1, Codings, NegativeIsBytes
<1>2. /\ Len(q) \in Nat /\ (Len(q) >= 2 => q[2] \in Byte)
  OBVIOUS
<1>3. CASE sid = SessionControl
  <2>1. Serve(q, store) = SessionReply(q)
    BY <1>3 DEF Serve, SessionControl, EcuReset, ClearInformation, ReadInformation, TesterPresent
  <2>2. ASSUME Len(q) = 2
        PROVE  <<PositiveSid(SessionControl), q[2]>> \o SessionParameters \in Seq(Byte)
    <3> DEFINE s == <<PositiveSid(SessionControl), q[2]>>
    <3>1. s \in Seq(Byte)
      BY <1>1, <1>2, <1>3, <2>2, FewBytes
    <3>2. SessionParameters \in Seq(Byte)
      BY DEF SessionParameters, Byte
    <3> HIDE DEF s
    <3>3. s \o SessionParameters \in Seq(Byte)
      BY <3>1, <3>2, JoinedBytes
    <3> QED
      BY <3>3 DEF s
  <2> QED
    BY <1>1, <1>3, <2>1, <2>2 DEF SessionReply
<1>4. CASE sid = EcuReset
  <2>1. Serve(q, store) = ResetReply(q)
    BY <1>4 DEF Serve, SessionControl, EcuReset, ClearInformation, ReadInformation, TesterPresent
  <2> DEFINE t == IF q[2] = RapidPowerShutDown THEN <<PowerDownTime>> ELSE << >>
  <2>2. ASSUME Len(q) = 2
        PROVE  <<PositiveSid(EcuReset), q[2]>> \o t \in Seq(Byte)
    <3> DEFINE s == <<PositiveSid(EcuReset), q[2]>>
    <3>1. s \in Seq(Byte)
      BY <1>1, <1>2, <1>4, <2>2, FewBytes
    <3>2. t \in Seq(Byte)
      <4>1. PowerDownTime \in Byte
        BY DEF PowerDownTime, Byte
      <4> QED
        BY <4>1, FewBytes
    <3> HIDE DEF s, t
    <3>3. s \o t \in Seq(Byte)
      BY <3>1, <3>2, JoinedBytes
    <3> QED
      BY <3>3 DEF s
  <2> QED
    BY <1>1, <1>4, <2>1, <2>2 DEF ResetReply
<1>5. CASE sid = ClearInformation
  <2>1. Serve(q, store) = ClearReply(q)
    BY <1>5 DEF Serve, SessionControl, EcuReset, ClearInformation, ReadInformation, TesterPresent
  <2>2. <<PositiveSid(ClearInformation)>> \in Seq(Byte)
    BY <1>1, <1>5, FewBytes
  <2> QED
    BY <1>1, <1>5, <2>1, <2>2 DEF ClearReply
<1>6. CASE sid = ReadInformation
  <2>1. Serve(q, store) = ReadReply(q, store)
    BY <1>6 DEF Serve, SessionControl, EcuReset, ClearInformation, ReadInformation, TesterPresent
  <2> DEFINE s == <<PositiveSid(ReadInformation), q[2], AvailabilityMask>>
             t == Records(store, q[3])
  <2>2. ASSUME Len(q) = 3
        PROVE  s \o t \in Seq(Byte)
    <3>1. AvailabilityMask \in Byte
      BY DEF AvailabilityMask, Byte
    <3>2. s \in Seq(Byte)
      BY <1>1, <1>2, <1>6, <2>2, <3>1, FewBytes
    <3>3. t \in Seq(Byte)
      BY RecordsRead DEF RecordsAre
    <3> HIDE DEF s, t
    <3> QED
      BY <3>2, <3>3, JoinedBytes
  <2> QED
    BY <1>1, <1>2, <1>6, <2>1, <2>2 DEF ReadReply
<1>7. CASE sid = TesterPresent
  <2>1. Serve(q, store) = PresentReply(q)
    BY <1>7 DEF Serve, SessionControl, EcuReset, ClearInformation, ReadInformation, TesterPresent
  <2>2. Len(q) >= 2 => <<PositiveSid(TesterPresent), q[2]>> \in Seq(Byte)
    BY <1>1, <1>2, <1>7, FewBytes
  <2> QED
    BY <1>1, <1>2, <1>7, <2>1, <2>2 DEF PresentReply
<1> QED
  BY <1>3, <1>4, <1>5, <1>6, <1>7 DEF UdsSids

LEMMA UdsIsBytes ==
    ASSUME NEW p \in Seq(Byte), p # << >>, p[1] \in UdsSids, NEW store, StoreOK(store)
    PROVE  UdsReply(p, store) \in Seq(Byte)
<1> DEFINE q == Masked(p)
<1>1. q \in Seq(Byte) /\ q[1] = p[1]
  BY MaskedIsBytes, MaskedSid
<1>2. q # << >>
  <2>1. DOMAIN q = DOMAIN p
    BY DEF Masked
  <2>2. Len(p) # 0 /\ Len(p) \in Nat /\ DOMAIN p = 1..Len(p)
    BY EmptySeq, LenProperties
  <2> QED
    BY <2>1, <2>2
<1> HIDE DEF q
<1>3. Serve(q, store) \in Seq(Byte)
  BY <1>1, <1>2, ServiceIsBytes
<1>4. NoReply \in Seq(Byte)
  BY DEF NoReply
<1> QED
  BY <1>3, <1>4 DEF UdsReply, q

(* The fields that Mode 09 pads or cuts. *)
LEMMA FieldIsBytes ==
    ASSUME NEW bytes \in Seq(Byte), NEW n \in Nat
    PROVE  Field(bytes, n) \in Seq(Byte)
<1> DEFINE m == Min({n, Len(bytes)})
           k == n - m
           s == [i \in 1..k |-> 0]
           t == SubSeq(bytes, 1, m)
<1>1. m \in Nat /\ m <= n /\ m <= Len(bytes) /\ Len(bytes) \in Nat
  <2>1. Len(bytes) \in Nat
    OBVIOUS
  <2> QED
    BY <2>1, SmallerOfTwo
<1>2. Field(bytes, n) = s \o t
  BY DEF Field
<1> HIDE DEF m
<1>3. t \in Seq(Byte)
  BY <1>1, PartOfASequence
<1>4. s \in Seq(Byte)
  <2>1. k \in Nat
    BY <1>1
  <2>2. 0 \in Byte
    BY DEF Byte
  <2> HIDE DEF k
  <2>3. s \in [1..k -> Byte]
    BY <2>2
  <2>4. \A x \in Nat : [1..x -> Byte] \subseteq Seq(Byte)
    OBVIOUS
  <2> HIDE DEF s
  <2> QED
    BY <2>1, <2>3, <2>4
<1> HIDE DEF s, t
<1> QED
  BY <1>2, <1>3, <1>4, JoinedBytes

LEMMA EchoIsBytes ==
    ASSUME NEW p \in Seq(Byte), p # << >>, p[1] \in ObdSids
    PROVE  Echo(p) \in Seq(Byte)
<1> DEFINE s == <<PositiveSid(p[1])>>
           t == IF Len(p) > 1 THEN <<p[2]>> ELSE << >>
<1>1. s \in Seq(Byte)
  BY Codings, FewBytes
<1>2. t \in Seq(Byte)
  <2>1. Len(p) > 1 => p[2] \in Byte
    OBVIOUS
  <2>2. Len(p) > 1 => <<p[2]>> \in Seq(Byte)
    BY <2>1, FewBytes
  <2> QED
    BY <2>2
<1>3. Echo(p) = s \o t
  BY DEF Echo
<1> HIDE DEF s, t
<1> QED
  BY <1>1, <1>2, <1>3, JoinedBytes

LEMMA InformationIsBytes ==
    ASSUME NEW p \in Seq(Byte), p # << >>, p[1] \in ObdSids, NEW bytes \in Seq(Byte)
    PROVE  Mode09(p, bytes, bytes) \in Seq(Byte)
<1> DEFINE mask == Mask(p[2], InfoPids)
           vin == Field(bytes, 17)
           name == Field(bytes, 20)
           one == <<1>>
<1>1. Mode09(p, bytes, bytes) \in {Echo(p) \o mask, (Echo(p) \o one) \o vin, Echo(p) \o name, NoReply}
  BY DEF Mode09
<1>2. Echo(p) \in Seq(Byte) /\ mask \in Seq(Byte) /\ one \in Seq(Byte) /\ NoReply \in Seq(Byte)
  BY EchoIsBytes, MaskIsBytes DEF NoReply, Byte
<1>3. vin \in Seq(Byte) /\ name \in Seq(Byte)
  BY FieldIsBytes
<1> HIDE DEF mask, vin, name, one
<1>4. /\ Echo(p) \o mask \in Seq(Byte) /\ Echo(p) \o name \in Seq(Byte)
      /\ Echo(p) \o one \in Seq(Byte)
  BY <1>2, <1>3, JoinedBytes
<1>5. (Echo(p) \o one) \o vin \in Seq(Byte)
  <2> DEFINE t == Echo(p) \o one
  <2>1. t \in Seq(Byte)
    BY <1>4
  <2> HIDE DEF t
  <2>2. t \o vin \in Seq(Byte)
    BY <1>3, <2>1, JoinedBytes
  <2> QED
    BY <2>2 DEF t
<1> QED
  BY <1>1, <1>2, <1>4, <1>5

(* The parameters that are asked for, and what each is answered with. *)
LEMMA RequestedAreBytes ==
    ASSUME NEW p \in Seq(Byte)
    PROVE  \E n \in Nat : DOMAIN Requested(p) = 1..n /\ \A i \in 1..n : Requested(p)[i] \in Byte
<1> DEFINE m      == Min({7, Len(p)})
           asked  == SubSeq(p, 2, m)
           c      == Len(asked)
           places == {i \in DOMAIN asked : \A j \in 1..i - 1 : asked[j] # asked[i]}
           t      == InOrder(asked, places)
           n      == Cardinality(places)
<1>1. Len(p) \in Nat
  OBVIOUS
<1>2. m \in Nat /\ m <= Len(p)
  BY <1>1, SmallerOfTwo
<1>3. Requested(p) = t
  BY DEF Requested
<1> HIDE DEF m
<1>4. asked \in Seq(Byte)
  BY <1>1, <1>2, PartOfASequence
<1> HIDE DEF asked
<1>5. c \in Nat /\ DOMAIN asked = 1..c /\ \A i \in 1..c : asked[i] \in Byte
  BY <1>4
<1> HIDE DEF c
<1>6. places \in SUBSET (1..c)
  BY <1>5
<1> HIDE DEF places
<1>7. PickedInOrder(asked, places)
  BY <1>5, <1>6, PickedFrom
<1>8. n \in Nat /\ t = [k \in 1..n |-> t[k]] /\ \A k \in 1..n : \E q \in places : t[k] = asked[q]
  BY <1>7 DEF PickedInOrder
<1> HIDE DEF n, t
<1>9. DOMAIN t = 1..n
  BY <1>8
<1>10. \A k \in 1..n : t[k] \in Byte
  BY <1>5, <1>6, <1>8
<1> QED
  BY <1>3, <1>8, <1>9, <1>10

LEMMA ParameterIsBytes ==
    ASSUME NEW pid \in Byte, NEW kind, NEW v, \A s \in Signals(kind) : v[s] \in Int
    PROVE  Parameter(pid, kind, v) \in Seq(Byte)
<1> DEFINE head == <<pid>>
           mask == Mask(pid, Pids(kind))
           d == CHOOSE x \in Supported(kind) : x.pid = pid
           data == Encoded(d, v)
<1>1. head \in Seq(Byte) /\ << >> \in Seq(Byte)
  BY FewBytes
<1>2. mask \in Seq(Byte)
  BY MaskIsBytes
<1>3. pid \in Pids(kind) => data \in Seq(Byte)
  <2> SUFFICES ASSUME pid \in Pids(kind)
               PROVE  data \in Seq(Byte)
    OBVIOUS
  <2>1. d \in Supported(kind)
    BY DEF Pids
  <2> HIDE DEF d
  <2>2. d \in Definitions /\ d.signal \in Signals(kind)
    BY <2>1 DEF Supported
  <2>3. v[d.signal] \in Int
    BY <2>2
  <2> QED
    BY <2>2, <2>3, EncodedIsBytes
<1>4. Parameter(pid, kind, v) \in {head \o mask, << >>} \/ (pid \in Pids(kind) /\ Parameter(pid, kind, v) = head \o data)
  BY DEF Parameter
<1> HIDE DEF head, mask, d, data
<1>5. head \o mask \in Seq(Byte) /\ (pid \in Pids(kind) => head \o data \in Seq(Byte))
  BY <1>1, <1>2, <1>3, JoinedBytes
<1> QED
  BY <1>1, <1>4, <1>5

LEMMA CurrentDataIsBytes ==
    ASSUME NEW p \in Seq(Byte), NEW kind, NEW v, \A s \in Signals(kind) : v[s] \in Int
    PROVE  Mode01(p, kind, v) \in Seq(Byte)
<1> DEFINE asked == Requested(p)
           ss    == [i \in DOMAIN asked |-> Parameter(asked[i], kind, v)]
           body  == FlattenSeq(ss)
           head  == <<PositiveSid(CurrentData)>>
<1>1. PICK n \in Nat : DOMAIN asked = 1..n /\ \A i \in 1..n : asked[i] \in Byte
  BY RequestedAreBytes
<1>2. Mode01(p, kind, v) \in {NoReply, head \o body}
  BY DEF Mode01
<1> HIDE DEF asked
<1>3. ss = [i \in 1..n |-> Parameter(asked[i], kind, v)]
  BY <1>1
<1>4. ss = [i \in 1..n |-> ss[i]] /\ \A i \in 1..n : ss[i] \in Seq(Byte)
  <2>1. \A pid \in Byte : Parameter(pid, kind, v) \in Seq(Byte)
    BY ParameterIsBytes
  <2> QED
    BY <1>1, <1>3, <2>1
<1> HIDE DEF ss
<1>5. body \in Seq(Byte)
  BY <1>4, FlatBytes
<1>6. head \in Seq(Byte) /\ NoReply \in Seq(Byte)
  <2>1. PositiveSid(CurrentData) \in Byte
    BY DEF PositiveSid, CurrentData, Byte
  <2> QED
    BY <2>1, FewBytes DEF NoReply
<1> HIDE DEF body, head
<1>7. head \o body \in Seq(Byte)
  BY <1>5, <1>6, JoinedBytes
<1> QED
  BY <1>2, <1>6, <1>7

LEMMA ObdIsBytes ==
    ASSUME NEW p \in Seq(Byte), p # << >>, p[1] \in ObdSids, NEW store, StoreOK(store),
           NEW kind, NEW v, \A s \in Signals(kind) : v[s] \in Int, NEW bytes \in Seq(Byte)
    PROVE  ObdReply(p, store, kind, v, bytes, bytes) \in Seq(Byte)
<1>1. Mode01(p, kind, v) \in Seq(Byte) /\ Mode09(p, bytes, bytes) \in Seq(Byte)
  BY CurrentDataIsBytes, InformationIsBytes
<1>2. Mode03(p, store) \in Seq(Byte)
  <2>1. EncodedCodes(Confirmed(store)) \in Seq(Byte)
    BY CodesRead DEF CodesAre
  <2>2. Echo(p) \in Seq(Byte)
    BY EchoIsBytes
  <2> QED
    BY <2>1, <2>2, JoinedBytes DEF Mode03
<1>3. <<PositiveSid(ClearDtcs)>> \in Seq(Byte) /\ NoReply \in Seq(Byte)
  <2>1. PositiveSid(ClearDtcs) \in Byte
    BY DEF PositiveSid, ClearDtcs, Byte
  <2> QED
    BY <2>1, FewBytes DEF NoReply
<1> QED
  BY <1>1, <1>2, <1>3 DEF ObdReply

(* What an ECU answers at one of its endpoints. *)
LEMMA ReplyIsBytes ==
    ASSUME StartOK, StateOK, ConfiguredOK, phase = "serving", NEW b \in Bound, NEW p \in Payloads
    PROVE  Reply(Route(b), p) \in Seq(Byte)
<1>0. p \in Seq(Byte) /\ Vin \in Seq(Byte)
  BY DiagnosticsAssumption DEF Byte
<1>1. CASE p = << >>
  BY <1>1 DEF Reply, NoReply
<1>2. CASE p # << >>
  <2>1. p[1] \in Byte /\ b.ecu \in DOMAIN stores
    BY <1>2, AnswerOfAnEcu
  <2>2. StoreOK(stores[b.ecu])
    BY <2>1 DEF ConfiguredOK
  <2>3. \A s \in Signals(profile.kind) : values[s] \in Int
    <3>1. profile \in ProfileModel
      BY DiagnosticsAssumption DEF StartOK
    <3>2. profile.kind \in Kinds
      BY <3>1 DEF ProfileModel
    <3>3. values = Values[profile.kind] /\ Values[profile.kind] \in [Signals(profile.kind) -> Int]
      BY <3>2, DiagnosticsAssumption DEF ConfiguredOK
    <3> QED
      BY <3>3
  <2>4. Negative(p[1], NotSupported) \in Seq(Byte) /\ NoReply \in Seq(Byte)
    BY <2>1, Codings, NegativeIsBytes DEF NoReply
  <2> DEFINE store == stores[b.ecu]
             reply == Reply(Route(b), p)
  <2>5. \/ p[1] \in ObdSids /\ reply = ObdReply(p, store, profile.kind, values, Vin, Vin)
        \/ p[1] \in UdsSids /\ reply = UdsReply(p, store)
        \/ reply = Negative(p[1], NotSupported)
        \/ reply = NoReply
    BY <1>2, AnswerOfAnEcu
  <2> HIDE DEF reply, store
  <2>6. p[1] \in UdsSids => UdsReply(p, store) \in Seq(Byte)
    BY <1>0, <1>2, <2>2, UdsIsBytes DEF store
  <2>7. p[1] \in ObdSids => ObdReply(p, store, profile.kind, values, Vin, Vin) \in Seq(Byte)
    BY <1>0, <1>2, <2>2, <2>3, ObdIsBytes DEF store
  <2> QED
    BY <2>4, <2>5, <2>6, <2>7 DEF reply
<1> QED
  BY <1>1, <1>2

LEMMA RepliesStayBytes ==
    StartOK /\ StateOK /\ ConfiguredOK /\ RepliesAreBytes /\ [Next]_vars => RepliesAreBytes'
<1> SUFFICES ASSUME StartOK, StateOK, ConfiguredOK, RepliesAreBytes, [Next]_vars
             PROVE  exchange'.reply \in Seq(Byte)
  BY DEF RepliesAreBytes, Byte
<1>1. exchange.reply \in Seq(Byte) /\ NoExchange.reply \in Seq(Byte)
  BY DEF RepliesAreBytes, Byte, NoExchange, NoReply
<1>2. CASE Startup
  BY <1>1, <1>2 DEF Startup, Load, BuildEcus, AddRoute, Assemble
<1>3. ASSUME NEW b \in Range(endpoints), NEW p \in Payloads, Request(b, p)
      PROVE  exchange'.reply \in Seq(Byte)
  <2> DEFINE routes == Resolved(b.at.rx, b.at.functional)
  <2>1. phase = "serving" /\ b \in Bound
    BY <1>3 DEF Request, Bound
  <2>2. CASE routes = {} \/ FanOut(routes)
    <3>1. PICK outcome : exchange' = [NoExchange EXCEPT !.at = b.name, !.payload = p, !.outcome = outcome]
      BY <1>3, <2>2 DEF Request
    <3>2. exchange'.reply = NoExchange.reply
      BY <3>1 DEF NoExchange
    <3> QED
      BY <1>1, <3>2
  <2>3. CASE ~(routes = {} \/ FanOut(routes))
    <3>1. PICK r \in routes :
             exchange' = [at |-> b.name, ecu |-> r.ecu, payload |-> p, reply |-> Reply(r, p), outcome |-> "handled"]
      BY <1>3, <2>3 DEF Request
    <3>2. r = Route(b)
      BY <2>1, <2>3, TheOnlyRoute
    <3>3. exchange'.reply = Reply(Route(b), p)
      BY <3>1, <3>2
    <3> QED
      BY <2>1, <3>3, ReplyIsBytes
  <2> QED
    BY <2>2, <2>3
<1>4. ASSUME NEW e \in DOMAIN stores, NEW event \in Range(EcuOf(profile, e).events), ScenarioEvent(e, event)
      PROVE  exchange'.reply \in Seq(Byte)
  BY <1>1, <1>4 DEF ScenarioEvent
<1>5. ASSUME NEW r \in LateRoutes, LateRoute(r)
      PROVE  exchange'.reply \in Seq(Byte)
  BY <1>1, <1>5 DEF LateRoute
<1>6. CASE UNCHANGED vars
  BY <1>1, <1>6 DEF vars
<1> QED
  BY <1>2, <1>3, <1>4, <1>5, <1>6 DEF Next, Traffic
-----------------------------------------------------------------------------
(* The guard of the API, for every limit. *)

(* What _body_size has read, and what has arrived, after each of the first n pieces. *)
IsRead(f, pieces, n) == f = [i \in 0..n |-> IF i = 0 THEN 0 ELSE Taken(f[i - 1], pieces[i])]
IsSum(f, pieces, n) == f = [i \in 0..n |-> IF i = 0 THEN 0 ELSE f[i - 1] + pieces[i]]

LEMMA ThereIsARead ==
    ASSUME NEW pieces, NEW n \in Nat
    PROVE  \E f : IsRead(f, pieces, n)
<1> DEFINE S == {m \in Nat : \E f : IsRead(f, pieces, m)}
<1>1. 0 \in S
  <2> DEFINE g == [i \in 0..0 |-> 0]
  <2>1. IsRead(g, pieces, 0)
    BY DEF IsRead
  <2> QED
    BY <2>1
<1>2. ASSUME NEW m \in S
      PROVE  m + 1 \in S
  <2>1. PICK g : IsRead(g, pieces, m)
    OBVIOUS
  <2> DEFINE h == [i \in 0..m + 1 |-> IF i = 0 THEN 0 ELSE Taken(g[i - 1], pieces[i])]
  <2>2. ASSUME NEW i \in 0..m
        PROVE  h[i] = g[i]
    <3>1. i \in 0..m + 1
      OBVIOUS
    <3>2. g[i] = IF i = 0 THEN 0 ELSE Taken(g[i - 1], pieces[i])
      BY <2>1 DEF IsRead
    <3> QED
      BY <3>1, <3>2
  <2>3. ASSUME NEW i \in 0..m + 1
        PROVE  h[i] = IF i = 0 THEN 0 ELSE Taken(h[i - 1], pieces[i])
    <3>1. CASE i = 0
      BY <3>1
    <3>2. CASE i # 0
      <4>1. i - 1 \in 0..m
        BY <3>2
      <4>2. h[i - 1] = g[i - 1]
        BY <4>1, <2>2
      <4>3. h[i] = Taken(g[i - 1], pieces[i])
        BY <3>2
      <4> QED
        BY <3>2, <4>2, <4>3
    <3> QED
      BY <3>1, <3>2
  <2>4. h = [i \in 0..m + 1 |-> h[i]]
    OBVIOUS
  <2> HIDE DEF h
  <2>5. IsRead(h, pieces, m + 1)
    BY <2>3, <2>4 DEF IsRead
  <2>6. m + 1 \in Nat
    OBVIOUS
  <2> QED
    BY <2>5, <2>6
<1>3. S \in SUBSET Nat
  OBVIOUS
<1> HIDE DEF S
<1>4. n \in S
  BY <1>1, <1>2, <1>3, NatSetInduction
<1> QED
  BY <1>4 DEF S

LEMMA ThereIsASum ==
    ASSUME NEW pieces, NEW n \in Nat
    PROVE  \E f : IsSum(f, pieces, n)
<1> DEFINE S == {m \in Nat : \E f : IsSum(f, pieces, m)}
<1>1. 0 \in S
  <2> DEFINE g == [i \in 0..0 |-> 0]
  <2>1. IsSum(g, pieces, 0)
    BY DEF IsSum
  <2> QED
    BY <2>1
<1>2. ASSUME NEW m \in S
      PROVE  m + 1 \in S
  <2>1. PICK g : IsSum(g, pieces, m)
    OBVIOUS
  <2> DEFINE h == [i \in 0..m + 1 |-> IF i = 0 THEN 0 ELSE g[i - 1] + pieces[i]]
  <2>2. ASSUME NEW i \in 0..m
        PROVE  h[i] = g[i]
    <3>1. i \in 0..m + 1
      OBVIOUS
    <3>2. g[i] = IF i = 0 THEN 0 ELSE g[i - 1] + pieces[i]
      BY <2>1 DEF IsSum
    <3> QED
      BY <3>1, <3>2
  <2>3. ASSUME NEW i \in 0..m + 1
        PROVE  h[i] = IF i = 0 THEN 0 ELSE h[i - 1] + pieces[i]
    <3>1. CASE i = 0
      BY <3>1
    <3>2. CASE i # 0
      <4>1. i - 1 \in 0..m
        BY <3>2
      <4>2. h[i - 1] = g[i - 1]
        BY <4>1, <2>2
      <4>3. h[i] = g[i - 1] + pieces[i]
        BY <3>2
      <4> QED
        BY <3>2, <4>2, <4>3
    <3> QED
      BY <3>1, <3>2
  <2>4. h = [i \in 0..m + 1 |-> h[i]]
    OBVIOUS
  <2> HIDE DEF h
  <2>5. IsSum(h, pieces, m + 1)
    BY <2>3, <2>4 DEF IsSum
  <2>6. m + 1 \in Nat
    OBVIOUS
  <2> QED
    BY <2>5, <2>6
<1>3. S \in SUBSET Nat
  OBVIOUS
<1> HIDE DEF S
<1>4. n \in S
  BY <1>1, <1>2, <1>3, NatSetInduction
<1> QED
  BY <1>4 DEF S

(* However a body is cut, the probe reads all of it, or one byte more than the limit. *)
LEMMA TheProbe ==
    ASSUME NEW pieces \in Seq(Nat)
    PROVE  /\ Length(pieces) \in Nat
           /\ BodySize(pieces) = IF Length(pieces) <= MaxBody THEN Length(pieces) ELSE MaxBody + 1
<1> DEFINE n == Len(pieces)
           read == CHOOSE f : f = [i \in 0..n |-> IF i = 0 THEN 0 ELSE Taken(f[i - 1], pieces[i])]
           sum == CHOOSE f : f = [i \in 0..n |-> IF i = 0 THEN 0 ELSE f[i - 1] + pieces[i]]
<1>1. n \in Nat /\ (\A i \in 1..n : pieces[i] \in Nat) /\ MaxBody \in Nat
  BY BodyAssumption
<1>2. BodySize(pieces) = read[n]
  BY DEF BodySize
<1>3. Length(pieces) = sum[n]
  BY DEF Length
<1> HIDE DEF n
<1>4. read = [i \in 0..n |-> IF i = 0 THEN 0 ELSE Taken(read[i - 1], pieces[i])]
  <2>1. \E f : f = [i \in 0..n |-> IF i = 0 THEN 0 ELSE Taken(f[i - 1], pieces[i])]
    BY <1>1, ThereIsARead DEF IsRead
  <2> QED
    BY <2>1
<1>5. sum = [i \in 0..n |-> IF i = 0 THEN 0 ELSE sum[i - 1] + pieces[i]]
  <2>1. \E f : f = [i \in 0..n |-> IF i = 0 THEN 0 ELSE f[i - 1] + pieces[i]]
    BY <1>1, ThereIsASum DEF IsSum
  <2> QED
    BY <2>1
<1> HIDE DEF read, sum
<1>6. read[0] = 0 /\ sum[0] = 0
  <2>1. 0 \in 0..n
    BY <1>1
  <2> QED
    BY <1>4, <1>5, <2>1
<1>7. ASSUME NEW i \in 1..n
      PROVE  read[i] = Taken(read[i - 1], pieces[i]) /\ sum[i] = sum[i - 1] + pieces[i]
  <2>1. i \in 0..n /\ i # 0
    BY <1>1
  <2>2. read[i] = Taken(read[i - 1], pieces[i])
    BY <1>4, <2>1
  <2>3. sum[i] = sum[i - 1] + pieces[i]
    BY <1>5, <2>1
  <2> QED
    BY <2>2, <2>3
<1> DEFINE Good(i) == /\ sum[i] \in Nat
                      /\ read[i] = IF sum[i] <= MaxBody THEN sum[i] ELSE MaxBody + 1
           T == {i \in Nat : i <= n => Good(i)}
<1>8. 0 \in T
  BY <1>1, <1>6
<1>9. ASSUME NEW i \in T
      PROVE  i + 1 \in T
  <2>1. i \in Nat /\ (i <= n => Good(i)) /\ (i + 1) - 1 = i
    OBVIOUS
  <2> SUFFICES ASSUME i + 1 <= n
               PROVE  Good(i + 1)
    BY <2>1
  <2>2. i + 1 \in 1..n /\ i <= n
    BY <1>1, <2>1
  <2>3. /\ sum[i] \in Nat
        /\ read[i] = IF sum[i] <= MaxBody THEN sum[i] ELSE MaxBody + 1
        /\ pieces[i + 1] \in Nat
    BY <1>1, <2>1, <2>2
  <2>4. read[i + 1] = Taken(read[i], pieces[i + 1]) /\ sum[i + 1] = sum[i] + pieces[i + 1]
    BY <1>7, <2>1, <2>2
  <2> DEFINE a == sum[i]
             b == read[i]
             p == pieces[i + 1]
  <2>5. a \in Nat /\ p \in Nat /\ b = IF a <= MaxBody THEN a ELSE MaxBody + 1
    BY <2>3
  <2> HIDE DEF a, b, p
  <2>6. a + p \in Nat /\ Taken(b, p) = IF a + p <= MaxBody THEN a + p ELSE MaxBody + 1
    <3>1. CASE a <= MaxBody /\ a + p <= MaxBody + 1
      <4>1. Taken(b, p) = a + p
        BY <1>1, <2>5, <3>1 DEF Taken
      <4> QED
        BY <1>1, <2>5, <3>1, <4>1
    <3>2. CASE a <= MaxBody /\ ~(a + p <= MaxBody + 1)
      <4>1. Taken(b, p) = MaxBody + 1
        BY <1>1, <2>5, <3>2 DEF Taken
      <4> QED
        BY <1>1, <2>5, <3>2, <4>1
    <3>3. CASE ~(a <= MaxBody)
      <4>1. Taken(b, p) = MaxBody + 1
        BY <1>1, <2>5, <3>3 DEF Taken
      <4> QED
        BY <1>1, <2>5, <3>3, <4>1
    <3> QED
      BY <3>1, <3>2, <3>3
  <2> QED
    BY <2>4, <2>6 DEF a, b, p
<1>10. T \in SUBSET Nat
  OBVIOUS
<1>11. n \in T
  <2> HIDE DEF T
  <2> QED
    BY <1>1, <1>8, <1>9, <1>10, NatSetInduction
<1>12. Good(n)
  BY <1>1, <1>11
<1> QED
  BY <1>2, <1>3, <1>12

(* What becomes of a request whose Host header is let in. *)
LEMMA TheGuard ==
    ASSUME NEW r, NEW allowed, r.host \in allowed,
           \/ r.length \in Nat /\ r.ends = TRUE
           \/ r.length = NoLength /\ r.ends \in BOOLEAN /\ r.pieces \in Seq(Nat)
    PROVE  GuardedRightly(r, Guarded(r, allowed))
<1> DEFINE status == Guarded(r, allowed)
           fits == Whole(r) <= MaxBody
<1>0. MaxBody \in Nat /\ NoLength \in Int /\ NoLength < 0
  BY BodyAssumption DEF NoLength
<1>1. CASE r.length \in Nat /\ r.ends = TRUE
  <2>1. r.length # NoLength /\ Whole(r) = r.length
    BY <1>0, <1>1 DEF Whole
  <2>2. status = IF r.length > MaxBody THEN "413" ELSE IF Upgrade(r) /\ ~SameOrigin(r) THEN "403" ELSE "handled"
    BY <2>1 DEF Guarded
  <2>3. r.length > MaxBody <=> ~fits
    BY <1>0, <1>1, <2>1
  <2> HIDE DEF status, fits
  <2> QED
    BY <1>1, <2>1, <2>2, <2>3 DEF status, fits, ClosedAtOnce, GuardedRightly
<1>2. CASE r.length = NoLength /\ r.ends \in BOOLEAN /\ r.pieces \in Seq(Nat)
  <2> DEFINE long == BodySize(r.pieces) > MaxBody
  <2>1. Whole(r) = Length(r.pieces) /\ ~(r.length > MaxBody)
    BY <1>0, <1>2 DEF Whole
  <2>2. /\ Length(r.pieces) \in Nat
        /\ BodySize(r.pieces) = IF Length(r.pieces) <= MaxBody THEN Length(r.pieces) ELSE MaxBody + 1
    BY <1>2, TheProbe
  <2>3. /\ long <=> ~fits
        /\ fits => BodySize(r.pieces) = Whole(r)
    <3> DEFINE x == Length(r.pieces)
               y == BodySize(r.pieces)
    <3>1. x \in Nat /\ y = IF x <= MaxBody THEN x ELSE MaxBody + 1
      BY <2>2
    <3> HIDE DEF x, y
    <3>2. (y > MaxBody <=> ~(x <= MaxBody)) /\ (x <= MaxBody => y = x)
      BY <1>0, <3>1
    <3> QED
      BY <2>1, <3>2 DEF x, y
  <2>4. ProbeEnds(r) <=> r.ends \/ long
    BY DEF ProbeEnds
  <2>5. status = IF ~ProbeEnds(r) THEN "408" ELSE IF long THEN "413"
                 ELSE IF Upgrade(r) /\ ~SameOrigin(r) THEN "403" ELSE "handled"
    BY <1>2, <2>1 DEF Guarded
  <2> HIDE DEF status, fits, long
  <2> QED
    BY <1>2, <2>3, <2>4, <2>5 DEF status, fits, ClosedAtOnce, GuardedRightly
<1> QED
  BY <1>1, <1>2

LEMMA TheGuardHolds == RequestsGuarded
<1>1. ASSUME NEW typed \in LoopbackHosts
      PROVE  Told(typed) \in AllowedAt(typed)
  BY DEF Told, AllowedAt, LoopbackHosts, BindHost, Literal, AllowedHosts
<1>2. ASSUME NEW body \in Declared \cup Chunked
      PROVE  \/ body.length \in Nat /\ body.ends = TRUE
             \/ body.length = NoLength /\ body.ends \in BOOLEAN /\ body.pieces \in Seq(Nat)
  <2>1. CASE body \in Declared
    <3>1. PICK n \in 0..MaxBody + 2 : body = [length |-> n, pieces |-> << >>, ends |-> TRUE]
      BY <2>1 DEF Declared
    <3>2. n \in Nat
      BY BodyAssumption
    <3> QED
      BY <3>1, <3>2
  <2>2. CASE body \in Chunked
    <3>1. PICK pieces \in Pieces, ends \in BOOLEAN : body = [length |-> NoLength, pieces |-> pieces, ends |-> ends]
      BY <2>2 DEF Chunked
    <3>2. PICK n \in 0..3 : pieces \in [1..n -> 1..MaxBody + 2]
      BY <3>1 DEF Pieces
    <3>3. n \in Nat /\ 1..MaxBody + 2 \subseteq Nat
      BY BodyAssumption
    <3>4. pieces \in [1..n -> Nat]
      BY <3>2, <3>3
    <3>5. \A m \in Nat : [1..m -> Nat] \subseteq Seq(Nat)
      OBVIOUS
    <3>6. pieces \in Seq(Nat)
      BY <3>3, <3>4, <3>5
    <3> QED
      BY <3>1, <3>6
  <2> QED
    BY <2>1, <2>2
<1>3. ASSUME NEW allowed, NEW body \in Declared \cup Chunked, NEW r \in Asked({body}), r.host \in allowed
      PROVE  GuardedRightly(r, Guarded(r, allowed))
  <2>1. r.length = body.length /\ r.pieces = body.pieces /\ r.ends = body.ends
    BY DEF Asked
  <2>2. \/ r.length \in Nat /\ r.ends = TRUE
        \/ r.length = NoLength /\ r.ends \in BOOLEAN /\ r.pieces \in Seq(Nat)
    BY <1>2, <2>1
  <2> QED
    BY <1>3, <2>2, TheGuard
<1> QED
  BY <1>1, <1>3 DEF RequestsGuarded

(* Whatever the profile, the values and the requests: every reply is made of *)
(* bytes; Mode 03, service 19 and GET /dtcs say the same of a store, which    *)
(* they could not if an ECU had more codes than a byte counts; the log says   *)
(* what became of a request; and the guard lets exactly those bodies pass     *)
(* that are within the limit and arrive in time.                              *)
THEOREM WhatIsShownIsServed == Spec => []ShownAsServed
<1>1. Init => RepliesAreBytes
  BY DEF Init, RepliesAreBytes, NoExchange, NoReply
<1>2. Spec => []RepliesAreBytes
  BY <1>1, RepliesStayBytes, StoresConfigured, PTL DEF Spec
<1>3. ConfiguredOK /\ RepliesAreBytes /\ ReportedAsHandled => ShownAsServed
  BY StoresAgree, StoresShown, TheGuardHolds DEF ShownAsServed
<1> QED
  BY <1>2, <1>3, StoresConfigured, ReportsAreTrue, PTL
=============================================================================
