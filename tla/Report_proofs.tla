---------------------------- MODULE Report_proofs ----------------------------
(***************************************************************************)
(* What the answers of insights, check, diff and cost say, for every estate, *)
(* request, filter, rule and price book.  The invariant is that of the       *)
(* collection: of every provider, what was collected is the first of its     *)
(* assets, all of them when it ended well, none before it ended.  What is    *)
(* collected interleaves the providers in the order they ended in; every     *)
(* report sorts it or looks at its elements only, which is what the lemmas   *)
(* show, and so a complete collection reads like the estate.  A cost report  *)
(* adds up what it was made of, whatever that is, and so do the rows of an   *)
(* insight: every priced position of the input belongs to one row.           *)
(***************************************************************************)
EXTENDS ReportCommands, Lists_proofs

-----------------------------------------------------------------------------
(* The collection.                                                         *)

\* What may be collected of the estate.
Collectable == UNION {{AsCollected(a) : a \in ToSet(estate[p])} : p \in DOMAIN estate}

\* What of it is of one provider.
Of(p) == {a \in Collectable : a.provider = p}

\* The first n assets of a provider, as they are collected.
Delivered(p, n) == Map(SubSeq(estate[p], 1, n), AsCollected)

\* The invariant of the collection, provider by provider (collectFromProviders: a
\* provider's assets arrive in its order, whatever the others do).
CollectInv ==
  /\ estate \in Estates /\ payload \in BOOLEAN
  /\ started \subseteq DOMAIN estate /\ ended \subseteq started /\ failed \subseteq ended
  /\ collected \in Seq(Collectable)
  /\ \A p \in DOMAIN estate :
       \E n \in 0..Len(estate[p]) :
         /\ Keep(collected, Of(p)) = Delivered(p, n)
         /\ p \notin ended => n = 0
         /\ p \in ended \ failed => n = Len(estate[p])

\* Leaving the payload out changes no other field of an asset.
LEMMA Fields ==
  ASSUME NEW a, IsAsset(a)
  PROVE  LET b == AsCollected(a)
         IN /\ b.provider = a.provider /\ b.account = a.account /\ b.region = a.region
            /\ b.type = a.type /\ b.id = a.id /\ b.name = a.name /\ b.status = a.status
            /\ b.tags = a.tags /\ nodeKey(b) = nodeKey(a)
  BY DEF IsAsset, AsCollected, nodeKey, refKey, AsRef

\* Every provider has a list of its own assets.
LEMMA EstateShape ==
  ASSUME estate \in Estates, NEW p \in DOMAIN estate
  PROVE  /\ estate[p] \in Seq(ToSet(estate[p])) /\ Len(estate[p]) \in Nat
         /\ \A i \in 1..Len(estate[p]) : IsAsset(estate[p][i]) /\ estate[p][i].provider = p
  <1>1. estate[p] \in Seq(ToSet(estate[p])) BY EstatesAreCollected
  <1>2. \A a \in ToSet(estate[p]) : IsAsset(a) /\ a.provider = p BY EstatesAreCollected
  <1>3. \A i \in 1..Len(estate[p]) : estate[p][i] \in ToSet(estate[p]) BY <1>1 DEF ToSet
  <1> QED BY <1>1, <1>2, <1>3

\* What a provider delivered, one by one.
LEMMA DeliveredShape ==
  ASSUME estate \in Estates, NEW p \in DOMAIN estate, NEW n \in 0..Len(estate[p])
  PROVE  /\ Delivered(p, n) \in Seq(Collectable)
         /\ Len(Delivered(p, n)) = n
         /\ \A i \in 1..n : Delivered(p, n)[i] = AsCollected(estate[p][i])
         /\ ToSet(Delivered(p, n)) \subseteq Of(p)
  <1> DEFINE s == estate[p]
             t == SubSeq(s, 1, n)
  <1>1. s \in Seq(ToSet(s)) /\ Len(s) \in Nat /\ n \in Nat /\ n <= Len(s) BY EstateShape
  <1>2. \A i \in 1..Len(s) : IsAsset(s[i]) /\ s[i].provider = p BY EstateShape
  <1>3. DOMAIN t = 1..n /\ \A i \in 1..n : t[i] = s[i]
    <2> HIDE DEF s
    <2> QED BY <1>1
  <1>4. Delivered(p, n) = [i \in 1..n |-> AsCollected(t[i])] BY <1>3 DEF Delivered, Map
  <1> HIDE DEF t
  <1>5. \A i \in 1..n : Delivered(p, n)[i] = AsCollected(s[i]) BY <1>3, <1>4
  <1>6. \A i \in 1..n : s[i] \in ToSet(s) /\ i \in 1..Len(s)
    <2> HIDE DEF s
    <2> QED BY <1>1 DEF ToSet
  <1>7. \A i \in 1..n : AsCollected(s[i]) \in Collectable
    BY <1>6 DEF Collectable
  <1>8. \A i \in 1..n : AsCollected(s[i]).provider = p
    <2> TAKE i \in 1..n
    <2>1. IsAsset(s[i]) /\ s[i].provider = p BY <1>6, <1>2
    <2> QED BY <2>1, Fields
  <1> DEFINE d == Delivered(p, n)
  <1> HIDE DEF s
  <1>9. d = [i \in 1..n |-> d[i]] /\ \A i \in 1..n : d[i] \in Collectable /\ d[i] \in Of(p)
    BY <1>4, <1>5, <1>7, <1>8 DEF Of
  <1> HIDE DEF d
  <1>10. d \in Seq(Collectable) BY <1>9, <1>1
  <1>11. Len(d) = n /\ DOMAIN d = 1..n BY <1>9, <1>1
  <1>12. ToSet(d) \subseteq Of(p) BY <1>9, <1>11 DEF ToSet
  <1> QED BY <1>10, <1>11, <1>12, <1>5 DEF d, s

\* A provider may have delivered nothing.
LEMMA NothingDelivered ==
  ASSUME estate \in Estates, NEW p \in DOMAIN estate
  PROVE  0 \in 0..Len(estate[p]) /\ Delivered(p, 0) = <<>>
  <1>1. 0 \in 0..Len(estate[p]) BY EstateShape
  <1>2. Delivered(p, 0) \in Seq(Collectable) /\ Len(Delivered(p, 0)) = 0 BY <1>1, DeliveredShape
  <1> QED BY <1>1, <1>2

\* No asset is of two providers.
LEMMA OnlyItsOwn ==
  ASSUME NEW p, NEW q, p # q PROVE Of(p) \cap Of(q) = {}
  BY DEF Of

\* The invariant holds before anything is collected.
LEMMA CollectStarts == Init => CollectInv
  <1> SUFFICES ASSUME Init PROVE CollectInv OBVIOUS
  <1>1. estate \in Estates /\ payload \in BOOLEAN /\ started \subseteq DOMAIN estate
        /\ ended = {} /\ failed = {} /\ collected = <<>>
    BY DEF Init
  <1>2. ASSUME NEW p \in DOMAIN estate
        PROVE \E n \in 0..Len(estate[p]) :
         /\ Keep(collected, Of(p)) = Delivered(p, n)
         /\ p \notin ended => n = 0
         /\ p \in ended \ failed => n = Len(estate[p])
    <2>1. 0 \in 0..Len(estate[p]) /\ Delivered(p, 0) = <<>> BY <1>1, NothingDelivered
    <2>2. Keep(collected, Of(p)) = <<>> BY <1>1, KeepEmpty
    <2> QED BY <2>1, <2>2, <1>1
  <1> QED BY <1>1, <1>2 DEF CollectInv

\* What may be collected depends on nothing but the estate and the payloads.
LEMMA SameEstate ==
  ASSUME UNCHANGED <<estate, payload>>
  PROVE  /\ Collectable' = Collectable /\ \A p : Of(p)' = Of(p)
         /\ \A p, n : Delivered(p, n)' = Delivered(p, n)
  BY DEF Collectable, Of, Delivered, Map, AsCollected

\* The invariant is kept: a provider's delivery is appended, and its own part grows by it.
LEMMA CollectSteps == CollectInv /\ [Next]_vars => CollectInv'
  <1> SUFFICES ASSUME CollectInv, [Next]_vars PROVE CollectInv' OBVIOUS
  <1>1. ASSUME NEW p \in DOMAIN estate, NEW fails \in BOOLEAN, NEW n \in 0..Len(estate[p]),
               Collect(p, n, fails)
        PROVE  CollectInv'
    <2>1. /\ p \in started \ ended
          /\ fails \/ n = Len(estate[p])
          /\ ended' = ended \cup {p}
          /\ failed' = IF fails THEN failed \cup {p} ELSE failed
          /\ collected' = collected \o Delivered(p, n)
          /\ UNCHANGED <<estate, payload, started, answer>>
      BY <1>1 DEF Collect, Delivered
    <2>2. estate \in Estates BY DEF CollectInv
    <2>3. Delivered(p, n) \in Seq(Collectable) /\ ToSet(Delivered(p, n)) \subseteq Of(p)
      BY <2>2, DeliveredShape
    <2>4. collected \in Seq(Collectable) BY DEF CollectInv
    <2>5. collected' \in Seq(Collectable) BY <2>1, <2>3, <2>4
    <2>6. ASSUME NEW q \in DOMAIN estate
          PROVE  \E m \in 0..Len(estate[q]) :
                   /\ Keep(collected', Of(q)) = Delivered(q, m)
                   /\ q \notin ended' => m = 0
                   /\ q \in ended' \ failed' => m = Len(estate[q])
      <3>1. PICK m \in 0..Len(estate[q]) :
                   /\ Keep(collected, Of(q)) = Delivered(q, m)
                   /\ q \notin ended => m = 0
                   /\ q \in ended \ failed => m = Len(estate[q])
        BY DEF CollectInv
      <3>2. Keep(collected', Of(q)) = Keep(collected, Of(q)) \o Keep(Delivered(p, n), Of(q))
        BY <2>1, <2>3, <2>4, KeepConcat
      <3>3. CASE q = p
        <4>1. Keep(collected, Of(q)) = <<>> BY <2>1, <2>2, <3>1, <3>3, NothingDelivered
        <4>2. Keep(Delivered(p, n), Of(q)) = Delivered(p, n) BY <2>3, <3>3, KeepAll
        <4>3. Keep(collected', Of(q)) = Delivered(p, n) BY <3>2, <4>1, <4>2, <2>3
        <4> QED BY <2>1, <3>3, <4>3
      <3>4. CASE q # p
        <4>1. ToSet(Delivered(p, n)) \cap Of(q) = {} BY <2>3, <3>4, OnlyItsOwn
        <4>2. Keep(Delivered(p, n), Of(q)) = <<>> BY <2>3, <4>1, KeepNone
        <4>3. Keep(collected, Of(q)) \in Seq(Collectable) BY <2>4, KeepElements
        <4>4. Keep(collected', Of(q)) = Keep(collected, Of(q)) BY <3>2, <4>2, <4>3
        <4> QED BY <2>1, <3>1, <3>4, <4>4
      <3> QED BY <3>3, <3>4
    <2>7. estate' = estate /\ payload' = payload /\ started' = started BY <2>1
    <2>8. Collectable' = Collectable /\ (\A q : Of(q)' = Of(q))
          /\ (\A q, m : Delivered(q, m)' = Delivered(q, m))
      BY <2>7, SameEstate
    <2>9. ended' \subseteq started' /\ failed' \subseteq ended' BY <2>1 DEF CollectInv
    <2>10. \A q \in DOMAIN estate' : \E m \in 0..Len(estate'[q]) :
                   /\ Keep(collected', Of(q)') = Delivered(q, m)'
                   /\ q \notin ended' => m = 0
                   /\ q \in ended' \ failed' => m = Len(estate'[q])
      BY <2>6, <2>7, <2>8
    <2> QED BY <2>5, <2>7, <2>8, <2>9, <2>10 DEF CollectInv
  <1>2. ASSUME UNCHANGED <<estate, payload, started, ended, failed, collected>>
        PROVE  CollectInv'
    BY <1>2, SameEstate DEF CollectInv
  <1>3. ASSUME NEW req \in Requests, Ask(req)
        PROVE  UNCHANGED <<estate, payload, started, ended, failed, collected>>
    BY <1>3 DEF Ask
  <1>4. CASE UNCHANGED vars BY <1>2, <1>4 DEF vars
  <1> QED BY <1>1, <1>2, <1>3, <1>4 DEF Next

-----------------------------------------------------------------------------
(* What a complete collection holds.                                       *)

\* A provider that ended well has all its assets in what was collected.
LEMMA WholeOf ==
  ASSUME CollectInv, NEW p \in ended \ failed
  PROVE  /\ p \in DOMAIN estate
         /\ Keep(collected, Of(p)) = Delivered(p, Len(estate[p]))
         /\ ToSet(collected) \cap Of(p) = {AsCollected(a) : a \in ToSet(estate[p])}
  <1>1. p \in DOMAIN estate /\ estate \in Estates BY DEF CollectInv
  <1>2. Keep(collected, Of(p)) = Delivered(p, Len(estate[p])) BY <1>1 DEF CollectInv
  <1> DEFINE s == estate[p]
             d == Delivered(p, Len(s))
  <1>3. s \in Seq(ToSet(s)) /\ Len(s) \in Nat BY <1>1, EstateShape
  <1>4. d \in Seq(Collectable) /\ Len(d) = Len(s) /\ \A i \in 1..Len(s) : d[i] = AsCollected(s[i])
    BY <1>1, <1>3, DeliveredShape
  <1>5. ToSet(collected) \cap Of(p) = ToSet(d)
    BY <1>2, KeepElements DEF CollectInv
  <1> HIDE DEF d, s
  <1>6. DOMAIN d = 1..Len(s) /\ DOMAIN s = 1..Len(s) BY <1>3, <1>4
  <1>7. ToSet(d) = {AsCollected(a) : a \in ToSet(s)} BY <1>4, <1>6 DEF ToSet
  <1> QED BY <1>1, <1>2, <1>5, <1>7 DEF s

\* Everything, provider by provider.
LEMMA EverythingOf ==
  ASSUME estate \in Estates, started \subseteq DOMAIN estate
  PROVE  /\ Everything \in Seq(Collectable)
         /\ \A p : Keep(Everything, Of(p)) =
                     IF p \in started THEN Delivered(p, Len(estate[p])) ELSE <<>>
  <1> DEFINE q == SetToSeq(started)
             D(p) == Delivered(p, Len(estate[p]))
             ss == [i \in DOMAIN q |-> Map(estate[q[i]], AsCollected)]
  <1>1. IsFiniteSet(started) BY EstatesAreCollected, FS_Subset
  <1>2. /\ q \in Seq(started)
        /\ \A i, j \in 1..Len(q) : q[i] = q[j] => i = j
        /\ \A x \in started : \E i \in 1..Len(q) : q[i] = x
    BY <1>1, SetToSeqLists
  <1>3. Everything = FlattenSeq(ss) BY DEF Everything, Each, Map
  <1>4. ASSUME NEW p \in started
        PROVE  /\ Map(estate[p], AsCollected) = D(p)
               /\ D(p) \in Seq(Collectable) /\ ToSet(D(p)) \subseteq Of(p)
    <2> DEFINE s == estate[p]
    <2>1. s \in Seq(ToSet(s)) /\ Len(s) \in Nat BY EstateShape
    <2>2. SubSeq(s, 1, Len(s)) = s
      <3> HIDE DEF s
      <3> QED BY <2>1
    <2>3. Len(s) \in 0..Len(s) BY <2>1
    <2>4. Map(s, AsCollected) = D(p) BY <2>2 DEF Delivered
    <2>5. D(p) \in Seq(Collectable) /\ ToSet(D(p)) \subseteq Of(p) BY <2>3, DeliveredShape
    <2> QED BY <2>4, <2>5
  <1> HIDE DEF q, D
  <1>5. DOMAIN q = 1..Len(q) /\ Len(q) \in Nat /\ \A i \in 1..Len(q) : q[i] \in started BY <1>2
  <1>6. ss = [i \in 1..Len(q) |-> D(q[i])] BY <1>4, <1>5
  <1> HIDE DEF ss
  <1>7. ss \in Seq(Seq(Collectable)) /\ Len(ss) = Len(q) /\ \A i \in 1..Len(q) : ss[i] = D(q[i])
    <2>1. \A i \in 1..Len(q) : D(q[i]) \in Seq(Collectable) BY <1>4, <1>5
    <2> QED BY <1>5, <1>6, <2>1
  <1>8. PICK flat \in [0..Len(ss) -> Seq(Collectable)] :
           /\ flat[0] = <<>> /\ FlattenSeq(ss) = flat[Len(ss)]
           /\ \A i \in 1..Len(ss) : flat[i] = flat[i - 1] \o ss[i]
    BY <1>7, FlattenSteps
  <1>9. Everything \in Seq(Collectable) BY <1>3, <1>8, <1>7, <1>5
  <1>10. ASSUME NEW p
         PROVE  Keep(Everything, Of(p)) = IF p \in started THEN D(p) ELSE <<>>
    <2> DEFINE n == Len(q)
               Seen(m) == \E i \in 1..m : q[i] = p
               S == {m \in Nat : m <= n => Keep(flat[m], Of(p)) = IF Seen(m) THEN D(p) ELSE <<>>}
    <2>1. 0 \in S
      <3>1. ~Seen(0) OBVIOUS
      <3>2. Keep(flat[0], Of(p)) = <<>> BY <1>8, KeepEmpty
      <3> QED BY <3>1, <3>2
    <2>2. ASSUME NEW m \in Nat, m \in S PROVE m + 1 \in S
      <3> SUFFICES ASSUME m + 1 <= n
                   PROVE  Keep(flat[m + 1], Of(p)) = IF Seen(m + 1) THEN D(p) ELSE <<>>
        OBVIOUS
      <3>1. m \in 0..Len(ss) /\ m + 1 \in 1..Len(ss) /\ (m + 1) - 1 = m /\ m + 1 \in 1..n
        BY <1>5, <1>7
      <3>2. flat[m + 1] = flat[m] \o ss[m + 1] BY <3>1, <1>8
      <3>3. ss[m + 1] = D(q[m + 1]) /\ q[m + 1] \in started BY <3>1, <1>5, <1>7
      <3>4. flat[m] \in Seq(Collectable) /\ D(q[m + 1]) \in Seq(Collectable)
            /\ ToSet(D(q[m + 1])) \subseteq Of(q[m + 1])
        BY <3>1, <3>3, <1>4, <1>8
      <3>5. Keep(flat[m + 1], Of(p)) = Keep(flat[m], Of(p)) \o Keep(D(q[m + 1]), Of(p))
        <4> DEFINE u == flat[m]
                   w == D(q[m + 1])
        <4>1. u \in Seq(Collectable) /\ w \in Seq(Collectable) BY <3>4
        <4> HIDE DEF u, w
        <4>2. Keep(u \o w, Of(p)) = Keep(u, Of(p)) \o Keep(w, Of(p)) BY <4>1, KeepConcat
        <4> QED BY <4>2, <3>2, <3>3 DEF u, w
      <3>6. Keep(flat[m], Of(p)) = IF Seen(m) THEN D(p) ELSE <<>> BY <2>2, <3>1
      <3>7. CASE q[m + 1] = p
        <4>1. ~Seen(m)
          <5> SUFFICES ASSUME NEW i \in 1..m, q[i] = p PROVE FALSE OBVIOUS
          <5>1. i \in 1..Len(q) /\ m + 1 \in 1..Len(q) /\ i # m + 1 BY <3>1
          <5> QED BY <5>1, <1>2, <3>7
        <4>2. Seen(m + 1) BY <3>1, <3>7
        <4>3. Keep(D(q[m + 1]), Of(p)) = D(p) BY <3>4, <3>7, KeepAll
        <4>4. <<>> \o D(p) = D(p) BY <3>4, <3>7
        <4> QED BY <4>1, <4>2, <4>3, <4>4, <3>5, <3>6
      <3>8. CASE q[m + 1] # p
        <4>1. Seen(m + 1) <=> Seen(m)
          <5>1. \A i \in 1..(m + 1) : i \in 1..m \/ i = m + 1 BY <3>1
          <5>2. 1..m \subseteq 1..(m + 1) BY <3>1
          <5> QED BY <5>1, <5>2, <3>8
        <4>2. ToSet(D(q[m + 1])) \cap Of(p) = {} BY <3>4, <3>8, OnlyItsOwn
        <4>3. Keep(D(q[m + 1]), Of(p)) = <<>> BY <3>4, <4>2, KeepNone
        <4>4. Keep(flat[m], Of(p)) \in Seq(Collectable) BY <3>4, KeepElements
        <4>5. Keep(flat[m + 1], Of(p)) = Keep(flat[m], Of(p)) BY <3>5, <4>3, <4>4
        <4> QED BY <4>1, <4>5, <3>6
      <3> QED BY <3>7, <3>8
    <2>3. n \in S
      <3> HIDE DEF S, n
      <3>1. n \in Nat BY <1>5 DEF n
      <3> QED BY <3>1, <2>1, <2>2, Induct
    <2>4. Keep(flat[n], Of(p)) = IF Seen(n) THEN D(p) ELSE <<>> BY <2>3, <1>5
    <2>5. Seen(n) <=> p \in started BY <1>2, <1>5
    <2> QED BY <2>4, <2>5, <1>3, <1>7, <1>8
  <1> QED BY <1>9, <1>10 DEF D

\* When all providers that were started ended well, what was collected and
\* everything are the same list, provider by provider.
LEMMA SameLists ==
  ASSUME CollectInv, ended = started, failed = {}
  PROVE  /\ collected \in Seq(Collectable) /\ Everything \in Seq(Collectable)
         /\ \A p : Keep(collected, Of(p)) = Keep(Everything, Of(p))
         /\ ToSet(collected) = ToSet(Everything)
  <1>1. estate \in Estates /\ started \subseteq DOMAIN estate /\ collected \in Seq(Collectable)
    BY DEF CollectInv
  <1>2. Everything \in Seq(Collectable) BY <1>1, EverythingOf
  <1>3. ASSUME NEW p PROVE Keep(collected, Of(p)) = Keep(Everything, Of(p))
    <2>1. CASE p \in started BY <2>1, <1>1, EverythingOf, WholeOf
    <2>2. CASE p \in DOMAIN estate \ started
      <3>1. Keep(collected, Of(p)) = Delivered(p, 0) BY <2>2 DEF CollectInv
      <3>2. Keep(collected, Of(p)) = <<>> BY <3>1, <2>2, <1>1, NothingDelivered
      <3> QED BY <3>2, <2>2, <1>1, EverythingOf
    <2>3. CASE p \notin DOMAIN estate
      <3>1. \A a \in Collectable : a.provider \in DOMAIN estate
        <4> TAKE a \in Collectable
        <4>1. PICK r \in DOMAIN estate : \E x \in ToSet(estate[r]) : a = AsCollected(x)
          BY DEF Collectable
        <4>2. PICK x \in ToSet(estate[r]) : a = AsCollected(x) BY <4>1
        <4>3. IsAsset(x) /\ x.provider = r BY <4>1, <1>1, EstatesAreCollected
        <4> QED BY <4>2, <4>3, Fields
      <3>2. ToSet(collected) \cap Of(p) = {} BY <3>1, <2>3 DEF Of
      <3>3. Keep(collected, Of(p)) = <<>> BY <1>1, <3>2, KeepNone
      <3> QED BY <3>3, <2>3, <1>1, EverythingOf
    <2> QED BY <2>1, <2>2, <2>3
  <1>4. ASSUME NEW c \in Collectable PROVE c \in ToSet(collected) <=> c \in ToSet(Everything)
    <2> DEFINE A == Of(c.provider)
    <2>1. c \in A BY DEF Of
    <2> HIDE DEF A
    <2>2. Keep(collected, A) = Keep(Everything, A) BY <1>3 DEF A
    <2>3. ToSet(Keep(collected, A)) = ToSet(collected) \cap A BY <1>1, KeepElements
    <2>4. ToSet(Keep(Everything, A)) = ToSet(Everything) \cap A BY <1>2, KeepElements
    <2> QED BY <2>1, <2>2, <2>3, <2>4
  <1>5. ToSet(collected) \subseteq Collectable /\ ToSet(Everything) \subseteq Collectable
    BY <1>1, <1>2 DEF ToSet
  <1> QED BY <1>1, <1>2, <1>3, <1>4, <1>5

\* A filter keeps the assets it matches (filter.Filter.Apply).
LEMMA SliceIs ==
  ASSUME NEW V, NEW s \in Seq(V), NEW filter
  PROVE  Slice(filter, s) = Keep(s, {a \in V : Match(filter, a)})
  <1>1. {i \in DOMAIN s : Match(filter, s[i])} = {i \in DOMAIN s : s[i] \in {a \in V : Match(filter, a)}}
    OBVIOUS
  <1> QED BY <1>1 DEF Slice, Filter, Keep

-----------------------------------------------------------------------------
(* diff against a live collection.                                         *)

\* An answer is of the command's kind, or a refusal.
LEMMA Kinds ==
  ASSUME NEW req
  PROVE  /\ insightsAnswer(req).kind \in {"insights", "refused"}
         /\ costAnswer(req).kind \in {"cost", "refused"}
         /\ checkAnswer(req).kind \in {"check", "refused"}
         /\ diffAnswer(req).kind \in {"diff", "refused"}
  BY DEF insightsAnswer, insightsPriced, insightsReported, costAnswer, costPriced,
         checkAnswer, diffAnswer, Refused

\* An asset that a list is indexed by is in the list (keyed, diff.go).
LEMMA KeyedElement ==
  ASSUME NEW V, NEW s \in Seq(V), NEW k \in {nodeKey(a) : a \in ToSet(s)}
  PROVE  keyed(s)[k] \in ToSet(s) /\ nodeKey(keyed(s)[k]) = k
  <1> DEFINE I == {i \in DOMAIN s : nodeKey(s[i]) = k}
             t == At(s, I)
  <1>1. keyed(s)[k] = Last(t) BY DEF keyed, Filter
  <1>2. \A i \in I \cap 1..Len(s) : s[i] \in ToSet(s) /\ nodeKey(s[i]) = k BY DEF ToSet
  <1>3. I \cap 1..Len(s) # {} BY DEF ToSet
  <1> HIDE DEF I
  <1>4. t \in Seq(V) /\ ToSet(t) = {s[i] : i \in I \cap 1..Len(s)} BY AtElements
  <1> HIDE DEF t
  <1>5. ToSet(t) # {} BY <1>4, <1>3
  <1>6. t # <<>> BY <1>5 DEF ToSet
  <1>7. Last(t) \in ToSet(t)
    <2>1. Len(t) \in DOMAIN t BY <1>4, <1>6
    <2> QED BY <2>1 DEF Last, ToSet
  <1> QED BY <1>2, <1>1, <1>4, <1>7

\* The answer of diff is about the estate: whoever it needs has delivered all it has.
LEMMA DiffIsReal ==
  ASSUME CollectInv, ended = started, NEW req \in Requests, req.command = "diff",
         diffAnswer(req).kind = "diff"
  PROVE  LET now == UNION {ToSet(estate[p]) : p \in req.providers}
             before == ToSet(req.baseline)
             KeysOf(assets) == {nodeKey(a) : a \in assets}
         IN /\ diffAnswer(req).request = req
            /\ diffAnswer(req).drift.added = KeysOf(now) \ KeysOf(before)
            /\ diffAnswer(req).drift.removed = KeysOf(before) \ KeysOf(now)
            /\ diffAnswer(req).outcome = "ok" /\ req.exitCode =>
                 \A a \in {b \in before : \A c \in before : nodeKey(c) = nodeKey(b) => c = b} :
                   \E x \in now :
                     /\ nodeKey(x) = nodeKey(a) /\ x.status = a.status /\ x.name = a.name
                     /\ \A k \in DOMAIN a.tags \ DerivedTags : Tag(x, k) = a.tags[k]
  <1> DEFINE P == req.providers
             now == UNION {ToSet(estate[p]) : p \in P}
             before == ToSet(req.baseline)
             KeysOf(assets) == {nodeKey(a) : a \in assets}
             mine == Filter(collected, LAMBDA a : a.provider \in P)
             drift == Compute(req.baseline, mine)
  <1>1. /\ P \subseteq started /\ failed \cap P = {}
        /\ diffAnswer(req) = [kind |-> "diff", request |-> req, drift |-> drift,
             outcome |-> IF req.exitCode /\ drift # NoDrift THEN "ErrDrift" ELSE "ok"]
    BY DEF diffAnswer, Refused, missingProviders
  <1>2. \A p \in P : p \in ended \ failed BY <1>1
  <1>3. collected \in Seq(Collectable) BY DEF CollectInv
  <1>4. mine \in Seq(Collectable) /\ ToSet(mine) = {c \in ToSet(collected) : c.provider \in P}
    <2> DEFINE I == {i \in DOMAIN collected : collected[i].provider \in P}
    <2>1. mine = At(collected, I) BY DEF Filter
    <2>2. {collected[i] : i \in I \cap 1..Len(collected)} = {c \in ToSet(collected) : c.provider \in P}
      BY <1>3 DEF ToSet
    <2> HIDE DEF I, mine
    <2>3. At(collected, I) \in Seq(Collectable)
          /\ ToSet(At(collected, I)) = {collected[i] : i \in I \cap 1..Len(collected)}
      BY <1>3, AtElements
    <2> QED BY <2>1, <2>2, <2>3
  <1>5. estate \in Estates BY DEF CollectInv
  <1>6. \A p \in P : \A a \in ToSet(estate[p]) : IsAsset(a) /\ a.provider = p
    BY <1>2, <1>5, WholeOf, EstatesAreCollected
  <1>7. \A c \in ToSet(mine) : \E x \in now : IsAsset(x) /\ c = AsCollected(x)
    <2> TAKE c \in ToSet(mine)
    <2>1. c \in ToSet(collected) /\ c.provider \in P BY <1>4
    <2>2. c \in Collectable BY <2>1, <1>3 DEF ToSet
    <2>3. c \in Of(c.provider) BY <2>2 DEF Of
    <2>4. c \in {AsCollected(a) : a \in ToSet(estate[c.provider])} BY <2>1, <2>3, <1>2, WholeOf
    <2> QED BY <2>1, <2>4, <1>6
  <1>8. \A x \in now : AsCollected(x) \in ToSet(mine) /\ IsAsset(x)
    <2> TAKE x \in now
    <2>1. PICK p \in P : x \in ToSet(estate[p]) OBVIOUS
    <2>2. AsCollected(x) \in ToSet(collected) BY <2>1, <1>2, WholeOf
    <2>3. IsAsset(x) /\ x.provider = p BY <2>1, <1>6
    <2>4. AsCollected(x).provider = p BY <2>3, Fields
    <2> QED BY <2>2, <2>3, <2>4, <2>1, <1>4
  <1> HIDE DEF mine, now
  <1>9. KeysOf(ToSet(mine)) = KeysOf(now)
    <2>1. \A c \in ToSet(mine) : nodeKey(c) \in KeysOf(now) BY <1>7, Fields
    <2>2. \A x \in now : nodeKey(x) \in KeysOf(ToSet(mine)) BY <1>8, Fields
    <2> QED BY <2>1, <2>2
  <1>10. DOMAIN keyed(mine) = KeysOf(now) /\ DOMAIN keyed(req.baseline) = KeysOf(before)
    BY <1>9 DEF keyed
  <1>11. drift.added = KeysOf(now) \ KeysOf(before) /\ drift.removed = KeysOf(before) \ KeysOf(now)
    BY <1>10 DEF Compute
  <1>12. ASSUME diffAnswer(req).outcome = "ok", req.exitCode,
                NEW a \in before, \A c \in before : nodeKey(c) = nodeKey(a) => c = a
         PROVE  \E x \in now :
                  /\ nodeKey(x) = nodeKey(a) /\ x.status = a.status /\ x.name = a.name
                  /\ \A k \in DOMAIN a.tags \ DerivedTags : Tag(x, k) = a.tags[k]
    <2> DEFINE key == nodeKey(a)
               o == keyed(req.baseline)[key]
               n == keyed(mine)[key]
    <2>1. drift = NoDrift BY <1>1, <1>12
    <2>2. key \in KeysOf(before) /\ key \in KeysOf(now)
      BY <2>1, <1>11 DEF NoDrift
    <2>3. o = a
      <3>1. req.baseline \in Seq(before) BY RequestsAreParsed
      <3>2. o \in before /\ nodeKey(o) = key BY <3>1, <2>2, KeyedElement
      <3> QED BY <3>2, <1>12
    <2>4. n \in ToSet(mine) /\ nodeKey(n) = key BY <1>4, <1>9, <2>2, KeyedElement
    <2>5. diffFields(o, n) = {}
      <3>1. drift.changed = {k \in DOMAIN keyed(req.baseline) \cap DOMAIN keyed(mine) :
                               diffFields(keyed(req.baseline)[k], keyed(mine)[k]) # {}}
        BY DEF Compute
      <3>2. drift.changed = {} BY <2>1 DEF NoDrift
      <3> QED BY <3>1, <3>2, <2>2, <1>10
    <2>6. PICK x \in now : IsAsset(x) /\ n = AsCollected(x) BY <2>4, <1>7
    <2>7. n.status = x.status /\ n.name = x.name /\ n.tags = x.tags /\ nodeKey(n) = nodeKey(x)
      BY <2>6, Fields
    <2> HIDE DEF o, n
    <2>8. a.name = n.name /\ a.status = n.status BY <2>3, <2>5 DEF diffFields
    <2>9. \A k \in DOMAIN a.tags \ DerivedTags : Tag(a, k) = Tag(n, k) BY <2>3, <2>5 DEF diffFields
    <2>10. \A k \in DOMAIN a.tags : Tag(a, k) = a.tags[k] BY DEF Tag, Get
    <2>11. \A k : Tag(x, k) = Tag(n, k) BY <2>7 DEF Tag
    <2> QED BY <2>4, <2>7, <2>8, <2>9, <2>10, <2>11
  <1> HIDE DEF drift
  <1>13. /\ diffAnswer(req).request = req /\ diffAnswer(req).drift = drift BY <1>1
  <1> QED BY <1>11, <1>12, <1>13 DEF now

\* What `diff --against live` reports is a difference of the estate, whatever the order
\* providers end in and whoever else fails (diff.go's RunE, missingProviders, liveSnapshot).
THEOREM LiveDriftIsReal == Spec => []DriftIsReal
  <1>1. Init => CollectInv /\ DriftIsReal
    BY CollectStarts DEF Init, NoAnswer, DriftIsReal
  <1>2. CollectInv /\ DriftIsReal /\ [Next]_vars => (CollectInv /\ DriftIsReal)'
    <2> SUFFICES ASSUME CollectInv, DriftIsReal, [Next]_vars PROVE DriftIsReal'
      BY CollectSteps
    <2>1. ASSUME NEW p \in DOMAIN estate, NEW fails \in BOOLEAN, NEW n \in 0..Len(estate[p]),
                 Collect(p, n, fails)
          PROVE  DriftIsReal'
      BY <2>1 DEF Collect, NoAnswer, DriftIsReal
    <2>2. ASSUME NEW req \in Requests, Ask(req) PROVE DriftIsReal'
      <3> SUFFICES ASSUME answer'.kind = "diff" PROVE DriftIsReal' BY DEF DriftIsReal
      <3>1. estate' = estate /\ ended = started BY <2>2 DEF Ask
      <3>2. answer' = CASE req.command = "insights" -> insightsAnswer(req)
                        [] req.command = "cost" -> costAnswer(req)
                        [] req.command = "check" -> checkAnswer(req)
                        [] OTHER -> diffAnswer(req)
        BY <2>2 DEF Ask
      <3>3. req.command = "diff" /\ answer' = diffAnswer(req)
        BY <3>2, Kinds, RequestsAreParsed
      <3> QED BY <3>1, <3>3, DiffIsReal DEF DriftIsReal
    <2>3. CASE UNCHANGED vars BY <2>3 DEF vars, DriftIsReal
    <2> QED BY <2>1, <2>2, <2>3 DEF Next
  <1> QED BY <1>1, <1>2, PTL DEF Spec

-----------------------------------------------------------------------------
(* check.                                                                  *)

\* Rules that were loaded have severities there are (loadRuleFiles).
LEMMA RulesAreValid ==
  ASSUME NEW req \in Requests, req.command = "check", loadRuleFiles(req.files) # NoRules
  PROVE  /\ loadRuleFiles(req.files) \in Seq(ToSet(loadRuleFiles(req.files)))
         /\ \A r \in ToSet(loadRuleFiles(req.files)) : r.severity \in DOMAIN severityRank
  <1> DEFINE files == req.files
             W == UNION {ToSet(f) : f \in ToSet(files)}
             flat == FlattenSeq(files)
             rules == loadRuleFiles(files)
             Parsed(r) == [r EXCEPT !.severity = ParseSeverity(@)]
  <1>1. /\ \A r \in ToSet(flat) : ValidRule(r)
        /\ rules = [i \in DOMAIN flat |-> Parsed(flat[i])]
    BY DEF loadRuleFiles, Map
  <1>2. files \in Seq(ToSet(files)) /\ \A f \in ToSet(files) : f \in Seq(W)
    <2>1. files \in Seq(ToSet(files)) /\ \A f \in ToSet(files) : f \in Seq(ToSet(f))
      BY RequestsAreParsed
    <2>2. \A f \in ToSet(files) : ToSet(f) \subseteq W OBVIOUS
    <2> HIDE DEF W
    <2>3. \A f \in ToSet(files) : f \in Seq(W) BY <2>1, <2>2
    <2> QED BY <2>1, <2>3
  <1>3. \A r \in W : IsRule(r) BY RequestsAreParsed
  <1> HIDE DEF W
  <1>4. files \in Seq(Seq(W))
    <2>1. \A i \in 1..Len(files) : files[i] \in ToSet(files) BY <1>2 DEF ToSet
    <2> QED BY <1>2, <2>1
  <1> HIDE DEF files
  <1>5. flat \in Seq(W) BY <1>4, FlattenElements
  <1> HIDE DEF flat
  <1>6. \A i \in 1..Len(flat) : IsRule(flat[i]) /\ ValidRule(flat[i]) BY <1>1, <1>3, <1>5 DEF ToSet
  <1>7. \A i \in 1..Len(flat) : Parsed(flat[i]).severity \in DOMAIN severityRank
    <2> TAKE i \in 1..Len(flat)
    <2>1. IsRule(flat[i]) /\ ParseSeverity(flat[i].severity) \in DOMAIN severityRank
      BY <1>6 DEF ValidRule
    <2>2. Parsed(flat[i]).severity = ParseSeverity(flat[i].severity) BY <2>1 DEF IsRule
    <2> QED BY <2>1, <2>2
  <1> HIDE DEF rules, Parsed
  <1>8. DOMAIN flat = 1..Len(flat) /\ Len(flat) \in Nat BY <1>5
  <1>9. rules = [i \in 1..Len(flat) |-> rules[i]] /\ \A i \in 1..Len(flat) : rules[i] = Parsed(flat[i])
    BY <1>1, <1>8
  <1>10. DOMAIN rules = 1..Len(flat) BY <1>9
  <1>11. \A i \in 1..Len(flat) : rules[i] \in ToSet(rules) BY <1>10 DEF ToSet
  <1>12. rules \in Seq(ToSet(rules)) BY <1>8, <1>9, <1>11
  <1>13. \A r \in ToSet(rules) : r.severity \in DOMAIN severityRank BY <1>7, <1>9, <1>10 DEF ToSet
  <1> QED BY <1>12, <1>13 DEF rules, files

\* The severities found are those of the rules that some asset breaks (policy.Evaluate).
LEMMA EvaluateFinds ==
  ASSUME NEW R, NEW rules \in Seq(R), NEW V, NEW assets \in Seq(V)
  PROVE  {f.severity : f \in ToSet(Evaluate(rules, assets))}
           = {r.severity : r \in {x \in ToSet(rules) : \E a \in ToSet(assets) :
                                    matches(x.match, a) /\ problems(x, a) # {}}}
  <1> DEFINE Hit(r, a) == matches(r.match, a) /\ problems(r, a) # {}
             I(r) == {j \in DOMAIN assets : Hit(r, assets[j])}
             Found(r, a) == [rule |-> r.name, severity |-> r.severity, asset |-> nodeKey(a),
                             problems |-> problems(r, a)]
             F(r) == [j \in DOMAIN At(assets, I(r)) |-> Found(r, At(assets, I(r))[j])]
             ss == [i \in DOMAIN rules |-> F(rules[i])]
             U == UNION {ToSet(F(rules[i])) : i \in DOMAIN rules}
  <1>1. Evaluate(rules, assets) = FlattenSeq(ss) BY DEF Evaluate, Each, Map, Filter
  <1>2. ASSUME NEW r
        PROVE  /\ F(r) \in Seq(ToSet(F(r)))
               /\ ToSet(F(r)) = {Found(r, a) : a \in {x \in ToSet(assets) : Hit(r, x)}}
    <2> DEFINE t == At(assets, I(r))
    <2>1. {assets[j] : j \in I(r) \cap 1..Len(assets)} = {x \in ToSet(assets) : Hit(r, x)}
      <3> HIDE DEF Hit
      <3> QED BY DEF ToSet
    <2>2. t \in Seq(V) /\ ToSet(t) = {x \in ToSet(assets) : Hit(r, x)}
      <3> HIDE DEF Hit
      <3>1. t \in Seq(V) /\ ToSet(t) = {assets[j] : j \in I(r) \cap 1..Len(assets)}
        <4> HIDE DEF I
        <4> QED BY AtElements
      <3> QED BY <3>1, <2>1
    <2> DEFINE g == F(r)
    <2>3. g = [j \in DOMAIN t |-> Found(r, t[j])] OBVIOUS
    <2> HIDE DEF t, g, Found, Hit
    <2>4. DOMAIN t = 1..Len(t) /\ Len(t) \in Nat BY <2>2
    <2>5. DOMAIN g = 1..Len(t) /\ \A j \in 1..Len(t) : g[j] = Found(r, t[j]) BY <2>3, <2>4
    <2>6. g = [j \in 1..Len(t) |-> g[j]] BY <2>3, <2>4
    <2>7. \A j \in 1..Len(t) : g[j] \in ToSet(g) BY <2>5 DEF ToSet
    <2>8. g \in Seq(ToSet(g)) BY <2>4, <2>6, <2>7
    <2>9. ToSet(g) = {Found(r, a) : a \in ToSet(t)} BY <2>4, <2>5 DEF ToSet
    <2> QED BY <2>2, <2>8, <2>9 DEF g
  <1>3. \A i \in DOMAIN rules : F(rules[i]) \in Seq(U)
    <2> TAKE i \in DOMAIN rules
    <2> DEFINE g == F(rules[i])
    <2>1. g \in Seq(ToSet(g)) BY <1>2
    <2>2. ToSet(g) \subseteq U OBVIOUS
    <2> HIDE DEF g, U
    <2>3. g \in Seq(U) BY <2>1, <2>2
    <2> QED BY <2>3 DEF g
  <1>4. DOMAIN rules = 1..Len(rules) /\ Len(rules) \in Nat OBVIOUS
  <1> HIDE DEF F, U
  <1>5. ss \in Seq(Seq(U)) /\ Len(ss) = Len(rules) /\ \A i \in 1..Len(rules) : ss[i] = F(rules[i])
    BY <1>3, <1>4
  <1> HIDE DEF ss
  <1>6. ToSet(FlattenSeq(ss)) = UNION {ToSet(ss[i]) : i \in 1..Len(ss)} BY <1>5, FlattenElements
  <1>7. ToSet(FlattenSeq(ss)) = UNION {ToSet(F(r)) : r \in ToSet(rules)}
    <2>1. ToSet(FlattenSeq(ss)) = UNION {ToSet(ss[i]) : i \in 1..Len(rules)} BY <1>5, <1>6
    <2>2. \A i \in 1..Len(rules) : rules[i] \in ToSet(rules) /\ ToSet(ss[i]) = ToSet(F(rules[i]))
      BY <1>4, <1>5 DEF ToSet
    <2>3. \A r \in ToSet(rules) : \E i \in 1..Len(rules) : r = rules[i] BY <1>4 DEF ToSet
    <2> HIDE DEF ToSet
    <2>4. ASSUME NEW x PROVE x \in ToSet(FlattenSeq(ss)) <=> \E r \in ToSet(rules) : x \in ToSet(F(r))
      <3>1. x \in ToSet(FlattenSeq(ss)) <=> \E i \in 1..Len(rules) : x \in ToSet(ss[i]) BY <2>1
      <3> QED BY <3>1, <2>2, <2>3
    <2> QED BY <2>4
  <1> HIDE DEF Hit, Found
  <1>8. ToSet(Evaluate(rules, assets))
          = UNION {{Found(r, a) : a \in {x \in ToSet(assets) : Hit(r, x)}} : r \in ToSet(rules)}
    BY <1>1, <1>2, <1>7
  <1>9. \A r, a : Found(r, a).severity = r.severity BY DEF Found
  <1>10. {f.severity : f \in ToSet(Evaluate(rules, assets))}
           = {r.severity : r \in {x \in ToSet(rules) : \E a \in ToSet(assets) : Hit(x, a)}}
    BY <1>8, <1>9
  <1> QED BY <1>10 DEF Hit

\* A check that passes has seen no asset of the started providers break a rule of that severity.
LEMMA CheckSpeaks ==
  ASSUME CollectInv, ended = started, NEW req \in Requests, req.command = "check",
         checkAnswer(req).kind = "check", checkAnswer(req).outcome = "ok", req.exitCode,
         NEW rule \in ToSet(loadRuleFiles(req.files)),
         NEW a \in ToSet(Slice(req.filter, Everything)),
         severityRank[rule.severity] >= severityRank[req.failOn], matches(rule.match, a)
  PROVE  problems(rule, a) = {}
  <1> DEFINE rules == loadRuleFiles(req.files)
             mine == Slice(req.filter, collected)
             found == Evaluate(rules, mine)
             ranks == {-1} \cup {severityRank[f.severity] : f \in ToSet(found)}
             M == {c \in Collectable : Match(req.filter, c)}
  <1>1. /\ rules # NoRules
        /\ checkAnswer(req).outcome
             = ReportOutcome("ErrFindings", req.exitCode /\ WorstFinding(found) >= severityRank[req.failOn])
    BY DEF checkAnswer, Refused
  <1>2. failed = {} /\ ~(WorstFinding(found) >= severityRank[req.failOn])
    BY <1>1 DEF ReportOutcome
  <1>3. collected \in Seq(Collectable) /\ Everything \in Seq(Collectable)
        /\ ToSet(collected) = ToSet(Everything)
    BY <1>2, SameLists
  <1>4. mine \in Seq(Collectable) /\ a \in ToSet(mine)
    <2>1. mine = Keep(collected, M) /\ Slice(req.filter, Everything) = Keep(Everything, M)
      BY <1>3, SliceIs
    <2> HIDE DEF M, mine
    <2>2. Keep(collected, M) \in Seq(Collectable) /\ ToSet(Keep(collected, M)) = ToSet(collected) \cap M
      BY <1>3, KeepElements
    <2>3. ToSet(Keep(Everything, M)) = ToSet(Everything) \cap M BY <1>3, KeepElements
    <2> QED BY <2>1, <2>2, <2>3, <1>3
  <1>5. rules \in Seq(ToSet(rules)) /\ \A r \in ToSet(rules) : r.severity \in DOMAIN severityRank
    BY <1>1, RulesAreValid
  <1> SUFFICES ASSUME problems(rule, a) # {} PROVE FALSE OBVIOUS
  <1>6. {f.severity : f \in ToSet(found)}
           = {r.severity : r \in {x \in ToSet(rules) : \E c \in ToSet(mine) :
                                    matches(x.match, c) /\ problems(x, c) # {}}}
    <2> HIDE DEF rules, mine
    <2> QED BY <1>4, <1>5, EvaluateFinds, ZenonT(30)
  <1> HIDE DEF rules, mine, found
  <1>7. rule.severity \in {f.severity : f \in ToSet(found)} BY <1>4, <1>6 DEF rules
  <1>8. \A s \in DOMAIN severityRank : severityRank[s] \in -1..3 BY DEF severityRank
  <1>9. ranks \in SUBSET (-1..3) /\ severityRank[rule.severity] \in ranks
    <2>1. \A f \in ToSet(found) : f.severity \in DOMAIN severityRank BY <1>5, <1>6
    <2> QED BY <2>1, <1>7, <1>8
  <1> HIDE DEF ranks
  <1>10. Max(ranks) \in -1..3 /\ Max(ranks) >= severityRank[rule.severity]
    <2>1. -1 \in Int /\ 3 \in Int /\ ranks # {} BY <1>9
    <2>2. Max(ranks) \in ranks /\ \A y \in ranks : Max(ranks) >= y BY <1>9, <2>1, MaxOf
    <2> QED BY <1>9, <2>2
  <1>11. severityRank[req.failOn] \in -1..3 /\ severityRank[rule.severity] \in -1..3
    BY <1>8, <1>9, RequestsAreParsed
  <1>12. Max(ranks) >= severityRank[req.failOn] BY <1>10, <1>11
  <1> QED BY <1>2, <1>12 DEF WorstFinding, ranks

-----------------------------------------------------------------------------
(* What an insight reads of a complete collection.                         *)

\* An insight reads a complete collection as it reads everything: NewInput sorts
\* the assets, and of one key they are of one provider, in its order.
LEMMA SameInput ==
  ASSUME CollectInv, ended = started, failed = {}, NEW filter, NEW books
  PROVE  NewInput(Slice(filter, collected), books, Today)
           = NewInput(Slice(filter, Everything), books, Today)
  <1> DEFINE M == {a \in Collectable : Match(filter, a)}
             K(k) == {a \in Collectable : nodeKey(a) = k}
             Keyed(s, k) == Filter(s, LAMBDA a : nodeKey(a) = k)
  <1>1. collected \in Seq(Collectable) /\ Everything \in Seq(Collectable)
        /\ \A p : Keep(collected, Of(p)) = Keep(Everything, Of(p))
    BY SameLists
  <1>2. Slice(filter, collected) = Keep(collected, M) /\ Slice(filter, Everything) = Keep(Everything, M)
    BY <1>1, SliceIs
  <1>3. ASSUME NEW s \in Seq(Collectable), NEW k
        PROVE  Keyed(Keep(s, M), k) = Keep(Keep(s, Of(k[1])), M \cap K(k))
    <2> DEFINE t == Keep(s, M)
    <2>1. t \in Seq(Collectable) BY KeepElements
    <2> HIDE DEF t
    <2>2. {i \in DOMAIN t : nodeKey(t[i]) = k} = {i \in DOMAIN t : t[i] \in K(k)}
      BY <2>1
    <2>3. Keyed(t, k) = Keep(t, K(k)) BY <2>2 DEF Keep, Filter
    <2> HIDE DEF M, K, Keyed
    <2>4. Keep(t, K(k)) = Keep(s, M \cap K(k)) BY KeepKeep DEF t
    <2>5. M \cap K(k) = Of(k[1]) \cap (M \cap K(k))
      BY DEF M, K, Of, nodeKey, refKey, AsRef
    <2>6. Keep(Keep(s, Of(k[1])), M \cap K(k)) = Keep(s, Of(k[1]) \cap (M \cap K(k))) BY KeepKeep
    <2> QED BY <2>3, <2>4, <2>5, <2>6 DEF t
  <1>4. \A k : Keyed(Slice(filter, collected), k) = Keyed(Slice(filter, Everything), k)
    <2> HIDE DEF M, K, Keyed
    <2> TAKE k
    <2>1. Keyed(Keep(collected, M), k) = Keep(Keep(collected, Of(k[1])), M \cap K(k)) BY <1>1, <1>3
    <2>2. Keyed(Keep(Everything, M), k) = Keep(Keep(Everything, Of(k[1])), M \cap K(k)) BY <1>1, <1>3
    <2>3. Keep(collected, Of(k[1])) = Keep(Everything, Of(k[1])) BY <1>1
    <2> QED BY <2>1, <2>2, <2>3, <1>2
  <1>5. SortedAssets(Slice(filter, collected)) = SortedAssets(Slice(filter, Everything))
    <2> DEFINE All(s) == [i \in DOMAIN InputOrder |-> Keyed(s, InputOrder[i])]
    <2>1. \A s : SortedAssets(s) = FlattenSeq(All(s)) BY DEF SortedAssets, Each, Map
    <2>2. All(Slice(filter, collected)) = All(Slice(filter, Everything))
      <3> HIDE DEF Keyed
      <3> QED BY <1>4
    <2> HIDE DEF All
    <2> QED BY <2>1, <2>2
  <1> QED BY <1>5 DEF NewInput

\* An input has the assets it is given, as far as their keys are in the order.
LEMMA SortedElements ==
  ASSUME NEW V, NEW s \in Seq(V)
  PROVE  /\ SortedAssets(s) \in Seq(V)
         /\ ToSet(SortedAssets(s)) = {a \in ToSet(s) : nodeKey(a) \in ToSet(InputOrder)}
  <1> DEFINE F(k) == Filter(s, LAMBDA a : nodeKey(a) = k)
             ss == [i \in DOMAIN InputOrder |-> F(InputOrder[i])]
  <1>1. SortedAssets(s) = FlattenSeq(ss) BY DEF SortedAssets, Each, Map
  <1>2. ASSUME NEW k PROVE F(k) \in Seq(V) /\ ToSet(F(k)) = {a \in ToSet(s) : nodeKey(a) = k}
    <2> DEFINE A == {a \in V : nodeKey(a) = k}
    <2>1. {i \in DOMAIN s : nodeKey(s[i]) = k} = {i \in DOMAIN s : s[i] \in A} OBVIOUS
    <2>2. F(k) = Keep(s, A) BY <2>1 DEF Filter, Keep
    <2>3. ToSet(s) \cap A = {a \in ToSet(s) : nodeKey(a) = k} BY DEF ToSet
    <2> HIDE DEF F, A
    <2> QED BY <2>2, <2>3, KeepElements
  <1> HIDE DEF F
  <1>3. DOMAIN InputOrder = 1..Len(InputOrder) /\ Len(InputOrder) \in Nat BY InputOrderIsAList
  <1>4. ss \in Seq(Seq(V)) /\ Len(ss) = Len(InputOrder)
        /\ \A i \in 1..Len(InputOrder) : ss[i] = F(InputOrder[i])
    BY <1>2, <1>3
  <1> HIDE DEF ss
  <1>5. FlattenSeq(ss) \in Seq(V) /\ ToSet(FlattenSeq(ss)) = UNION {ToSet(ss[i]) : i \in 1..Len(ss)}
    BY <1>4, FlattenElements
  <1>6. \A i \in 1..Len(InputOrder) : ToSet(ss[i]) = {a \in ToSet(s) : nodeKey(a) = InputOrder[i]}
    BY <1>2, <1>4
  <1>7. ToSet(InputOrder) = {InputOrder[i] : i \in 1..Len(InputOrder)} BY <1>3 DEF ToSet
  <1> HIDE DEF ToSet
  <1>8. ASSUME NEW a
        PROVE  a \in ToSet(FlattenSeq(ss)) <=> a \in ToSet(s) /\ nodeKey(a) \in ToSet(InputOrder)
    <2>1. a \in ToSet(FlattenSeq(ss)) <=> \E i \in 1..Len(InputOrder) : a \in ToSet(ss[i]) BY <1>4, <1>5
    <2>2. nodeKey(a) \in ToSet(InputOrder) <=> \E i \in 1..Len(InputOrder) : nodeKey(a) = InputOrder[i]
      BY <1>7
    <2> QED BY <2>1, <2>2, <1>6
  <1> QED BY <1>1, <1>5, <1>8

\* The assets an input has after the filter.
LEMMA PictureElements ==
  ASSUME NEW V, NEW s \in Seq(V), NEW filter
  PROVE  /\ SortedAssets(Slice(filter, s)) \in Seq(V)
         /\ ToSet(SortedAssets(Slice(filter, s)))
              = {a \in ToSet(s) : Match(filter, a) /\ nodeKey(a) \in ToSet(InputOrder)}
  <1> DEFINE M == {a \in V : Match(filter, a)}
             t == Slice(filter, s)
  <1>1. t = Keep(s, M) BY SliceIs
  <1>2. t \in Seq(V) /\ ToSet(t) = ToSet(s) \cap M
    <2> HIDE DEF M, t
    <2> QED BY <1>1, KeepElements
  <1>3. ToSet(s) \cap M = {a \in ToSet(s) : Match(filter, a)} BY DEF ToSet
  <1> HIDE DEF M, t
  <1>4. SortedAssets(t) \in Seq(V)
        /\ ToSet(SortedAssets(t)) = {a \in ToSet(t) : nodeKey(a) \in ToSet(InputOrder)}
    BY <1>2, SortedElements
  <1>5. {a \in ToSet(t) : nodeKey(a) \in ToSet(InputOrder)}
          = {a \in ToSet(s) : Match(filter, a) /\ nodeKey(a) \in ToSet(InputOrder)}
    BY <1>2, <1>3
  <1> QED BY <1>4, <1>5 DEF t

-----------------------------------------------------------------------------
(* The insights and what they find, each a list.                           *)

\* Each finding function makes a finite list of findings.
LEMMA UnusedList ==
  ASSUME NEW in PROVE IsList(unusedEgressGateways(in, OfTypes(in, gatewayTypes)))
  BY NoElement, OneElement DEF unusedEgressGateways

\* The network insights.
LEMMA NetworkLists ==
  ASSUME NEW in
  PROVE  /\ IsList(publicAddresses(in))
         /\ IsList(privateAddresses(in))
         /\ IsList(networkGateways(in))
         /\ IsList(ingressPoints(in))
         /\ IsList(danglingDNS(in))
         /\ IsList(overlappingCIDRs(in))
  <1>1. IsList(publicAddresses(in)) BY NoElement, OneElement DEF publicAddresses
  <1>2. IsList(privateAddresses(in)) BY NoElement, OneElement DEF privateAddresses
  <1>3. IsList(networkGateways(in)) BY UnusedList, NoElement, OneElement, BothLists DEF networkGateways
  <1>4. IsList(ingressPoints(in)) BY NoElement, OneElement DEF ingressPoints
  <1>5. IsList(danglingDNS(in)) BY NoElement, OneElement DEF danglingDNS
  <1>6. IsList(overlappingCIDRs(in)) BY NoElement, OneElement DEF overlappingCIDRs
  <1> QED BY <1>1, <1>2, <1>3, <1>4, <1>5, <1>6

\* What ageing and recentlyCreated share.
LEMMA AgeList ==
  ASSUME NEW in, NEW id, NEW severity, NEW assets, NEW facts
  PROVE  IsList(AgeFinding(in, id, severity, assets, facts))
  BY NoElement, OneElement DEF AgeFinding

\* The hygiene insights.
LEMMA HygieneLists ==
  ASSUME NEW in
  PROVE  /\ IsList(ownership(in))
         /\ IsList(recentlyCreated(in))
         /\ IsList(ageing(in))
         /\ IsList(expiry(in))
         /\ IsList(namespacePolicy(in))
         /\ IsList(singleReplica(in))
  <1>1. IsList(ownership(in)) BY NoElement, OneElement DEF ownership
  <1>2. IsList(recentlyCreated(in)) BY AgeList DEF recentlyCreated
  <1>3. IsList(ageing(in)) BY AgeList DEF ageing
  <1>4. IsList(expiry(in)) BY NoElement, OneElement, BothLists DEF expiry
  <1>5. IsList(namespacePolicy(in)) BY NoElement, OneElement DEF namespacePolicy
  <1>6. IsList(singleReplica(in)) BY NoElement, OneElement DEF singleReplica
  <1> QED BY <1>1, <1>2, <1>3, <1>4, <1>5, <1>6

\* The utilization insights.
LEMMA UtilizationLists ==
  ASSUME NEW in
  PROVE  /\ IsList(podRequestUsage(in))
         /\ IsList(nodeHeadroom(in))
         /\ IsList(unrequestedWorkload(in))
         /\ IsList(unmeasurable(in))
  <1>1. IsList(podRequestUsage(in)) BY NoElement, OneElement DEF podRequestUsage
  <1>2. IsList(nodeHeadroom(in)) BY NoElement, OneElement DEF nodeHeadroom
  <1>3. IsList(unrequestedWorkload(in)) BY NoElement, OneElement DEF unrequestedWorkload
  <1>4. IsList(unmeasurable(in)) BY NoElement, OneElement DEF unmeasurable
  <1> QED BY <1>1, <1>2, <1>3, <1>4

\* What the insights about money share.
LEMMA ItemLists ==
  /\ \A items, keys : IsList(byTagFinding(items, keys))
  /\ \A id, severity, items, caveats : IsList(ItemsFinding(id, severity, items, caveats))
  BY NoElement, OneElement, ZenonT(30) DEF byTagFinding, ItemsFinding

\* The insights about money.
LEMMA CostLists ==
  ASSUME NEW in
  PROVE  /\ IsList(runRate(in))
         /\ IsList(concentration(in))
         /\ IsList(byDimension(in))
         /\ IsList(showback(in))
         /\ IsList(orphanedSpend(in))
         /\ IsList(stoppedBilled(in))
         /\ IsList(unpriced(in))
  <1>1. IsList(runRate(in)) BY NoElement, OneElement DEF runRate
  <1>2. IsList(concentration(in)) BY NoElement, OneElement DEF concentration
  <1>3. IsList(byDimension(in)) BY NoElement, OneElement, BothLists DEF byDimension
  <1>4. IsList(showback(in)) BY ItemLists, NoElement, OneElement, BothLists DEF showback
  <1>5. IsList(orphanedSpend(in)) BY ItemLists DEF orphanedSpend
  <1>6. IsList(stoppedBilled(in)) BY ItemLists DEF stoppedBilled
  <1>7. IsList(unpriced(in)) BY NoElement, OneElement DEF unpriced
  <1> QED BY <1>1, <1>2, <1>3, <1>4, <1>5, <1>6, <1>7

\* The ids that are registered, by family.
NetworkIds ==
  {"network.dangling-dns", "network.gateways", "network.ingress-points",
   "network.overlapping-cidrs", "network.private-addresses", "network.public-addresses"}

\* Those about money: all of them need prices.
CostIds ==
  {"cost.by-dimension", "cost.concentration", "cost.orphaned-spend", "cost.run-rate",
   "cost.showback", "cost.stopped-but-billed", "cost.unpriced"}

\* Those about upkeep.
HygieneIds ==
  {"hygiene.ageing-resources", "hygiene.expiry", "hygiene.namespaces-without-network-policy",
   "hygiene.ownership", "hygiene.recently-created", "hygiene.single-replica-workloads"}

\* Those about use.
UtilizationIds ==
  {"utilization.no-usage-data", "utilization.node-headroom",
   "utilization.pod-requests-vs-usage", "utilization.workloads-without-requests"}

\* All ids.
Ids == NetworkIds \cup CostIds \cup HygieneIds \cup UtilizationIds

\* The insights that may be registered.
Insights == [family : {"network", "cost", "hygiene", "utilization"}, id : Ids]

\* The insights of one family, listed.
LEMMA FamilyIs ==
  ASSUME NEW F, NEW family \in F, NEW I, NEW ids \in Seq(I)
  PROVE  Map(ids, LAMBDA id : [family |-> family, id |-> id]) \in Seq([family : F, id : I])
  <1> DEFINE m == [i \in DOMAIN ids |-> [family |-> family, id |-> ids[i]]]
  <1>1. m \in Seq([family : F, id : I])
    <2>1. DOMAIN ids = 1..Len(ids) /\ Len(ids) \in Nat OBVIOUS
    <2>2. \A i \in 1..Len(ids) : ids[i] \in I OBVIOUS
    <2> QED BY <2>1, <2>2
  <1> QED BY <1>1 DEF Map

\* What is registered are insights with these ids (registry.go).
LEMMA RegisteredIs ==
  Registered \in Seq([family : {"network", "cost", "hygiene", "utilization"}, id : Ids])
  <1> DEFINE R == [family : {"network", "cost", "hygiene", "utilization"}, id : Ids]
             Of1(family, ids) == Map(ids, LAMBDA id : [family |-> family, id |-> id])
             n == <<"network.dangling-dns", "network.gateways", "network.ingress-points",
          "network.overlapping-cidrs", "network.private-addresses", "network.public-addresses">>
             c == <<"cost.by-dimension", "cost.concentration", "cost.orphaned-spend", "cost.run-rate",
               "cost.showback", "cost.stopped-but-billed", "cost.unpriced">>
             h == <<"hygiene.ageing-resources", "hygiene.expiry",
               "hygiene.namespaces-without-network-policy", "hygiene.ownership",
               "hygiene.recently-created", "hygiene.single-replica-workloads">>
             u == <<"utilization.no-usage-data", "utilization.node-headroom",
               "utilization.pod-requests-vs-usage", "utilization.workloads-without-requests">>
  <1>1. n \in Seq(Ids) /\ c \in Seq(Ids) /\ h \in Seq(Ids) /\ u \in Seq(Ids)
    <2>1. n \in Seq(NetworkIds) BY DEF NetworkIds
    <2>2. c \in Seq(CostIds) BY DEF CostIds
    <2>3. h \in Seq(HygieneIds) BY DEF HygieneIds
    <2>4. u \in Seq(UtilizationIds) BY DEF UtilizationIds
    <2> HIDE DEF n, c, h, u
    <2> QED BY <2>1, <2>2, <2>3, <2>4 DEF Ids
  <1>2. Registered = Of1("network", n) \o Of1("cost", c) \o Of1("hygiene", h) \o Of1("utilization", u)
    BY DEF Registered
  <1> HIDE DEF n, c, h, u
  <1>3. ASSUME NEW family \in {"network", "cost", "hygiene", "utilization"}, NEW ids \in Seq(Ids)
        PROVE  Of1(family, ids) \in Seq(R)
    BY FamilyIs
  <1> HIDE DEF Of1
  <1>4. /\ Of1("network", n) \in Seq(R) /\ Of1("cost", c) \in Seq(R)
        /\ Of1("hygiene", h) \in Seq(R) /\ Of1("utilization", u) \in Seq(R)
    BY <1>1, <1>3
  <1> HIDE DEF R
  <1>5. Registered \in Seq(R) BY <1>2, <1>4
  <1> QED BY <1>5 DEF R

\* What --only selects are some of them.
LEMMA ChosenIs ==
  ASSUME NEW only
  PROVE  /\ Chosen(only) \in Seq(Insights) /\ Len(Chosen(only)) \in Nat
         /\ Len(Registered) \in Nat /\ Len(Chosen(only)) <= Len(Registered)
  <1> DEFINE I == {i \in DOMAIN Registered : selected(Registered[i], only)}
  <1>1. Chosen(only) = At(Registered, I) BY DEF Chosen, Filter
  <1> HIDE DEF I
  <1>2. Registered \in Seq(Insights) BY RegisteredIs DEF Insights
  <1>3. At(Registered, I) \in Seq(Insights) BY <1>2, AtElements
  <1> QED BY <1>1, <1>2, <1>3, AtLength

\* Every registered insight makes a list of findings.
LEMMA FindingsAreLists ==
  ASSUME NEW id \in Ids, NEW in
  PROVE  IsList(Findings(id, in))
  BY NetworkLists, CostLists, HygieneLists, UtilizationLists
  DEF Findings, Ids, NetworkIds, CostIds, HygieneIds, UtilizationIds

\* So does a run over the insights that were tried.
LEMMA FindingsListed ==
  ASSUME NEW in, NEW tried \in Seq(Insights)
  PROVE  IsList(FindingsOf(in, tried))
  <1> DEFINE I == {i \in DOMAIN tried : unmet(tried[i], in) = ""}
             t == At(tried, I)
             ss == [i \in DOMAIN t |-> Findings(t[i].id, in)]
             V == UNION {ToSet(Findings(id, in)) : id \in Ids}
  <1>1. FindingsOf(in, tried) = FlattenSeq(ss) BY DEF FindingsOf, Each, Map, Filter
  <1>2. t \in Seq(Insights)
    <2> HIDE DEF I
    <2> QED BY AtElements
  <1>3. \A id \in Ids : Findings(id, in) \in Seq(V)
    <2> TAKE id \in Ids
    <2>1. Findings(id, in) \in Seq(ToSet(Findings(id, in))) BY FindingsAreLists DEF IsList
    <2>2. ToSet(Findings(id, in)) \subseteq V OBVIOUS
    <2> HIDE DEF V
    <2> QED BY <2>1, <2>2
  <1> HIDE DEF t, V
  <1>4. DOMAIN t = 1..Len(t) /\ Len(t) \in Nat /\ \A i \in 1..Len(t) : t[i].id \in Ids
    <2>1. \A i \in 1..Len(t) : t[i] \in Insights BY <1>2
    <2>2. \A x \in Insights : x.id \in Ids BY DEF Insights
    <2> QED BY <1>2, <2>1, <2>2
  <1>5. ss \in Seq(Seq(V)) BY <1>3, <1>4
  <1> HIDE DEF ss
  <1>6. FlattenSeq(ss) \in Seq(V) BY <1>5, FlattenElements
  <1> DEFINE m == FlattenSeq(ss)
  <1>7. m \in Seq(ToSet(m))
    <2> HIDE DEF m
    <2>1. \A i \in 1..Len(m) : m[i] \in ToSet(m) BY <1>6 DEF ToSet, m
    <2> QED BY <2>1, <1>6 DEF m
  <1> QED BY <1>1, <1>7 DEF IsList

\* An insight can run on an input.
Runs(i, in) == unmet(i, in) = ""

\* What is found by an insight that was tried and can run is among the findings.
LEMMA FindingsMade ==
  ASSUME NEW in, NEW tried \in Seq(Insights), NEW own \in ToSet(tried), Runs(own, in)
  PROVE  ToSet(Findings(own.id, in)) \subseteq ToSet(FindingsOf(in, tried))
  <1> DEFINE I == {n \in DOMAIN tried : unmet(tried[n], in) = ""}
             t == At(tried, I)
             ss == [n \in DOMAIN t |-> Findings(t[n].id, in)]
             V == UNION {ToSet(Findings(id, in)) : id \in Ids}
  <1>1. FindingsOf(in, tried) = FlattenSeq(ss) BY DEF FindingsOf, Each, Map, Filter
  <1>2. t \in Seq(Insights) /\ ToSet(t) = {tried[n] : n \in I \cap 1..Len(tried)}
    <2> HIDE DEF I
    <2> QED BY AtElements
  <1>3. own \in ToSet(t)
    <2>1. DOMAIN tried = 1..Len(tried) OBVIOUS
    <2>2. PICK n \in 1..Len(tried) : tried[n] = own BY <2>1 DEF ToSet
    <2>3. n \in I BY <2>1, <2>2 DEF Runs
    <2> HIDE DEF I, t
    <2> QED BY <1>2, <2>2, <2>3
  <1>4. \A id \in Ids : Findings(id, in) \in Seq(V)
    <2> TAKE id \in Ids
    <2>1. Findings(id, in) \in Seq(ToSet(Findings(id, in))) BY FindingsAreLists DEF IsList
    <2>2. ToSet(Findings(id, in)) \subseteq V OBVIOUS
    <2> HIDE DEF V
    <2> QED BY <2>1, <2>2
  <1> HIDE DEF I, t, V
  <1>5. DOMAIN t = 1..Len(t) /\ Len(t) \in Nat /\ \A n \in 1..Len(t) : t[n].id \in Ids
    <2>1. \A n \in 1..Len(t) : t[n] \in Insights BY <1>2
    <2>2. \A x \in Insights : x.id \in Ids BY DEF Insights
    <2> QED BY <1>2, <2>1, <2>2
  <1>6. ss \in Seq(Seq(V)) /\ Len(ss) = Len(t) BY <1>4, <1>5
  <1>7. PICK n \in 1..Len(t) : t[n] = own BY <1>3, <1>5 DEF ToSet
  <1>8. ss[n] = Findings(own.id, in) BY <1>5, <1>7
  <1> HIDE DEF ss, ToSet
  <1>9. ToSet(FlattenSeq(ss)) = UNION {ToSet(ss[m]) : m \in 1..Len(ss)} BY <1>6, FlattenElements
  <1>10. ToSet(ss[n]) \subseteq UNION {ToSet(ss[m]) : m \in 1..Len(ss)} BY <1>6
  <1> QED BY <1>1, <1>8, <1>9, <1>10

-----------------------------------------------------------------------------
(* The report of a run.                                                    *)

\* What is reported: the findings that are valid and severe enough.
LEMMA ReportShows ==
  ASSUME NEW in, NEW tried, NEW made, IsList(made), NEW min, NEW complete
  PROVE  ToSet(ReportOf(in, tried, made, min, complete).findings)
           = {f \in ToSet(made) : ValidateFinding(f) /\ Rank(f.severity) >= min}
  <1> DEFINE valid == Filter(made, ValidateFinding)
             A == {f \in ToSet(made) : ValidateFinding(f)}
             B == {f \in ToSet(made) : Rank(f.severity) >= min}
             shown == Filter(valid, LAMBDA f : Rank(f.severity) >= min)
  <1>1. made \in Seq(ToSet(made)) BY DEF IsList
  <1>2. valid = Keep(made, A)
    <2> HIDE DEF ValidateFinding
    <2>1. {i \in DOMAIN made : ValidateFinding(made[i])} = {i \in DOMAIN made : made[i] \in A}
      BY <1>1
    <2> QED BY <2>1 DEF Filter, Keep
  <1>3. valid \in Seq(ToSet(made)) /\ ToSet(valid) = ToSet(made) \cap A
    <2> HIDE DEF valid, A
    <2> QED BY <1>1, <1>2, KeepElements
  <1>4. shown = Keep(valid, B)
    <2> HIDE DEF valid
    <2>1. {i \in DOMAIN valid : Rank(valid[i].severity) >= min} = {i \in DOMAIN valid : valid[i] \in B}
      BY <1>3
    <2> QED BY <2>1 DEF Filter, Keep
  <1>5. ToSet(shown) = ToSet(valid) \cap B
    <2> HIDE DEF valid, B, shown
    <2> QED BY <1>3, <1>4, KeepElements
  <1>6. ReportOf(in, tried, made, min, complete).findings = shown BY DEF ReportOf
  <1> HIDE DEF valid, shown
  <1> QED BY <1>3, <1>5, <1>6

\* A finding that is not reported is counted as suppressed or as hidden.
LEMMA ReportCounts ==
  ASSUME NEW in, NEW tried, NEW made, IsList(made), NEW min, NEW complete,
         NEW f \in ToSet(made), f \notin ToSet(ReportOf(in, tried, made, min, complete).findings)
  PROVE  LET report == ReportOf(in, tried, made, min, complete)
         IN report.hidden + report.suppressed > 0
  <1> DEFINE valid == Filter(made, ValidateFinding)
             A == {x \in ToSet(made) : ValidateFinding(x)}
             B == {x \in ToSet(made) : Rank(x.severity) >= min}
             shown == Filter(valid, LAMBDA x : Rank(x.severity) >= min)
             report == ReportOf(in, tried, made, min, complete)
  <1>1. made \in Seq(ToSet(made)) BY DEF IsList
  <1>2. valid = Keep(made, A)
    <2> HIDE DEF ValidateFinding
    <2>1. {i \in DOMAIN made : ValidateFinding(made[i])} = {i \in DOMAIN made : made[i] \in A}
      BY <1>1
    <2> QED BY <2>1 DEF Filter, Keep
  <1>3. valid \in Seq(ToSet(made)) /\ ToSet(valid) = ToSet(made) \cap A
    <2> HIDE DEF valid, A
    <2> QED BY <1>1, <1>2, KeepElements
  <1>4. shown = Keep(valid, B)
    <2> HIDE DEF valid
    <2>1. {i \in DOMAIN valid : Rank(valid[i].severity) >= min} = {i \in DOMAIN valid : valid[i] \in B}
      BY <1>3
    <2> QED BY <2>1 DEF Filter, Keep
  <1>5. report.findings = shown /\ report.suppressed = Len(made) - Len(valid)
        /\ report.hidden = Len(valid) - Len(shown)
    BY DEF ReportOf
  <1> HIDE DEF valid, shown, report, A, B
  <1>6. Len(valid) \in Nat /\ Len(valid) <= Len(made) /\ (f \notin A => Len(valid) < Len(made))
    BY <1>1, <1>2, KeepLength
  <1>7. ToSet(shown) = ToSet(valid) \cap B BY <1>3, <1>4, KeepElements
  <1>8. Len(shown) \in Nat /\ Len(shown) <= Len(valid) /\ (f \in A => Len(shown) < Len(valid))
    <2>1. f \notin ToSet(shown) BY <1>5 DEF report
    <2>2. f \in A => f \in ToSet(valid) /\ f \notin B BY <1>3, <1>7, <2>1
    <2> QED BY <1>3, <1>4, <2>2, KeepLength
  <1>9. Len(made) \in Nat BY <1>1
  <1>10. report.hidden + report.suppressed > 0 BY <1>5, <1>6, <1>8, <1>9
  <1> QED BY <1>10 DEF report

\* A complete run reports over all insights that were chosen.
LEMMA RunIs ==
  ASSUME NEW in, NEW only, NEW min, NEW budget \in Nat,
         Run(in, only, min, budget).complete \/ budget >= Len(Registered)
  PROVE  Run(in, only, min, budget)
           = ReportOf(in, Chosen(only), FindingsOf(in, Chosen(only)), min, TRUE)
  <1> DEFINE chosen == Chosen(only)
             n == Min({budget, Len(chosen)})
             tried == SubSeq(chosen, 1, n)
  <1>1. Run(in, only, min, budget)
          = ReportOf(in, tried, FindingsOf(in, tried), min, Len(tried) = Len(chosen))
    BY DEF Run
  <1>2. Run(in, only, min, budget).complete <=> Len(tried) = Len(chosen)
    <2> DEFINE whole == Len(tried) = Len(chosen)
               made == FindingsOf(in, tried)
    <2>1. Run(in, only, min, budget) = ReportOf(in, tried, made, min, whole) BY <1>1
    <2> HIDE DEF whole, tried, made
    <2>2. ReportOf(in, tried, made, min, whole).complete = whole BY DEF ReportOf
    <2> QED BY <2>1, <2>2 DEF whole
  <1>3. chosen \in Seq(Insights) /\ Len(chosen) \in Nat
        /\ Len(Registered) \in Nat /\ Len(chosen) <= Len(Registered)
    BY ChosenIs
  <1>4. n \in Nat /\ n <= Len(chosen) /\ (n = budget \/ n = Len(chosen))
    BY <1>3, MinOf
  <1> HIDE DEF chosen, n
  <1>5. Len(tried) = n BY <1>3, <1>4
  <1>6. n = Len(chosen) BY <1>2, <1>3, <1>4, <1>5
  <1>7. tried = chosen BY <1>3, <1>6
  <1>8. (Len(tried) = Len(chosen)) = TRUE BY <1>5, <1>6
  <1> QED BY <1>1, <1>7, <1>8 DEF chosen

\* What a run reports that tried all it chose.
LEMMA RunComplete ==
  ASSUME NEW in, NEW only, NEW min, NEW budget \in Nat,
         Run(in, only, min, budget).complete \/ budget >= Len(Registered)
  PROVE  ToSet(Run(in, only, min, budget).findings)
           = {f \in ToSet(FindingsOf(in, Chosen(only))) :
                ValidateFinding(f) /\ Rank(f.severity) >= min}
  <1> DEFINE chosen == Chosen(only)
             made == FindingsOf(in, chosen)
             whole == TRUE
  <1>1. Run(in, only, min, budget) = ReportOf(in, chosen, made, min, whole) BY RunIs
  <1>2. chosen \in Seq(Insights) BY ChosenIs
  <1> HIDE DEF chosen
  <1>3. IsList(made) BY <1>2, FindingsListed
  <1> HIDE DEF whole, made
  <1>4. ToSet(ReportOf(in, chosen, made, min, whole).findings)
          = {f \in ToSet(made) : ValidateFinding(f) /\ Rank(f.severity) >= min}
    BY <1>3, ReportShows
  <1> QED BY <1>1, <1>4 DEF chosen, made

\* A severity has its place in the order of severities.
LEMMA RankIs ==
  ASSUME NEW s \in ToSet(Severities)
  PROVE  Rank(s) \in 1..4
  BY DEF Rank, Severities, ToSet

-----------------------------------------------------------------------------
(* The gates of insights and check.                                        *)

\* Insights that pass have found nothing severe in everything.
LEMMA InsightsSpeak ==
  ASSUME CollectInv, ended = started, NEW req \in Requests, req.command = "insights",
         insightsAnswer(req).kind = "insights", insightsAnswer(req).outcome = "ok", req.exitCode,
         insightsAnswer(req).report.complete, req.severity <= req.failOn,
         NEW f \in ToSet(Run(NewInput(Slice(req.filter, Everything),
                                      IF req.cost THEN <<BookOf(req)>> ELSE <<>>, Today),
                             req.only, 1, Len(Registered)).findings)
  PROVE  Rank(f.severity) < req.failOn
  <1> DEFINE books == IF req.cost THEN <<BookOf(req)>> ELSE <<>>
             in == NewInput(Slice(req.filter, collected), books, Today)
             report == Run(in, req.only, req.severity, req.budget)
             tripped == req.exitCode /\ report.findings # <<>> /\ MaxSeverity(report) >= req.failOn
             made == FindingsOf(in, Chosen(req.only))
  <1>1. insightsAnswer(req) = [kind |-> "insights", request |-> req, report |-> report,
                               outcome |-> ReportOutcome("ErrInsights", tripped)]
    BY DEF insightsAnswer, insightsPriced, insightsReported, Refused
  <1> HIDE DEF report, tripped
  <1>2. report.complete /\ ReportOutcome("ErrInsights", tripped) = "ok" BY <1>1
  <1>3. failed = {} /\ ~tripped BY <1>2 DEF ReportOutcome
  <1>4. in = NewInput(Slice(req.filter, Everything), books, Today)
    <2> HIDE DEF books
    <2> QED BY <1>3, SameInput
  <1>5. req.severity \in 1..4 /\ req.failOn \in 1..4 /\ req.budget \in Nat
    BY RequestsAreParsed, SMTT(30) DEF Severities
  <1>6. Len(Registered) \in Nat /\ Chosen(req.only) \in Seq(Insights) BY ChosenIs
  <1> HIDE DEF in
  <1>7. ToSet(report.findings)
          = {x \in ToSet(made) : ValidateFinding(x) /\ Rank(x.severity) >= req.severity}
    BY <1>2, <1>5, RunComplete DEF report
  <1>8. ToSet(Run(in, req.only, 1, Len(Registered)).findings)
          = {x \in ToSet(made) : ValidateFinding(x) /\ Rank(x.severity) >= 1}
    BY <1>6, RunComplete
  <1>9. f \in ToSet(made) /\ ValidateFinding(f)
    BY <1>4, <1>8
  <1> HIDE DEF made
  <1>10. Rank(f.severity) \in 1..4 BY <1>9, RankIs DEF ValidateFinding
  <1> SUFFICES ASSUME Rank(f.severity) >= req.failOn PROVE FALSE BY <1>5, <1>10
  <1>11. f \in ToSet(report.findings) BY <1>5, <1>7, <1>9, <1>10
  <1>12. report.findings # <<>> BY <1>11 DEF ToSet
  <1> DEFINE ranks == {0} \cup {Rank(x.severity) : x \in ToSet(report.findings)}
  <1>13. ranks \in SUBSET (0..4)
    <2>1. \A x \in ToSet(report.findings) : Rank(x.severity) \in 1..4
      BY <1>7, RankIs DEF ValidateFinding
    <2> QED BY <2>1
  <1>14. Rank(f.severity) \in ranks BY <1>11
  <1>15. Max(ranks) \in 0..4 /\ Max(ranks) >= Rank(f.severity)
    <2> HIDE DEF ranks
    <2>1. 0 \in Int /\ 4 \in Int /\ ranks # {} BY <1>14
    <2>2. Max(ranks) \in ranks /\ \A y \in ranks : Max(ranks) >= y BY <1>13, <2>1, MaxOf
    <2> QED BY <1>13, <1>14, <2>2
  <1>16. MaxSeverity(report) = Max(ranks) BY DEF MaxSeverity
  <1> HIDE DEF ranks
  <1>17. MaxSeverity(report) >= req.failOn BY <1>15, <1>16, <1>5, <1>10
  <1> QED BY <1>3, <1>12, <1>17 DEF tripped

\* Everything depends on nothing but the estate, the payloads and who was started.
LEMMA SameEverything ==
  ASSUME UNCHANGED <<estate, payload, started>> PROVE Everything' = Everything
  BY DEF Everything, Each, Map, AsCollected

\* A gate that passes when the answer is given speaks for everything.
LEMMA GateSpeaks ==
  ASSUME CollectInv, ended = started, NEW req \in Requests, Ask(req)
  PROVE  GateSpeaksForTheEstate'
  <1>1. /\ answer' = CASE req.command = "insights" -> insightsAnswer(req)
                        [] req.command = "cost" -> costAnswer(req)
                        [] req.command = "check" -> checkAnswer(req)
                        [] OTHER -> diffAnswer(req)
        /\ UNCHANGED <<estate, payload, started, ended, failed, collected>>
    BY DEF Ask
  <1>2. Everything' = Everything BY <1>1, SameEverything
  <1>3. req.command \in {"insights", "cost", "check", "diff"} BY RequestsAreParsed
  <1>4. CASE answer'.kind = "check"
    <2>1. req.command = "check" /\ answer' = checkAnswer(req)
      BY <1>1, <1>3, <1>4, Kinds
    <2>2. answer'.request = req BY <2>1, <1>4 DEF checkAnswer, Refused
    <2>3. ASSUME answer'.outcome = "ok", req.exitCode
          PROVE  \A rule \in ToSet(loadRuleFiles(req.files)), a \in ToSet(Slice(req.filter, Everything)) :
                severityRank[rule.severity] >= severityRank[req.failOn] /\ matches(rule.match, a)
                  => problems(rule, a) = {}
      BY <2>1, <2>3, <1>4, CheckSpeaks
    <2> QED BY <1>2, <1>4, <2>2, <2>3 DEF GateSpeaksForTheEstate
  <1>5. CASE answer'.kind = "insights"
    <2>1. req.command = "insights" /\ answer' = insightsAnswer(req)
      BY <1>1, <1>3, <1>5, Kinds
    <2>2. answer'.request = req BY <2>1, <1>5 DEF insightsAnswer, insightsPriced, insightsReported, Refused
    <2>3. ASSUME answer'.outcome = "ok", req.exitCode, answer'.report.complete, req.severity <= req.failOn
          PROVE  \A f \in ToSet(Run(NewInput(Slice(req.filter, Everything),
                                      IF req.cost THEN <<BookOf(req)>> ELSE <<>>, Today),
                             req.only, 1, Len(Registered)).findings) : Rank(f.severity) < req.failOn
      BY <2>1, <2>3, <1>5, InsightsSpeak
    <2> QED BY <1>2, <1>5, <2>2, <2>3 DEF GateSpeaksForTheEstate
  <1> QED BY <1>4, <1>5 DEF GateSpeaksForTheEstate

\* It does so until the estate changes.
LEMMA GateSpeaksStays ==
  ASSUME GateSpeaksForTheEstate, UNCHANGED <<estate, payload, started, answer>>
  PROVE  GateSpeaksForTheEstate'
  <1>1. Everything' = Everything BY SameEverything
  <1> QED BY <1>1 DEF GateSpeaksForTheEstate

\* A gate of insights or check that passes speaks for the whole of what the started
\* providers have (the collection's errors come before the gate in both RunE).
THEOREM PassingGateSpeaks == Spec => []GateSpeaksForTheEstate
  <1>1. Init => CollectInv /\ GateSpeaksForTheEstate
    BY CollectStarts DEF Init, NoAnswer, GateSpeaksForTheEstate
  <1>2. CollectInv /\ GateSpeaksForTheEstate /\ [Next]_vars => (CollectInv /\ GateSpeaksForTheEstate)'
    <2> SUFFICES ASSUME CollectInv, GateSpeaksForTheEstate, [Next]_vars PROVE GateSpeaksForTheEstate'
      BY CollectSteps
    <2>1. ASSUME NEW p \in DOMAIN estate, NEW fails \in BOOLEAN, NEW n \in 0..Len(estate[p]),
                 Collect(p, n, fails)
          PROVE  GateSpeaksForTheEstate'
      <3>1. answer'.kind = "none" BY <2>1 DEF Collect, NoAnswer
      <3> QED BY <3>1 DEF GateSpeaksForTheEstate
    <2>2. ASSUME NEW req \in Requests, Ask(req) PROVE GateSpeaksForTheEstate'
      <3>1. ended = started BY <2>2 DEF Ask
      <3> QED BY <3>1, <2>2, GateSpeaks
    <2>3. CASE UNCHANGED vars BY <2>3, GateSpeaksStays DEF vars
    <2> QED BY <2>1, <2>2, <2>3 DEF Next
  <1> QED BY <1>1, <1>2, PTL DEF Spec

-----------------------------------------------------------------------------
(* Insights read no prices but those about money.                          *)

\* Two inputs with the same assets, edges and time.
SamePicture(in, j) == in.assets = j.assets /\ in.edges = j.edges /\ in.now = j.now

\* What insights look up in such inputs is the same.
LEMMA SameReadings ==
  ASSUME NEW in, NEW j, SamePicture(in, j)
  PROVE  /\ \A types : OfTypes(in, types) = OfTypes(j, types)
         /\ declaredRanges(in) = declaredRanges(j) /\ LivePods(in) = LivePods(j)
         /\ RawAvailable(in) = RawAvailable(j) /\ collectedZones(in) = collectedZones(j)
         /\ ownedHostnames(in) = ownedHostnames(j)
         /\ \A id : AssetByID(in, id) = AssetByID(j, id)
         /\ \A a : EdgesFrom(in, a) = EdgesFrom(j, a) /\ EdgesTo(in, a) = EdgesTo(j, a)
         /\ \A p : utilIndexPodMetrics(in, p) = utilIndexPodMetrics(j, p)
  BY DEF SamePicture, OfTypes, declaredRanges, LivePods, RawAvailable, collectedZones, ownedHostnames,
         AssetByID, EdgesFrom, EdgesTo, utilIndexPodMetrics, LastWith, Filter, Each, Map

\* So is what the graph resolves.
LEMMA SameResolved ==
  ASSUME NEW in, NEW j, SamePicture(in, j)
  PROVE  \A r : resolvedByGraph(in, r) <=> resolvedByGraph(j, r)
  BY SameReadings DEF resolvedByGraph

\* Use of requested resources reads no prices.
LEMMA UsageAlike ==
  ASSUME NEW in, NEW j, SamePicture(in, j)
  PROVE  podRequestUsage(in) = podRequestUsage(j)
  <1> DEFINE sampled(i) == Filter(Filter(LivePods(i), Asks), LAMBDA p : utilIndexPodMetrics(i, p) # <<>>)
      Used(i, p, x) == SumOf(utilIndexPodMetrics(i, p)[1].raw["containers"], LAMBDA c : c[x])
      Asked(p, x) == utilPodRequests(p)[x]
      IdleCPU(i, p) == Asked(p, "cpu") >= 100 /\ 10 * Used(i, p, "cpu") <= Asked(p, "cpu")
      IdleMemory(i, p) == Asked(p, "memory") >= 512 /\ 4 * Used(i, p, "memory") <= Asked(p, "memory")
      Headroom(i, p) == IF IdleCPU(i, p) THEN Asked(p, "cpu") - Used(i, p, "cpu") ELSE 0
      cands(i) == Filter(sampled(i), LAMBDA p : IdleCPU(i, p) \/ IdleMemory(i, p))
      sum(i) == SumOf(cands(i), LAMBDA p : Headroom(i, p))
      rows(i) == {AssetRow(p, Headroom(i, p)) : p \in ToSet(cands(i))}
  <1>1. LivePods(in) = LivePods(j) /\ \A p : utilIndexPodMetrics(in, p) = utilIndexPodMetrics(j, p)
    BY SameReadings
  <1>2. sampled(in) = sampled(j) BY <1>1 DEF Filter
  <1>3. \A p, x : Used(in, p, x) = Used(j, p, x) BY <1>1
  <1>4. \A i : podRequestUsage(i) = IF cands(i) = <<>> THEN <<>>
     ELSE << Finding("utilization.pod-requests-vs-usage", "notable", Len(cands(i)),
                     <<Len(sampled(i)), sum(i)>>, rows(i),
                     IF Len(sampled(i)) < Len(Filter(LivePods(i), Asks)) THEN {"unsampled"} ELSE {}) >>
     BY DEF podRequestUsage
  <1> HIDE DEF Used, sampled
  <1>5. \A p : /\ IdleCPU(in, p) <=> IdleCPU(j, p)
               /\ IdleMemory(in, p) <=> IdleMemory(j, p)
               /\ Headroom(in, p) = Headroom(j, p)
    BY <1>3
  <1> HIDE DEF IdleCPU, IdleMemory, Headroom
  <1>6. cands(in) = cands(j) BY <1>2, <1>5 DEF Filter
  <1> HIDE DEF cands
  <1>7. sum(in) = sum(j) BY <1>5, <1>6 DEF SumOf, Map
  <1>8. rows(in) = rows(j) BY <1>5, <1>6
  <1> HIDE DEF sum, rows
  <1> QED BY <1>1, <1>2, <1>4, <1>6, <1>7, <1>8

\* Nor do overlapping ranges.
LEMMA OverlapsAlike ==
  ASSUME NEW in, NEW j, SamePicture(in, j)
  PROVE  overlappingCIDRs(in) = overlappingCIDRs(j)
  <1>1. declaredRanges(in) = declaredRanges(j) /\ \A r : peeringCollisions(in, r) = peeringCollisions(j, r)
    BY SameReadings DEF peeringCollisions, Filter
  <1> DEFINE ranges == declaredRanges(in)
  <1>2. ranges = declaredRanges(j) /\ peeringCollisions(in, ranges) = peeringCollisions(j, ranges) BY <1>1
  <1> DEFINE col == peeringCollisions(in, ranges)
  <1>3. col = peeringCollisions(j, ranges) BY <1>2
  <1> HIDE DEF ranges, col
  <1> QED BY <1>2, <1>3 DEF overlappingCIDRs, ranges, col

\* Nor do names that lead nowhere.
LEMMA DanglingAlike ==
  ASSUME NEW in, NEW j, SamePicture(in, j)
  PROVE  danglingDNS(in) = danglingDNS(j)
  <1> DEFINE records(i) == OfTypes(i, {"cloudflare.dns_record"})
      held(i) == UNION {heldAddresses(a) : a \in ToSet(i.assets)}
      Address(r) == AddressOf[Tag(r, "content")]
      Target(r) == normalizeHost(Tag(r, "content"))
      Points(i, r) ==
        /\ Tag(r, "content") # "" /\ ~resolvedByGraph(i, r)
        /\ \/ /\ Tag(r, "type") \in {"A", "AAAA"} /\ Tag(r, "content") \in DOMAIN AddressOf
              /\ Address(r) \notin held(i)
           \/ /\ Tag(r, "type") = "CNAME" /\ Target(r) \notin ownedHostnames(i)
              /\ ~coveredByWildcard(wildcardHostnames(records(i)), Target(r))
      Scope(i, r) == IF Tag(r, "type") = "CNAME"
                  THEN Map(zoneOf(collectedZones(i), Target(r)), LAMBDA z : {})
                  ELSE Map(containingRange(declaredRanges(i), Address(r)), LAMBDA x : {nodeKey(x.asset)})
      nowhere(i) == Filter(records(i), LAMBDA r : Points(i, r))
      suspects(i) == Filter(nowhere(i), LAMBDA r : Scope(i, r) # <<>>)
      rows(i) == {Row(nodeKey(r), Scope(i, r)[1] \cup Keys(AssetByID(i, Tag(r, "zone_id"))), 0)
                        : r \in ToSet(suspects(i))}
  <1>1. \A i : danglingDNS(i) =
          IF suspects(i) = <<>> THEN <<>>
          ELSE << Finding("network.dangling-dns", "warn", Len(suspects(i)),
                     <<Len(nowhere(i)) - Len(suspects(i))>>, rows(i),
                     (IF Len(nowhere(i)) > Len(suspects(i)) THEN {"out of scope"} ELSE {})
                       \cup (IF RawAvailable(i) THEN {} ELSE {"no raw"})) >>
    BY DEF danglingDNS
  <1>2. /\ records(in) = records(j) /\ declaredRanges(in) = declaredRanges(j)
        /\ RawAvailable(in) = RawAvailable(j)
        /\ collectedZones(in) = collectedZones(j) /\ ownedHostnames(in) = ownedHostnames(j)
        /\ (\A r : resolvedByGraph(in, r) <=> resolvedByGraph(j, r))
        /\ \A id : AssetByID(in, id) = AssetByID(j, id)
    BY SameReadings, SameResolved
  <1>3. held(in) = held(j) BY DEF SamePicture
  <1> HIDE DEF records, held, Address, Target
  <1>4. \A r : Points(in, r) <=> Points(j, r) BY <1>2, <1>3
  <1>5. \A r : Scope(in, r) = Scope(j, r) BY <1>2
  <1> HIDE DEF Points, Scope
  <1>6. nowhere(in) = nowhere(j) BY <1>2, <1>4 DEF Filter
  <1> HIDE DEF nowhere
  <1>7. suspects(in) = suspects(j) BY <1>5, <1>6 DEF Filter
  <1> HIDE DEF suspects
  <1>8. rows(in) = rows(j) BY <1>2, <1>5, <1>7
  <1> HIDE DEF rows
  <1> QED BY <1>1, <1>2, <1>6, <1>7, <1>8

\* Nor do the other network insights.
LEMMA NetworkAlike ==
  ASSUME NEW in, NEW j, SamePicture(in, j)
  PROVE  /\ publicAddresses(in) = publicAddresses(j)
         /\ privateAddresses(in) = privateAddresses(j)
         /\ networkGateways(in) = networkGateways(j)
         /\ ingressPoints(in) = ingressPoints(j)
         /\ danglingDNS(in) = danglingDNS(j)
         /\ overlappingCIDRs(in) = overlappingCIDRs(j)
  <1>1. publicAddresses(in) = publicAddresses(j)
    BY DEF SamePicture, publicAddresses, AllHeld, Holders, downstreamOf, EdgesFrom, Filter, SumOf, Map
  <1>2. privateAddresses(in) = privateAddresses(j)
    BY DEF SamePicture, privateAddresses, AllHeld, Holders, declaredRanges, Filter, SumOf, Map, Each
  <1>3. networkGateways(in) = networkGateways(j)
    BY DEF SamePicture, networkGateways, unusedEgressGateways, OfTypes, networkIDs, Filter
  <1>4. ingressPoints(in) = ingressPoints(j)
    BY DEF SamePicture, ingressPoints, downstreamOf, EdgesFrom, EdgesTo, namesPointingAt, Filter
  <1>5. danglingDNS(in) = danglingDNS(j) BY DanglingAlike
  <1>6. overlappingCIDRs(in) = overlappingCIDRs(j) BY OverlapsAlike
  <1> QED BY <1>1, <1>2, <1>3, <1>4, <1>5, <1>6

\* Nor do the hygiene insights.
LEMMA HygieneAlike ==
  ASSUME NEW in, NEW j, SamePicture(in, j)
  PROVE  /\ ownership(in) = ownership(j)
         /\ recentlyCreated(in) = recentlyCreated(j)
         /\ ageing(in) = ageing(j)
         /\ expiry(in) = expiry(j)
         /\ namespacePolicy(in) = namespacePolicy(j)
         /\ singleReplica(in) = singleReplica(j)
  <1>1. ownership(in) = ownership(j) BY DEF SamePicture, ownership, SumOf, Map, Filter
  <1>2. recentlyCreated(in) = recentlyCreated(j)
    BY DEF SamePicture, recentlyCreated, hygieneAges, AgeFinding, Age, Dated, hygieneDateCoverage, Filter
  <1>3. ageing(in) = ageing(j)
    BY DEF SamePicture, ageing, hygieneAges, AgeFinding, Age, Dated, hygieneDateCoverage, Filter
  <1>4. expiry(in) = expiry(j) BY DEF SamePicture, expiry, Filter
  <1>5. namespacePolicy(in) = namespacePolicy(j)
    BY DEF SamePicture, namespacePolicy, LivePods, OfTypes, Filter
  <1>6. singleReplica(in) = singleReplica(j) BY DEF SamePicture, singleReplica, OfTypes, Filter
  <1> QED BY <1>1, <1>2, <1>3, <1>4, <1>5, <1>6

\* Nor do the utilization insights.
LEMMA UtilizationAlike ==
  ASSUME NEW in, NEW j, SamePicture(in, j)
  PROVE  /\ podRequestUsage(in) = podRequestUsage(j)
         /\ nodeHeadroom(in) = nodeHeadroom(j)
         /\ unrequestedWorkload(in) = unrequestedWorkload(j)
         /\ unmeasurable(in) = unmeasurable(j)
  <1>1. podRequestUsage(in) = podRequestUsage(j) BY UsageAlike
  <1>2. nodeHeadroom(in) = nodeHeadroom(j)
    BY SMTT(30) DEF SamePicture, nodeHeadroom, LivePods, OfTypes, SumOf, Map, Filter
  <1>3. unrequestedWorkload(in) = unrequestedWorkload(j)
    BY DEF SamePicture, unrequestedWorkload, LivePods, Filter
  <1>4. unmeasurable(in) = unmeasurable(j)
    BY DEF SamePicture, unmeasurable, SumOf, Map, OfTypes, Filter
  <1> QED BY <1>1, <1>2, <1>3, <1>4

\* An insight that is not about money finds the same with and without prices.
LEMMA PricesAside ==
  ASSUME NEW in, NEW j, SamePicture(in, j), NEW id \in Ids \ CostIds
  PROVE  Findings(id, in) = Findings(id, j)
  <1>1. id \in NetworkIds \cup HygieneIds \cup UtilizationIds BY DEF Ids
  <1> QED BY <1>1, NetworkAlike, HygieneAlike, UtilizationAlike
          DEF Findings, NetworkIds, HygieneIds, UtilizationIds

-----------------------------------------------------------------------------
(* What is read without payloads.                                          *)

\* What there is, with its payloads: the assets of the started providers.
LEMMA WholeElements ==
  ASSUME estate \in Estates, started \subseteq DOMAIN estate
  PROVE  LET V == UNION {ToSet(estate[p]) : p \in started}
         IN WholeOfStarted \in Seq(V) /\ ToSet(WholeOfStarted) = V
  <1> DEFINE q == SetToSeq(started)
             V == UNION {ToSet(estate[p]) : p \in started}
             ss == [i \in DOMAIN q |-> estate[q[i]]]
  <1>1. IsFiniteSet(started) BY EstatesAreCollected, FS_Subset
  <1>2. /\ q \in Seq(started)
        /\ \A x \in started : \E i \in 1..Len(q) : q[i] = x
    BY <1>1, SetToSeqLists
  <1>3. WholeOfStarted = FlattenSeq(ss) BY DEF WholeOfStarted, Inventory, Each, Map
  <1>4. \A p \in started : estate[p] \in Seq(V)
    <2> TAKE p \in started
    <2>1. estate[p] \in Seq(ToSet(estate[p])) /\ ToSet(estate[p]) \subseteq V BY EstateShape
    <2> HIDE DEF V
    <2> QED BY <2>1
  <1> HIDE DEF q
  <1>5. DOMAIN q = 1..Len(q) /\ Len(q) \in Nat /\ \A i \in 1..Len(q) : q[i] \in started BY <1>2
  <1>6. ss \in Seq(Seq(V)) /\ Len(ss) = Len(q) /\ \A i \in 1..Len(q) : ss[i] = estate[q[i]]
    <2> HIDE DEF V
    <2> QED BY <1>4, <1>5
  <1>7. FlattenSeq(ss) \in Seq(V) /\ ToSet(FlattenSeq(ss)) = UNION {ToSet(ss[i]) : i \in 1..Len(ss)}
    <2> HIDE DEF V, ss
    <2> QED BY <1>6, FlattenElements
  <1>8. UNION {ToSet(ss[i]) : i \in 1..Len(ss)} = V
    <2> HIDE DEF ss, ToSet
    <2>1. \A i \in 1..Len(ss) : q[i] \in started /\ ss[i] = estate[q[i]] BY <1>5, <1>6
    <2>2. \A p \in started : \E i \in 1..Len(ss) : ss[i] = estate[p] BY <1>2, <1>6
    <2> QED BY <2>1, <2>2
  <1> QED BY <1>3, <1>7, <1>8

\* Each of these assets is in everything, its payload aside.
LEMMA EverythingElements ==
  ASSUME estate \in Estates, started \subseteq DOMAIN estate, NEW a \in ToSet(WholeOfStarted)
  PROVE  IsAsset(a) /\ AsCollected(a) \in ToSet(Everything)
  <1>1. PICK p \in started : a \in ToSet(estate[p]) BY WholeElements
  <1>2. IsAsset(a) /\ a.provider = p BY <1>1, EstatesAreCollected
  <1> DEFINE s == estate[p]
             d == Delivered(p, Len(s))
  <1>3. s \in Seq(ToSet(s)) /\ Len(s) \in Nat BY EstateShape
  <1>4. Len(d) = Len(s) /\ d \in Seq(Collectable) /\ \A i \in 1..Len(s) : d[i] = AsCollected(s[i])
    BY <1>3, DeliveredShape
  <1>5. Everything \in Seq(Collectable) /\ Keep(Everything, Of(p)) = d BY EverythingOf
  <1>6. ToSet(d) = ToSet(Everything) \cap Of(p) BY <1>5, KeepElements
  <1> HIDE DEF d, s
  <1>7. PICK i \in 1..Len(s) : a = s[i] BY <1>1, <1>3 DEF ToSet, s
  <1>8. AsCollected(a) \in ToSet(d) BY <1>4, <1>7 DEF ToSet
  <1> QED BY <1>2, <1>6, <1>8

\* With payloads, everything is what there is.
LEMMA PayloadsKept ==
  ASSUME estate \in Estates, started \subseteq DOMAIN estate, payload = TRUE
  PROVE  Everything = WholeOfStarted
  <1> DEFINE q == SetToSeq(started)
             D == [i \in DOMAIN q |-> Map(estate[q[i]], AsCollected)]
             E == [i \in DOMAIN q |-> estate[q[i]]]
  <1>1. IsFiniteSet(started) BY EstatesAreCollected, FS_Subset
  <1>2. \A i \in DOMAIN q : q[i] \in started
    <2>1. q \in Seq(started) BY <1>1, SetToSeqLists
    <2> HIDE DEF q
    <2> QED BY <2>1
  <1>3. ASSUME NEW p \in started PROVE Map(estate[p], AsCollected) = estate[p]
    <2> DEFINE s == estate[p]
    <2>1. s \in Seq(ToSet(s)) BY EstateShape
    <2> HIDE DEF s
    <2>2. s = [i \in DOMAIN s |-> s[i]] BY <2>1
    <2>3. \A x : AsCollected(x) = x BY DEF AsCollected
    <2>4. Map(s, AsCollected) = s BY <2>2, <2>3 DEF Map
    <2> QED BY <2>4 DEF s
  <1> HIDE DEF q
  <1>4. D = E BY <1>2, <1>3
  <1>5. Everything = FlattenSeq(D) /\ WholeOfStarted = FlattenSeq(E)
    BY DEF Everything, WholeOfStarted, Inventory, Each, Map, q
  <1> QED BY <1>4, <1>5

\* What is read of everything is what there is, or no asset of it has a payload.
LEMMA PictureOrNoPayload ==
  ASSUME estate \in Estates, started \subseteq DOMAIN estate, payload \in BOOLEAN, NEW filter
  PROVE  LET s == SortedAssets(Slice(filter, Everything))
         IN \/ s = SortedAssets(Slice(filter, WholeOfStarted))
            \/ s # <<>> /\ \A a \in ToSet(s) : ~HasRaw(a)
  <1> DEFINE s == SortedAssets(Slice(filter, Everything))
             w == SortedAssets(Slice(filter, WholeOfStarted))
             V == UNION {ToSet(estate[p]) : p \in started}
  <1>1. CASE payload = TRUE BY <1>1, PayloadsKept
  <1>2. CASE payload = FALSE
    <2>1. Everything \in Seq(Collectable) BY EverythingOf
    <2>2. WholeOfStarted \in Seq(V) BY WholeElements
    <2>3. s \in Seq(Collectable)
          /\ ToSet(s) = {a \in ToSet(Everything) : Match(filter, a) /\ nodeKey(a) \in ToSet(InputOrder)}
      BY <2>1, PictureElements
    <2> HIDE DEF V
    <2>4. w \in Seq(V)
          /\ ToSet(w) = {a \in ToSet(WholeOfStarted) : Match(filter, a) /\ nodeKey(a) \in ToSet(InputOrder)}
      BY <2>2, PictureElements
    <2> HIDE DEF s, w
    <2>5. ASSUME NEW a \in ToSet(s) PROVE ~HasRaw(a)
      <3>1. a \in Collectable BY <2>3 DEF ToSet
      <3>2. PICK r \in DOMAIN estate : \E x \in ToSet(estate[r]) : a = AsCollected(x)
        BY <3>1 DEF Collectable
      <3>3. PICK x \in ToSet(estate[r]) : a = AsCollected(x) BY <3>2
      <3>4. IsAsset(x) BY <3>2, EstatesAreCollected
      <3>5. a.raw = NoRaw BY <3>3, <3>4, <1>2 DEF AsCollected, IsAsset
      <3>6. DOMAIN NoRaw = {} BY DEF NoRaw
      <3> QED BY <3>5, <3>6 DEF HasRaw
    <2>6. ASSUME NEW a \in ToSet(w) PROVE AsCollected(a) \in ToSet(s)
      <3>1. a \in ToSet(WholeOfStarted) /\ Match(filter, a) /\ nodeKey(a) \in ToSet(InputOrder) BY <2>4
      <3>2. IsAsset(a) /\ AsCollected(a) \in ToSet(Everything) BY <3>1, EverythingElements
      <3> DEFINE c == AsCollected(a)
      <3>3. /\ c.provider = a.provider /\ c.account = a.account /\ c.region = a.region
            /\ c.type = a.type /\ c.id = a.id /\ c.name = a.name /\ c.status = a.status
            /\ c.tags = a.tags
        BY <3>2, Fields
      <3> HIDE DEF c
      <3>4. nodeKey(c) = nodeKey(a) BY <3>3 DEF nodeKey, refKey, AsRef
      <3>5. Match(filter, c)
        <4> SUFFICES ASSUME NEW clause \in filter PROVE match(clause, c) BY DEF Match
        <4>1. match(clause, a) BY <3>1 DEF Match
        <4>2. Tag(c, clause.key) = Tag(a, clause.key) /\ Field(c, clause.key) = Field(a, clause.key)
          BY <3>3 DEF Tag, Field
        <4> QED BY <4>1, <4>2 DEF match
      <3> QED BY <2>3, <3>1, <3>2, <3>4, <3>5 DEF c
    <2>7. CASE s = <<>>
      <3>1. ToSet(s) = {} BY <2>7 DEF ToSet
      <3>2. \A a : a \notin ToSet(w) BY <2>6, <3>1
      <3>3. w = <<>>
        <4>1. \A i \in 1..Len(w) : w[i] \in ToSet(w) BY <2>4 DEF ToSet
        <4> QED BY <4>1, <3>2, <2>4
      <3> QED BY <2>7, <3>3 DEF s, w
    <2> QED BY <2>5, <2>7 DEF s
  <1> QED BY <1>1, <1>2

-----------------------------------------------------------------------------
(* Silence.                                                                *)

\* A report whose notes miss neither payloads nor edges.
Quiet(report) == {"no raw", "no edges"} \cap report.notes = {}

\* What an insight needs is there, or it is about money and there are no prices.
LEMMA SameNeeds ==
  ASSUME NEW in, NEW j, SamePicture(in, j), NEW i, i.id \in Ids, unmet(i, j) = "", ~Priced(in)
  PROVE  IF i.id \in CostIds THEN unmet(i, in) # "" ELSE unmet(i, in) = ""
  <1> DEFINE needs == Requires(i.id)
  <1>1. i.id \in CostIds => needs.cost BY DEF Requires, CostIds, NeedsCost, NeedsNothing
  <1>2. i.id \notin CostIds => ~needs.cost
    BY DEF Requires, Ids, NetworkIds, HygieneIds, UtilizationIds, NeedsCost, NeedsNothing,
           NeedsTypes, NeedsPayload
  <1>3. RawAvailable(in) = RawAvailable(j) /\ in.edges = j.edges
        /\ \A types : OfTypes(in, types) = OfTypes(j, types)
    BY SameReadings DEF SamePicture
  <1> HIDE DEF needs
  <1>4. /\ ~(needs.raw /\ ~RawAvailable(j)) /\ ~(needs.topology /\ j.edges = <<>>)
        /\ ~(needs.types # {} /\ OfTypes(j, needs.types) = <<>>)
    BY DEF unmet, needs
  <1>5. CASE i.id \in CostIds BY <1>1, <1>5 DEF unmet, needs
  <1>6. CASE i.id \notin CostIds BY <1>2, <1>3, <1>4, <1>6 DEF unmet, needs
  <1> QED BY <1>5, <1>6

\* An insight that would find something in j is in the report of a complete run over
\* the same picture: it was skipped, or something was hidden or suppressed.
LEMMA RunAccounts ==
  ASSUME NEW in, NEW j, SamePicture(in, j), in = j \/ ~Priced(in),
         NEW only, NEW min, NEW budget \in Nat, Run(in, only, min, budget).complete,
         NEW own \in ToSet(Chosen(only)), Runs(own, j),
         NEW f \in ToSet(Findings(own.id, j)),
         \A g \in ToSet(Run(in, only, min, budget).findings) : g.id # f.id
  PROVE  LET report == Run(in, only, min, budget)
         IN (\E s \in report.skipped : s.insight = own.id) \/ report.hidden + report.suppressed > 0
  <1> DEFINE chosen == Chosen(only)
             made == FindingsOf(in, chosen)
             whole == TRUE
             report == Run(in, only, min, budget)
  <1>1. report = ReportOf(in, chosen, made, min, whole) BY RunIs
  <1>2. chosen \in Seq(Insights) BY ChosenIs
  <1> HIDE DEF chosen
  <1>3. own.id \in Ids
    <2>1. own \in Insights BY <1>2 DEF ToSet, chosen
    <2> QED BY <2>1 DEF Insights
  <1>4. IsList(made) BY <1>2, FindingsListed
  <1> HIDE DEF made, whole, report
  <1>5. report.skipped = {[insight |-> x.id, reason |-> unmet(x, in)]
                            : x \in {y \in ToSet(chosen) : ~Runs(y, in)}}
    BY <1>1 DEF ReportOf, Runs
  <1>6. CASE ~Runs(own, in)
    <2>1. [insight |-> own.id, reason |-> unmet(own, in)] \in report.skipped BY <1>5, <1>6 DEF chosen
    <2> QED BY <2>1 DEF report
  <1>7. CASE Runs(own, in)
    <2>1. Findings(own.id, in) = Findings(own.id, j)
      <3>1. CASE in = j BY <3>1
      <3>2. CASE ~Priced(in)
        <4>1. own.id \notin CostIds BY <1>3, <1>7, <3>2, SameNeeds DEF Runs
        <4> QED BY <4>1, <1>3, PricesAside
      <3> QED BY <3>1, <3>2
    <2>2. ToSet(Findings(own.id, in)) \subseteq ToSet(made) BY <1>2, <1>7, FindingsMade DEF chosen, made
    <2>3. f \in ToSet(made) BY <2>1, <2>2
    <2>4. f \notin ToSet(report.findings) BY DEF report
    <2>5. f \notin ToSet(ReportOf(in, chosen, made, min, whole).findings) BY <1>1, <2>4
    <2>6. report.hidden + report.suppressed > 0 BY <1>1, <1>4, <2>3, <2>5, ReportCounts
    <2> QED BY <2>6 DEF report
  <1> QED BY <1>6, <1>7

\* An outcome other than ErrPartial is that of a complete collection (ReportOutcome).
LEMMA NotPartial ==
  ASSUME NEW gate, NEW tripped, ReportOutcome(gate, tripped) # "ErrPartial"
  PROVE  failed = {}
  BY DEF ReportOutcome

\* An insight that would say something of what there is and says nothing has its reason in the report.
LEMMA SilenceAccounted ==
  ASSUME CollectInv, ended = started, NEW req \in Requests, req.command = "insights",
         insightsAnswer(req).kind = "insights", insightsAnswer(req).outcome # "ErrPartial",
         insightsAnswer(req).report.complete,
         Quiet(insightsAnswer(req).report),
         NEW own \in ToSet(Chosen(req.only)),
         Runs(own, NewInput(Slice(req.filter, WholeOfStarted), <<BookOf(req)>>, Today)),
         NEW f \in ToSet(Findings(own.id, NewInput(Slice(req.filter, WholeOfStarted), <<BookOf(req)>>, Today))),
         \A g \in ToSet(insightsAnswer(req).report.findings) : g.id # f.id
  PROVE  LET report == insightsAnswer(req).report
         IN (\E s \in report.skipped : s.insight = own.id) \/ report.hidden + report.suppressed > 0
  <1> DEFINE books == IF req.cost THEN <<BookOf(req)>> ELSE <<>>
             in == NewInput(Slice(req.filter, collected), books, Today)
             full == NewInput(Slice(req.filter, WholeOfStarted), <<BookOf(req)>>, Today)
             report == Run(in, req.only, req.severity, req.budget)
             tripped == req.exitCode /\ report.findings # <<>> /\ MaxSeverity(report) >= req.failOn
  <1>1. insightsAnswer(req) = [kind |-> "insights", request |-> req, report |-> report,
                               outcome |-> ReportOutcome("ErrInsights", tripped)]
    BY DEF insightsAnswer, insightsPriced, insightsReported, Refused
  <1> HIDE DEF report, tripped
  <1>2. insightsAnswer(req).report = report /\ ReportOutcome("ErrInsights", tripped) # "ErrPartial"
    BY <1>1
  <1>3. failed = {} BY <1>2, NotPartial
  <1>4. in = NewInput(Slice(req.filter, Everything), books, Today)
    <2> HIDE DEF books
    <2> QED BY <1>3, SameInput
  <1> DEFINE s == SortedAssets(Slice(req.filter, Everything))
  <1>5. estate \in Estates /\ started \subseteq DOMAIN estate /\ payload \in BOOLEAN
    BY DEF CollectInv
  <1>6. \/ s = SortedAssets(Slice(req.filter, WholeOfStarted))
        \/ s # <<>> /\ \A a \in ToSet(s) : ~HasRaw(a)
    BY <1>5, PictureOrNoPayload
  <1>7. in.assets = s /\ in.book = books /\ in.edges = Build(s).edges /\ in.now = Today
    BY <1>4 DEF NewInput
  <1>8. full.assets = SortedAssets(Slice(req.filter, WholeOfStarted)) /\ full.book = <<BookOf(req)>>
        /\ full.edges = Build(SortedAssets(Slice(req.filter, WholeOfStarted))).edges /\ full.now = Today
    BY DEF NewInput
  <1>9. s = SortedAssets(Slice(req.filter, WholeOfStarted))
    <2> SUFFICES ASSUME s # <<>>, \A a \in ToSet(s) : ~HasRaw(a) PROVE FALSE BY <1>6
    <2>1. in.assets # <<>> /\ ~RawAvailable(in) BY <1>7 DEF RawAvailable
    <2> HIDE DEF in, s, full
    <2>2. "no raw" \in report.notes
      <3>1. \A tried, made, min, complete : "no raw" \in ReportOf(in, tried, made, min, complete).notes
        BY <2>1 DEF ReportOf, scopeNotes
      <3> QED BY <3>1 DEF report, Run
    <2> QED BY <2>2, <1>2 DEF Quiet
  <1>10. SamePicture(in, full) BY <1>7, <1>8, <1>9 DEF SamePicture
  <1>11. in = full \/ ~Priced(in)
    <2>1. CASE req.cost
      <3> DEFINE b == <<BookOf(req)>>
      <3>1. books = b BY <2>1
      <3> HIDE DEF b
      <3>2. NewInput(Slice(req.filter, Everything), b, Today) = NewInput(Slice(req.filter, WholeOfStarted), b, Today)
        BY <1>9 DEF NewInput
      <3> HIDE DEF books
      <3>3. in = NewInput(Slice(req.filter, Everything), b, Today) BY <1>4, <3>1
      <3> QED BY <3>2, <3>3 DEF b
    <2>2. CASE ~req.cost
      <3>1. books = <<>> BY <2>2
      <3> QED BY <3>1, <1>7 DEF Priced
    <2> QED BY <2>1, <2>2
  <1>12. req.budget \in Nat BY RequestsAreParsed
  <1> HIDE DEF in, full
  <1>13. /\ Runs(own, full) /\ f \in ToSet(Findings(own.id, full)) /\ report.complete
         /\ \A g \in ToSet(report.findings) : g.id # f.id
    BY <1>2 DEF full
  <1>14. (\E x \in report.skipped : x.insight = own.id) \/ report.hidden + report.suppressed > 0
    BY <1>10, <1>11, <1>12, <1>13, RunAccounts DEF report
  <1> QED BY <1>2, <1>14

\* The answer to a request keeps the property.
LEMMA SilenceAnswered ==
  ASSUME CollectInv, ended = started, NEW req \in Requests, Ask(req)
  PROVE  SilenceIsAccounted'
  <1>1. /\ answer' = CASE req.command = "insights" -> insightsAnswer(req)
                        [] req.command = "cost" -> costAnswer(req)
                        [] req.command = "check" -> checkAnswer(req)
                        [] OTHER -> diffAnswer(req)
        /\ UNCHANGED <<estate, payload, started, ended, failed, collected>>
    BY DEF Ask
  <1>2. WholeOfStarted' = WholeOfStarted BY <1>1 DEF WholeOfStarted, Inventory, Each, Map
  <1>3. req.command \in {"insights", "cost", "check", "diff"} BY RequestsAreParsed
  <1> SUFFICES ASSUME answer'.kind = "insights", answer'.outcome # "ErrPartial"
               PROVE  SilenceIsAccounted'
    BY DEF SilenceIsAccounted
  <1>4. req.command = "insights" /\ answer' = insightsAnswer(req)
    BY <1>1, <1>3, Kinds
  <1>5. answer'.request = req BY <1>4 DEF insightsAnswer, insightsPriced, insightsReported, Refused
  <1> DEFINE report == answer'.report
             full == NewInput(Slice(req.filter, WholeOfStarted), <<BookOf(req)>>, Today)
             said == {f.id : f \in ToSet(report.findings)}
             found(own) == {f.id : f \in ToSet(Findings(own.id, full))}
  <1>6. ASSUME NEW own \in ToSet(Chosen(req.only)), Runs(own, full),
               found(own) # {}, found(own) \cap said = {}
        PROVE  \/ \E s \in report.skipped : s.insight = own.id
               \/ ~report.complete \/ report.hidden + report.suppressed > 0
               \/ {"no raw", "no edges"} \cap report.notes # {}
    <2> SUFFICES ASSUME report.complete, Quiet(report)
                 PROVE  \/ \E s \in report.skipped : s.insight = own.id
                        \/ report.hidden + report.suppressed > 0
      BY DEF Quiet
    <2>1. PICK f \in ToSet(Findings(own.id, full)) : TRUE BY <1>6
    <2>2. \A g \in ToSet(report.findings) : g.id # f.id BY <1>6
    <2> QED BY <1>4, <1>6, <2>2, SilenceAccounted
  <1>7. answer'.kind = "insights" /\ answer'.request = req /\ WholeOfStarted' = WholeOfStarted BY <1>2, <1>5
  <1> QED BY <1>6, <1>7 DEF SilenceIsAccounted, Runs, Quiet

\* It holds until the estate changes.
LEMMA SilenceStays ==
  ASSUME SilenceIsAccounted, UNCHANGED <<estate, payload, started, answer>>
  PROVE  SilenceIsAccounted'
  <1>1. WholeOfStarted' = WholeOfStarted BY DEF WholeOfStarted, Inventory, Each, Map
  <1> QED BY <1>1 DEF SilenceIsAccounted

\* Among the providers that started, nothing found and never looked do not look alike: an
\* insight that would say something of all they have and says nothing has its reason in the
\* report (unmet, scopeNotes, Run).
THEOREM EverySilenceIsAccounted == Spec => []SilenceIsAccounted
  <1>1. Init => CollectInv /\ SilenceIsAccounted
    BY CollectStarts DEF Init, NoAnswer, SilenceIsAccounted
  <1>2. CollectInv /\ SilenceIsAccounted /\ [Next]_vars => (CollectInv /\ SilenceIsAccounted)'
    <2> SUFFICES ASSUME CollectInv, SilenceIsAccounted, [Next]_vars PROVE SilenceIsAccounted'
      BY CollectSteps
    <2>1. ASSUME NEW p \in DOMAIN estate, NEW fails \in BOOLEAN, NEW n \in 0..Len(estate[p]),
                 Collect(p, n, fails)
          PROVE  SilenceIsAccounted'
      <3>1. answer'.kind = "none" BY <2>1 DEF Collect, NoAnswer
      <3> QED BY <3>1 DEF SilenceIsAccounted
    <2>2. ASSUME NEW req \in Requests, Ask(req) PROVE SilenceIsAccounted'
      <3>1. ended = started BY <2>2 DEF Ask
      <3> QED BY <3>1, <2>2, SilenceAnswered
    <2>3. CASE UNCHANGED vars BY <2>3, SilenceStays DEF vars
    <2> QED BY <2>1, <2>2, <2>3 DEF Next
  <1> QED BY <1>1, <1>2, PTL DEF Spec

-----------------------------------------------------------------------------
(* Names that lead nowhere.                                                *)

Dangling == "network.dangling-dns"

\* No element of s is a finding about such names.
Elsewhere(s) == \A f \in ToSet(s) : f.id # Dangling

\* Nothing found, a finding of another name, and two such lists.
LEMMA ElsewhereLists ==
  /\ Elsewhere(<<>>)
  /\ \A id, severity, count, facts, rows, caveats : id # Dangling =>
       /\ Elsewhere(<<Finding(id, severity, count, facts, rows, caveats)>>)
       /\ \A bag : Elsewhere(<<Totalled(Finding(id, severity, count, facts, rows, caveats), bag)>>)
  /\ \A s, t : IsList(s) /\ IsList(t) /\ Elsewhere(s) /\ Elsewhere(t) => Elsewhere(s \o t)
  <1>1. ToSet(<<>>) = {} BY DEF ToSet
  <1>2. \A x : ToSet(<<x>>) = {x} BY DEF ToSet
  <1>3. ASSUME NEW id, NEW severity, NEW count, NEW facts, NEW rows, NEW caveats
        PROVE  LET f == Finding(id, severity, count, facts, rows, caveats)
               IN f.id = id /\ \A bag : Totalled(f, bag).id = id
    BY DEF Finding, Totalled
  <1>4. ASSUME NEW s, NEW t, IsList(s), IsList(t), Elsewhere(s), Elsewhere(t)
        PROVE  Elsewhere(s \o t)
    <2> DEFINE V == ToSet(s) \cup ToSet(t)
    <2>1. s \in Seq(V) /\ t \in Seq(V) BY <1>4 DEF IsList
    <2> HIDE DEF V
    <2>2. ToSet(s \o t) = ToSet(s) \cup ToSet(t) BY <2>1, ConcatElements
    <2> QED BY <1>4, <2>2 DEF Elsewhere
  <1>5. Elsewhere(<<>>) BY <1>1 DEF Elsewhere
  <1>6. ASSUME NEW id, NEW severity, NEW count, NEW facts, NEW rows, NEW caveats, id # Dangling
        PROVE  /\ Elsewhere(<<Finding(id, severity, count, facts, rows, caveats)>>)
               /\ \A bag : Elsewhere(<<Totalled(Finding(id, severity, count, facts, rows, caveats), bag)>>)
    BY <1>2, <1>3, <1>6 DEF Elsewhere
  <1> QED BY <1>4, <1>5, <1>6

\* The other network insights.
LEMMA NetworkElsewhere ==
  ASSUME NEW in
  PROVE  /\ Elsewhere(publicAddresses(in))
         /\ Elsewhere(privateAddresses(in))
         /\ Elsewhere(networkGateways(in))
         /\ Elsewhere(ingressPoints(in))
         /\ Elsewhere(overlappingCIDRs(in))
  <1>1. Elsewhere(publicAddresses(in)) BY ElsewhereLists DEF publicAddresses, Dangling
  <1>2. Elsewhere(privateAddresses(in)) BY ElsewhereLists DEF privateAddresses, Dangling
  <1>3. Elsewhere(networkGateways(in))
    <2>1. Elsewhere(unusedEgressGateways(in, OfTypes(in, gatewayTypes)))
      BY ElsewhereLists DEF unusedEgressGateways, Dangling
    <2> QED BY <2>1, UnusedList, OneElement, ElsewhereLists DEF networkGateways, Dangling
  <1>4. Elsewhere(ingressPoints(in)) BY ElsewhereLists DEF ingressPoints, Dangling
  <1>5. Elsewhere(overlappingCIDRs(in)) BY ElsewhereLists DEF overlappingCIDRs, Dangling
  <1> QED BY <1>1, <1>2, <1>3, <1>4, <1>5

\* The hygiene insights.
LEMMA HygieneElsewhere ==
  ASSUME NEW in
  PROVE  /\ Elsewhere(ownership(in))
         /\ Elsewhere(recentlyCreated(in))
         /\ Elsewhere(ageing(in))
         /\ Elsewhere(expiry(in))
         /\ Elsewhere(namespacePolicy(in))
         /\ Elsewhere(singleReplica(in))
  <1>1. Elsewhere(ownership(in)) BY ElsewhereLists DEF ownership, Dangling
  <1>2. Elsewhere(recentlyCreated(in)) BY ElsewhereLists DEF recentlyCreated, AgeFinding, Dangling
  <1>3. Elsewhere(ageing(in)) BY ElsewhereLists DEF ageing, AgeFinding, Dangling
  <1>4. Elsewhere(expiry(in)) BY ElsewhereLists, NoElement, OneElement DEF expiry, Dangling
  <1>5. Elsewhere(namespacePolicy(in)) BY ElsewhereLists DEF namespacePolicy, Dangling
  <1>6. Elsewhere(singleReplica(in)) BY ElsewhereLists DEF singleReplica, Dangling
  <1> QED BY <1>1, <1>2, <1>3, <1>4, <1>5, <1>6

\* The utilization insights.
LEMMA UtilizationElsewhere ==
  ASSUME NEW in
  PROVE  /\ Elsewhere(podRequestUsage(in))
         /\ Elsewhere(nodeHeadroom(in))
         /\ Elsewhere(unrequestedWorkload(in))
         /\ Elsewhere(unmeasurable(in))
  <1>1. Elsewhere(podRequestUsage(in)) BY ElsewhereLists DEF podRequestUsage, Dangling
  <1>2. Elsewhere(nodeHeadroom(in)) BY ElsewhereLists DEF nodeHeadroom, Dangling
  <1>3. Elsewhere(unrequestedWorkload(in)) BY ElsewhereLists DEF unrequestedWorkload, Dangling
  <1>4. Elsewhere(unmeasurable(in)) BY ElsewhereLists DEF unmeasurable, Dangling
  <1> QED BY <1>1, <1>2, <1>3, <1>4

\* The insights about money.
LEMMA CostElsewhere ==
  ASSUME NEW in
  PROVE  /\ Elsewhere(runRate(in))
         /\ Elsewhere(concentration(in))
         /\ Elsewhere(byDimension(in))
         /\ Elsewhere(showback(in))
         /\ Elsewhere(orphanedSpend(in))
         /\ Elsewhere(stoppedBilled(in))
         /\ Elsewhere(unpriced(in))
  <1>1. Elsewhere(runRate(in)) BY ElsewhereLists DEF runRate, Dangling
  <1>2. Elsewhere(concentration(in)) BY ElsewhereLists DEF concentration, Dangling
  <1>3. Elsewhere(byDimension(in))
    BY ElsewhereLists, NoElement, OneElement, BothLists DEF byDimension, Dangling
  <1>4. Elsewhere(showback(in))
    <2>1. ASSUME NEW items, NEW keys PROVE Elsewhere(byTagFinding(items, keys))
      <3>1. \/ byTagFinding(items, keys) = <<>>
            \/ \E count, facts, rows, bag :
                 byTagFinding(items, keys)
                   = <<Totalled(Finding("cost.by-tag", "info", count, facts, rows, {}), bag)>>
        BY ZenonT(30) DEF byTagFinding
      <3>2. "cost.by-tag" # Dangling BY DEF Dangling
      <3> QED BY <3>1, <3>2, ElsewhereLists
    <2>2. \A items, keys : Elsewhere(<<unattributedFinding(items, keys)>>)
      BY ElsewhereLists DEF unattributedFinding, Dangling
    <2> QED BY <2>1, <2>2, ItemLists, OneElement, ElsewhereLists DEF showback, Dangling
  <1>5. \A id, severity, items, caveats : id # Dangling => Elsewhere(ItemsFinding(id, severity, items, caveats))
    BY ElsewhereLists DEF ItemsFinding
  <1>6. Elsewhere(orphanedSpend(in)) BY <1>5 DEF orphanedSpend, Dangling
  <1>7. Elsewhere(stoppedBilled(in)) BY <1>5 DEF stoppedBilled, Dangling
  <1>8. Elsewhere(unpriced(in)) BY ElsewhereLists DEF unpriced, Dangling
  <1> QED BY <1>1, <1>2, <1>3, <1>4, <1>6, <1>7, <1>8

\* A finding about such names is made by the one insight about them.
LEMMA OneInsight ==
  ASSUME NEW in, NEW id \in Ids, NEW f \in ToSet(Findings(id, in)), f.id = Dangling
  PROVE  f \in ToSet(danglingDNS(in))
  <1>1. id = Dangling => Findings(id, in) = danglingDNS(in) BY DEF Findings, Dangling
  <1>2. id # Dangling => Elsewhere(Findings(id, in))
    BY NetworkElsewhere, HygieneElsewhere, UtilizationElsewhere, CostElsewhere
    DEF Findings, Ids, NetworkIds, CostIds, HygieneIds, UtilizationIds, Dangling
  <1> QED BY <1>1, <1>2 DEF Elsewhere

\* What a run made is made by insights that are registered.
LEMMA FindingsFrom ==
  ASSUME NEW in, NEW tried \in Seq(Insights)
  PROVE  \A f \in ToSet(FindingsOf(in, tried)) : \E id \in Ids : f \in ToSet(Findings(id, in))
  <1> DEFINE I == {i \in DOMAIN tried : unmet(tried[i], in) = ""}
             t == At(tried, I)
             ss == [i \in DOMAIN t |-> Findings(t[i].id, in)]
             V == UNION {ToSet(Findings(id, in)) : id \in Ids}
  <1>1. FindingsOf(in, tried) = FlattenSeq(ss) BY DEF FindingsOf, Each, Map, Filter
  <1>2. t \in Seq(Insights)
    <2> HIDE DEF I
    <2> QED BY AtElements
  <1>3. \A id \in Ids : Findings(id, in) \in Seq(V)
    <2> TAKE id \in Ids
    <2>1. Findings(id, in) \in Seq(ToSet(Findings(id, in))) BY FindingsAreLists DEF IsList
    <2>2. ToSet(Findings(id, in)) \subseteq V OBVIOUS
    <2> HIDE DEF V
    <2> QED BY <2>1, <2>2
  <1> HIDE DEF t, V
  <1>4. DOMAIN t = 1..Len(t) /\ Len(t) \in Nat /\ \A i \in 1..Len(t) : t[i].id \in Ids
    <2>1. \A i \in 1..Len(t) : t[i] \in Insights BY <1>2
    <2>2. \A x \in Insights : x.id \in Ids BY DEF Insights
    <2> QED BY <1>2, <2>1, <2>2
  <1>5. ss \in Seq(Seq(V)) BY <1>3, <1>4
  <1> HIDE DEF ss
  <1>6. FlattenSeq(ss) \in Seq(V) BY <1>5, FlattenElements
  <1>7. ToSet(FindingsOf(in, tried)) \subseteq V BY <1>1, <1>6 DEF ToSet
  <1> QED BY <1>7 DEF V

\* What a run reports is made by insights that are registered, however far it came.
LEMMA ReportedFrom ==
  ASSUME NEW in, NEW only, NEW min, NEW budget \in Nat,
         NEW f \in ToSet(Run(in, only, min, budget).findings)
  PROVE  \E id \in Ids : f \in ToSet(Findings(id, in))
  <1> DEFINE chosen == Chosen(only)
             n == Min({budget, Len(chosen)})
             tried == SubSeq(chosen, 1, n)
             whole == Len(tried) = Len(chosen)
             made == FindingsOf(in, tried)
  <1>1. Run(in, only, min, budget) = ReportOf(in, tried, made, min, whole) BY DEF Run
  <1>2. chosen \in Seq(Insights) /\ Len(chosen) \in Nat BY ChosenIs
  <1>3. n \in Nat /\ n <= Len(chosen) BY <1>2, MinOf
  <1> HIDE DEF chosen, n
  <1>4. tried \in Seq(Insights) BY <1>2, <1>3
  <1> HIDE DEF tried
  <1>5. IsList(made) BY <1>4, FindingsListed
  <1>6. ASSUME NEW x \in ToSet(made) PROVE \E id \in Ids : x \in ToSet(Findings(id, in))
    BY <1>4, FindingsFrom
  <1> HIDE DEF made, whole
  <1>7. f \in ToSet(made) BY <1>1, <1>5, ReportShows
  <1> QED BY <1>6, <1>7

\* What holds of the record of a row: nothing in assets answers at the address or owns
\* the name it points at.
Unanswered(rec, assets) ==
  \/ /\ Tag(rec, "type") \in {"A", "AAAA"}
     /\ AddressOf[Tag(rec, "content")] \notin UNION {heldAddresses(a) : a \in assets}
  \/ /\ Tag(rec, "type") = "CNAME"
     /\ normalizeHost(Tag(rec, "content")) \notin UNION {AssetAddresses(a).hosts : a \in assets}

\* What danglingDNS says, of the assets it reads.
LEMMA DanglingReads ==
  ASSUME NEW in, NEW V, in.assets \in Seq(V), NEW f \in ToSet(danglingDNS(in))
  PROVE  /\ "no raw" \notin f.caveats => RawAvailable(in)
         /\ \A r \in f.rows : \E rec \in ToSet(in.assets) :
              /\ rec.type = "cloudflare.dns_record" /\ nodeKey(rec) = r.subject
              /\ Unanswered(rec, ToSet(in.assets))
  <1> DEFINE A == ToSet(in.assets)
             records == OfTypes(in, {"cloudflare.dns_record"})
             ranges == declaredRanges(in)
             held == UNION {heldAddresses(a) : a \in A}
             Address(r) == AddressOf[Tag(r, "content")]
             Target(r) == normalizeHost(Tag(r, "content"))
             Points(r) ==
               /\ Tag(r, "content") # "" /\ ~resolvedByGraph(in, r)
               /\ \/ /\ Tag(r, "type") \in {"A", "AAAA"} /\ Tag(r, "content") \in DOMAIN AddressOf
                     /\ Address(r) \notin held
                  \/ /\ Tag(r, "type") = "CNAME" /\ Target(r) \notin ownedHostnames(in)
                     /\ ~coveredByWildcard(wildcardHostnames(records), Target(r))
             Scope(r) == IF Tag(r, "type") = "CNAME"
                         THEN Map(zoneOf(collectedZones(in), Target(r)), LAMBDA z : {})
                         ELSE Map(containingRange(ranges, Address(r)), LAMBDA x : {nodeKey(x.asset)})
             nowhere == Filter(records, Points)
             suspects == Filter(nowhere, LAMBDA r : Scope(r) # <<>>)
             Related(r) == Scope(r)[1] \cup Keys(AssetByID(in, Tag(r, "zone_id")))
             rows == {Row(nodeKey(r), Related(r), 0) : r \in ToSet(suspects)}
             caveats == (IF Len(nowhere) > Len(suspects) THEN {"out of scope"} ELSE {})
                          \cup (IF RawAvailable(in) THEN {} ELSE {"no raw"})
             facts == <<Len(nowhere) - Len(suspects)>>
             count == Len(suspects)
  <1>1. danglingDNS(in) = IF suspects = <<>> THEN <<>>
                          ELSE << Finding("network.dangling-dns", "warn", count, facts, rows, caveats) >>
    BY DEF danglingDNS
  <1>2. "no raw" \notin caveats => RawAvailable(in) OBVIOUS
  <1>3. ASSUME NEW r, Points(r) PROVE Unanswered(r, A)
    BY <1>3 DEF Unanswered, ownedHostnames
  <1> DEFINE T == {a \in V : a.type \in {"cloudflare.dns_record"}}
             P == {a \in V : Points(a)}
             S == {a \in V : Scope(a) # <<>>}
  <1> HIDE DEF Points, Scope
  <1>4. records = Keep(in.assets, T)
    <2>1. {i \in DOMAIN in.assets : in.assets[i].type \in {"cloudflare.dns_record"}}
            = {i \in DOMAIN in.assets : in.assets[i] \in T}
      OBVIOUS
    <2> QED BY <2>1 DEF OfTypes, Filter, Keep
  <1>5. records \in Seq(V) /\ ToSet(records) = A \cap T
    <2> HIDE DEF records, T
    <2> QED BY <1>4, KeepElements
  <1> HIDE DEF records
  <1>6. nowhere = Keep(records, P)
    <2>1. {i \in DOMAIN records : Points(records[i])} = {i \in DOMAIN records : records[i] \in P}
      BY <1>5
    <2> QED BY <2>1 DEF Filter, Keep
  <1>7. nowhere \in Seq(V) /\ ToSet(nowhere) = ToSet(records) \cap P
    <2> HIDE DEF nowhere, P
    <2> QED BY <1>5, <1>6, KeepElements
  <1> HIDE DEF nowhere
  <1>8. suspects = Keep(nowhere, S)
    <2>1. {i \in DOMAIN nowhere : Scope(nowhere[i]) # <<>>} = {i \in DOMAIN nowhere : nowhere[i] \in S}
      BY <1>7
    <2> QED BY <2>1 DEF Filter, Keep
  <1>9. ToSet(suspects) = ToSet(nowhere) \cap S
    <2> HIDE DEF suspects, S
    <2> QED BY <1>7, <1>8, KeepElements
  <1>10. \A r \in ToSet(suspects) : r \in A /\ r.type = "cloudflare.dns_record" /\ Unanswered(r, A)
    <2> HIDE DEF suspects, A
    <2> QED BY <1>3, <1>5, <1>7, <1>9
  <1> HIDE DEF suspects, Related, caveats, facts, count
  <1>11. \A r \in rows : \E rec \in ToSet(suspects) : nodeKey(rec) = r.subject
    BY DEF Row
  <1> HIDE DEF rows
  <1>12. f = Finding("network.dangling-dns", "warn", count, facts, rows, caveats)
    BY <1>1 DEF ToSet
  <1>13. f.rows = rows /\ f.caveats = caveats BY <1>12 DEF Finding
  <1> QED BY <1>2, <1>10, <1>11, <1>13

\* What no asset answers leads nowhere.
LEMMA NowhereIs ==
  ASSUME NEW rec, Unanswered(rec, ToSet(WholeOfStarted))
  PROVE  LeadsNowhere(rec)
  <1> DEFINE On(a, type, texts) == IF a.type = type THEN texts ELSE {}
             Texts(a) ==
               AssetAddresses(a).ips
                 \cup On(a, "oci.nat_gateway", {Tag(a, "nat_ip")})
                 \cup On(a, "v1.Pod", {Get(a.raw, "status.podIP", "")})
                 \cup On(a, "v1.Node", Get(a.raw, "status.addresses", {}))
  <1>1. ASSUME NEW a PROVE Texts(a) \subseteq AssetAddresses(a).ips \cup supplementalAddresses(a)
    BY DEF supplementalAddresses
  <1> HIDE DEF Texts
  <1>2. \A a : Addresses(Texts(a)) \subseteq heldAddresses(a) BY <1>1 DEF Addresses, heldAddresses
  <1>3. LeadsNowhere(rec) <=>
          \A a \in ToSet(WholeOfStarted) :
            \/ /\ Tag(rec, "type") \in {"A", "AAAA"}
               /\ AddressOf[Tag(rec, "content")] \notin Addresses(Texts(a))
            \/ Tag(rec, "type") = "CNAME" /\ normalizeHost(Tag(rec, "content")) \notin AssetAddresses(a).hosts
    BY DEF LeadsNowhere, Texts
  <1> QED BY <1>2, <1>3 DEF Unanswered

\* Without a filter an input has all the assets it is made of.
LEMMA WholePicture ==
  ASSUME estate \in Estates, started \subseteq DOMAIN estate
  PROVE  ToSet(SortedAssets(Slice({}, WholeOfStarted))) = ToSet(WholeOfStarted)
  <1> DEFINE V == UNION {ToSet(estate[p]) : p \in started}
  <1>1. WholeOfStarted \in Seq(V) /\ ToSet(WholeOfStarted) = V BY WholeElements
  <1>2. \A a \in V : nodeKey(a) \in ToSet(InputOrder) BY EstatesAreCollected
  <1>3. \A a : Match({}, a) BY DEF Match
  <1> HIDE DEF V
  <1>4. ToSet(SortedAssets(Slice({}, WholeOfStarted)))
          = {a \in ToSet(WholeOfStarted) : Match({}, a) /\ nodeKey(a) \in ToSet(InputOrder)}
    BY <1>1, PictureElements
  <1> QED BY <1>1, <1>2, <1>3, <1>4

\* What an answer says of such names is so among the assets of the started providers.
LEMMA DanglingSays ==
  ASSUME CollectInv, ended = started, NEW req \in Requests, req.command = "insights", req.filter = {},
         insightsAnswer(req).kind = "insights", insightsAnswer(req).outcome # "ErrPartial",
         NEW f \in ToSet(insightsAnswer(req).report.findings), f.id = Dangling,
         "no raw" \notin f.caveats, NEW r \in f.rows
  PROVE  \E rec \in ToSet(WholeOfStarted) :
           rec.type = "cloudflare.dns_record" /\ nodeKey(rec) = r.subject /\ LeadsNowhere(rec)
  <1> DEFINE books == IF req.cost THEN <<BookOf(req)>> ELSE <<>>
             in == NewInput(Slice(req.filter, collected), books, Today)
             report == Run(in, req.only, req.severity, req.budget)
             tripped == req.exitCode /\ report.findings # <<>> /\ MaxSeverity(report) >= req.failOn
             s == SortedAssets(Slice({}, Everything))
  <1>1. insightsAnswer(req) = [kind |-> "insights", request |-> req, report |-> report,
                               outcome |-> ReportOutcome("ErrInsights", tripped)]
    BY DEF insightsAnswer, insightsPriced, insightsReported, Refused
  <1> HIDE DEF report, tripped
  <1>2. insightsAnswer(req).report = report /\ ReportOutcome("ErrInsights", tripped) # "ErrPartial"
    <2>1. ASSUME NEW x, x = insightsAnswer(req) PROVE x.report = report
      BY ONLY <2>1, <1>1
    <2> QED BY ONLY <2>1, <1>1, insightsAnswer(req).outcome # "ErrPartial"
  <1>3. failed = {} BY <1>2, NotPartial
  <1>4. in = NewInput(Slice({}, Everything), books, Today)
    <2> HIDE DEF books
    <2> QED BY <1>3, SameInput
  <1>5. in.assets = s BY <1>4 DEF NewInput
  <1>6. estate \in Estates /\ started \subseteq DOMAIN estate /\ payload \in BOOLEAN
    BY DEF CollectInv
  <1>7. s = SortedAssets(Slice({}, WholeOfStarted)) \/ \A a \in ToSet(s) : ~HasRaw(a)
    BY <1>6, PictureOrNoPayload
  <1>8. s \in Seq(Collectable)
    <2>1. Everything \in Seq(Collectable) BY <1>6, EverythingOf
    <2> QED BY <2>1, PictureElements
  <1> HIDE DEF in, s
  <1>9. f \in ToSet(danglingDNS(in))
    <2>1. req.budget \in Nat BY RequestsAreParsed
    <2>2. f \in ToSet(Run(in, req.only, req.severity, req.budget).findings) BY <1>2 DEF report
    <2>3. PICK id \in Ids : f \in ToSet(Findings(id, in)) BY <2>1, <2>2, ReportedFrom
    <2> QED BY <2>3, OneInsight
  <1>10. RawAvailable(in) BY <1>5, <1>8, <1>9, DanglingReads
  <1>11. ToSet(s) = ToSet(WholeOfStarted)
    <2>1. s = SortedAssets(Slice({}, WholeOfStarted)) BY <1>5, <1>7, <1>10 DEF RawAvailable
    <2> QED BY <2>1, <1>6, WholePicture
  <1>12. PICK rec \in ToSet(s) :
           /\ rec.type = "cloudflare.dns_record" /\ nodeKey(rec) = r.subject
           /\ Unanswered(rec, ToSet(s))
    BY <1>5, <1>8, <1>9, DanglingReads
  <1> QED BY <1>11, <1>12, NowhereIs

\* The estate, the payloads and who was started decide what leads nowhere.
LEMMA NowhereSame ==
  ASSUME UNCHANGED <<estate, payload, started>>, NEW rec, LeadsNowhere(rec)
  PROVE  WholeOfStarted' = WholeOfStarted /\ LeadsNowhere(rec)'
  <1>1. WholeOfStarted' = WholeOfStarted BY DEF WholeOfStarted, Inventory, Each, Map
  <1> QED BY <1>1 DEF LeadsNowhere

\* The answer to a request keeps the property.
LEMMA DanglingAnswered ==
  ASSUME CollectInv, ended = started, NEW req \in Requests, Ask(req)
  PROVE  DanglingIsGenuine'
  <1>1. /\ answer' = CASE req.command = "insights" -> insightsAnswer(req)
                        [] req.command = "cost" -> costAnswer(req)
                        [] req.command = "check" -> checkAnswer(req)
                        [] OTHER -> diffAnswer(req)
        /\ UNCHANGED <<estate, payload, started, ended, failed, collected>>
    BY DEF Ask
  <1>2. req.command \in {"insights", "cost", "check", "diff"} BY RequestsAreParsed
  <1> SUFFICES ASSUME answer'.kind = "insights", answer'.outcome # "ErrPartial",
                      answer'.request.filter = {}, NEW f \in ToSet(answer'.report.findings),
                      f.id = "network.dangling-dns", "no raw" \notin f.caveats, NEW r \in f.rows
               PROVE  \E rec \in ToSet(WholeOfStarted') :
                        /\ rec.type = "cloudflare.dns_record" /\ nodeKey(rec) = r.subject
                        /\ LeadsNowhere(rec)'
    BY DEF DanglingIsGenuine
  <1>3. req.command = "insights" /\ answer' = insightsAnswer(req) BY <1>1, <1>2, Kinds
  <1>4. answer'.request = req BY <1>3 DEF insightsAnswer, insightsPriced, insightsReported, Refused
  <1>5. PICK rec \in ToSet(WholeOfStarted) :
          rec.type = "cloudflare.dns_record" /\ nodeKey(rec) = r.subject /\ LeadsNowhere(rec)
    BY <1>3, <1>4, DanglingSays DEF Dangling
  <1>6. WholeOfStarted' = WholeOfStarted /\ LeadsNowhere(rec)' BY <1>1, <1>5, NowhereSame
  <1> QED BY <1>5, <1>6

\* It holds until the estate changes.
LEMMA DanglingStays ==
  ASSUME DanglingIsGenuine, UNCHANGED <<estate, payload, started, answer>>
  PROVE  DanglingIsGenuine'
  <1>1. WholeOfStarted' = WholeOfStarted BY DEF WholeOfStarted, Inventory, Each, Map
  <1> QED BY <1>1, NowhereSame DEF DanglingIsGenuine

\* A name reported as leading nowhere is that of a record which leads to no address and no
\* name that the started providers show in the inventory, in the graph's index or in the
\* other places that are read, whatever was collected in which order (danglingDNS).
THEOREM DanglingNamesAreReal == Spec => []DanglingIsGenuine
  <1>1. Init => CollectInv /\ DanglingIsGenuine
    BY CollectStarts DEF Init, NoAnswer, DanglingIsGenuine
  <1>2. CollectInv /\ DanglingIsGenuine /\ [Next]_vars => (CollectInv /\ DanglingIsGenuine)'
    <2> SUFFICES ASSUME CollectInv, DanglingIsGenuine, [Next]_vars PROVE DanglingIsGenuine'
      BY CollectSteps
    <2>1. ASSUME NEW p \in DOMAIN estate, NEW fails \in BOOLEAN, NEW n \in 0..Len(estate[p]),
                 Collect(p, n, fails)
          PROVE  DanglingIsGenuine'
      <3>1. answer'.kind = "none" BY <2>1 DEF Collect, NoAnswer
      <3> QED BY <3>1 DEF DanglingIsGenuine
    <2>2. ASSUME NEW req \in Requests, Ask(req) PROVE DanglingIsGenuine'
      <3>1. ended = started BY <2>2 DEF Ask
      <3> QED BY <3>1, <2>2, DanglingAnswered
    <2>3. CASE UNCHANGED vars BY <2>3, DanglingStays DEF vars
    <2> QED BY <2>1, <2>2, <2>3 DEF Next
  <1> QED BY <1>1, <1>2, PTL DEF Spec

-----------------------------------------------------------------------------
(* The sums of a cost report.                                              *)

\* The positions of a list of n.
Positions(n) == [i \in 1..n |-> i]

\* They are a list of numbers, each at its own position.
LEMMA PositionsAre ==
  ASSUME NEW n \in Nat
  PROVE  /\ Positions(n) \in Seq(1..n) /\ Len(Positions(n)) = n
         /\ ToSet(Positions(n)) = 1..n /\ \A i \in 1..n : Positions(n)[i] = i
  <1> DEFINE p == Positions(n)
  <1>1. p \in Seq(1..n) /\ Len(p) = n /\ \A i \in 1..n : p[i] = i BY DEF Positions
  <1> HIDE DEF p
  <1>2. ToSet(p) = 1..n BY <1>1 DEF ToSet
  <1> QED BY <1>1, <1>2 DEF p

\* A list of n estimates: where one is priced, its amount is a number.
PricedInNumbers(n, ests, V) == ests \in [1..n -> V] /\ \A i \in 1..n : ests[i].priced => ests[i].monthly \in Int

\* What each position adds to the spend.
Amounts(n, ests) == [i \in 1..n |-> IF ests[i].priced THEN ests[i].monthly ELSE 0]

\* What the positions in J add to it in currency c.
Spent(n, ests, J, c) ==
  Total(Through(Keep(Positions(n), {i \in J : CurrencyIn(ests[i]) = c}), Amounts(n, ests)))

\* The bag of money of the positions in J.
BagOf(n, ests, J) == [c \in {CurrencyIn(ests[i]) : i \in J} |-> Spent(n, ests, J, c)]

\* The bag of a list of priced estimates is the bag of their positions (moneyBag).
LEMMA BagIs ==
  ASSUME NEW n \in Nat, NEW V, NEW ests, PricedInNumbers(n, ests, V),
         NEW J \in SUBSET (1..n), \A i \in J : ests[i].priced
  PROVE  moneyBag(Through(Keep(Positions(n), J), ests)) = BagOf(n, ests, J)
  <1> DEFINE k == Keep(Positions(n), J)
             l == Through(k, ests)
             C(c) == {e \in V : CurrencyIn(e) = c}
             w == Amounts(n, ests)
  <1>0. ests \in [1..n -> V] BY DEF PricedInNumbers
  <1>1. Positions(n) \in Seq(1..n) /\ ToSet(Positions(n)) = 1..n BY PositionsAre
  <1>2. k \in Seq(1..n) /\ ToSet(k) = J
    <2>1. k \in Seq(1..n) /\ ToSet(k) = ToSet(Positions(n)) \cap J BY <1>1, KeepElements
    <2> HIDE DEF k
    <2> QED BY <2>1, <1>1
  <1> HIDE DEF k
  <1>3. l \in Seq(V) /\ Len(l) = Len(k) /\ \A i \in 1..Len(k) : l[i] = ests[k[i]]
    <2>1. l \in Seq(V) BY <1>0, <1>2, ThroughType
    <2>2. Len(l) = Len(k) /\ \A i \in 1..Len(k) : l[i] = ests[k[i]]
      <3>1. MadeOf(l, k, ests) BY <1>2, ThroughIs
      <3> QED BY <3>1 DEF MadeOf
    <2> QED BY <2>1, <2>2
  <1> HIDE DEF l
  <1>4. {CurrencyIn(e) : e \in ToSet(l)} = {CurrencyIn(ests[i]) : i \in J}
    <2>1. ToSet(l) = {ests[k[i]] : i \in 1..Len(k)} BY <1>3 DEF ToSet
    <2>2. J = {k[i] : i \in 1..Len(k)} BY <1>2 DEF ToSet
    <2>3. ToSet(l) = {ests[i] : i \in J} BY ONLY <2>1, <2>2
    <2> QED BY <2>3
  <1>5. ASSUME NEW c
        PROVE  SumOf(Filter(l, LAMBDA e : CurrencyIn(e) = c), LAMBDA e : e.monthly) = Spent(n, ests, J, c)
    <2> DEFINE B == {i \in 1..n : ests[i] \in C(c)}
               m == Keep(Positions(n), {i \in J : CurrencyIn(ests[i]) = c})
    <2>1. Filter(l, LAMBDA e : CurrencyIn(e) = c) = Keep(l, C(c))
      <3>1. \A i \in DOMAIN l : l[i] \in V BY <1>3
      <3>2. {i \in DOMAIN l : CurrencyIn(l[i]) = c} = {i \in DOMAIN l : l[i] \in C(c)} BY <3>1
      <3> QED BY <3>2 DEF Filter, Keep
    <2>2. Keep(l, C(c)) = Through(Keep(k, B), ests)
      <3> HIDE DEF C
      <3> QED BY <1>2, KeepThrough DEF l
    <2>3. Keep(k, B) = m
      <3>1. J \cap B = {i \in J : CurrencyIn(ests[i]) = c} BY <1>0
      <3> HIDE DEF B
      <3>2. Keep(k, B) = Keep(Positions(n), J \cap B) BY <1>1, KeepKeep DEF k
      <3> QED BY <3>1, <3>2
    <2> HIDE DEF B
    <2>4. m \in Seq(1..n) /\ ToSet(m) \subseteq J
      <3> DEFINE I == {i \in J : CurrencyIn(ests[i]) = c}
      <3>1. I \subseteq J OBVIOUS
      <3> HIDE DEF I
      <3>2. Keep(Positions(n), I) \in Seq(1..n) /\ ToSet(Keep(Positions(n), I)) = ToSet(Positions(n)) \cap I
        BY <1>1, KeepElements
      <3> QED BY <3>1, <3>2 DEF I
    <2> HIDE DEF m
    <2> DEFINE t == Through(m, ests)
               u == Through(m, w)
               v == Map(t, LAMBDA e : e.monthly)
    <2>5. Len(t) = Len(m) /\ t \in Seq(V) /\ \A i \in 1..Len(m) : t[i] = ests[m[i]]
      <3>1. t \in Seq(V) BY <1>0, <2>4, ThroughType
      <3>2. Len(t) = Len(m) /\ \A i \in 1..Len(m) : t[i] = ests[m[i]]
        <4>1. MadeOf(t, m, ests) BY <2>4, ThroughIs
        <4> QED BY <4>1 DEF MadeOf
      <3> QED BY <3>1, <3>2
    <2>6. w \in [1..n -> Int] /\ \A i \in J : w[i] = ests[i].monthly
      BY DEF Amounts, PricedInNumbers
    <2> HIDE DEF w
    <2>7. u \in Seq(Int) /\ Len(u) = Len(m) /\ \A i \in 1..Len(m) : u[i] = w[m[i]]
      <3>1. u \in Seq(Int) BY <2>4, <2>6, ThroughType
      <3>2. Len(u) = Len(m) /\ \A i \in 1..Len(m) : u[i] = w[m[i]]
        <4>1. MadeOf(u, m, w) BY <2>4, ThroughIs
        <4> QED BY <4>1 DEF MadeOf
      <3> QED BY <3>1, <3>2
    <2> HIDE DEF t, u
    <2>8. v = u
      <3>1. \A i \in 1..Len(m) : u[i] = t[i].monthly
        <4> TAKE i \in 1..Len(m)
        <4>1. m[i] \in J BY <2>4 DEF ToSet
        <4> QED BY <4>1, <2>5, <2>6, <2>7
      <3>2. [i \in DOMAIN t |-> t[i].monthly] = u
        <4>1. DOMAIN t = 1..Len(m) /\ DOMAIN u = 1..Len(m) /\ u = [i \in 1..Len(m) |-> u[i]]
          BY <2>5, <2>7
        <4> QED BY ONLY <3>1, <4>1
      <3>3. v = u \o <<>> BY <3>2 DEF Map
      <3> HIDE DEF v
      <3> QED BY <3>3, <2>7
    <2> HIDE DEF v
    <2>9. Spent(n, ests, J, c) = Total(u) BY DEF Spent, m, u, w
    <2>10. SumOf(t, LAMBDA e : e.monthly) = Total(v) BY DEF SumOf, v
    <2>11. Filter(l, LAMBDA e : CurrencyIn(e) = c) = t BY <2>1, <2>2, <2>3 DEF t
    <2> QED BY <2>8, <2>9, <2>10, <2>11
  <1>6. moneyBag(l) = [c \in {CurrencyIn(e) : e \in ToSet(l)} |->
                         SumOf(Filter(l, LAMBDA e : CurrencyIn(e) = c), LAMBDA e : e.monthly)]
    BY DEF moneyBag
  <1> HIDE DEF l
  <1>7. moneyBag(l) = BagOf(n, ests, J) BY <1>4, <1>5, <1>6 DEF BagOf
  <1> QED BY <1>7 DEF l, k

\* What is kept of the estimates at the positions in K, by position.
LEMMA KeptAt ==
  ASSUME NEW n \in Nat, NEW V, NEW ests \in [1..n -> V], NEW K \in SUBSET (1..n), NEW B
  PROVE  Keep(Through(Keep(Positions(n), K), ests), B)
           = Through(Keep(Positions(n), {i \in K : ests[i] \in B}), ests)
  <1> DEFINE p == Positions(n)
             k == Keep(p, K)
             A == {i \in 1..n : ests[i] \in B}
  <1>1. p \in Seq(1..n) BY PositionsAre
  <1> HIDE DEF p
  <1>2. k \in Seq(1..n) BY <1>1, KeepElements
  <1>3. Keep(k, A) = Keep(p, K \cap A) BY <1>1, KeepKeep
  <1>4. K \cap A = {i \in K : ests[i] \in B} OBVIOUS
  <1> HIDE DEF k
  <1>5. Keep(Through(k, ests), B) = Through(Keep(k, A), ests) BY <1>2, KeepThrough
  <1> QED BY <1>3, <1>4, <1>5 DEF k, p

kinds == {"priced", "attributed", "metered", "unknown"}

\* The tally of the positions in K: the bag of the priced ones, and how many there are
\* of each kind (groupAccumulator.add).
Tallied(tally, n, ests, K) ==
  /\ tally.monthly = BagOf(n, ests, {i \in K : ests[i].priced})
  /\ tally.counts = [k \in kinds |-> Len(Keep(Positions(n), {i \in K : Kind(ests[i]) = k}))]

\* That of the estimates at these positions.
LEMMA TallyIs ==
  ASSUME NEW n \in Nat, NEW V, NEW ests, PricedInNumbers(n, ests, V),
         NEW K \in SUBSET (1..n), NEW l, l = Through(Keep(Positions(n), K), ests)
  PROVE  Tallied(Tally(l), n, ests, K)
  <1> DEFINE p == Positions(n)
  <1>0. ests \in [1..n -> V] BY DEF PricedInNumbers
  <1>1. p \in Seq(1..n) BY PositionsAre
  <1>2. l \in Seq(V)
    <2>1. Keep(p, K) \in Seq(1..n) BY <1>1, KeepElements
    <2> HIDE DEF p
    <2> QED BY <1>0, <2>1, ThroughType DEF p
  <1>3. \A i \in DOMAIN l : l[i] \in V BY <1>2
  <1>4. \A B : Keep(l, B) = Through(Keep(p, {i \in K : ests[i] \in B}), ests) BY <1>0, KeptAt
  <1>5. Filter(l, LAMBDA e : e.priced) = Through(Keep(p, {i \in K : ests[i].priced}), ests)
    <2> DEFINE B == {e \in V : e.priced}
    <2>1. {i \in DOMAIN l : l[i].priced} = {i \in DOMAIN l : l[i] \in B} BY <1>3
    <2>2. Filter(l, LAMBDA e : e.priced) = Keep(l, B) BY <2>1 DEF Filter, Keep
    <2>3. {i \in K : ests[i] \in B} = {i \in K : ests[i].priced} BY <1>0
    <2> HIDE DEF p, B
    <2> QED BY ONLY <1>4, <2>2, <2>3
  <1>6. moneyBag(Filter(l, LAMBDA e : e.priced)) = BagOf(n, ests, {i \in K : ests[i].priced})
    <2> DEFINE J == {i \in K : ests[i].priced}
    <2>1. J \in SUBSET (1..n) /\ \A i \in J : ests[i].priced OBVIOUS
    <2> HIDE DEF J
    <2>2. moneyBag(Through(Keep(p, J), ests)) = BagOf(n, ests, J) BY <2>1, BagIs
    <2> QED BY <2>2, <1>5 DEF J
  <1>7. ASSUME NEW kind
        PROVE  Len(Filter(l, LAMBDA e : Kind(e) = kind)) = Len(Keep(p, {i \in K : Kind(ests[i]) = kind}))
    <2> DEFINE B == {e \in V : Kind(e) = kind}
               I == {i \in K : Kind(ests[i]) = kind}
    <2>1. {i \in DOMAIN l : Kind(l[i]) = kind} = {i \in DOMAIN l : l[i] \in B} BY <1>3
    <2>2. Filter(l, LAMBDA e : Kind(e) = kind) = Keep(l, B) BY <2>1 DEF Filter, Keep
    <2>3. {i \in K : ests[i] \in B} = I BY <1>0
    <2> HIDE DEF p, B, I
    <2>4. Filter(l, LAMBDA e : Kind(e) = kind) = Through(Keep(p, I), ests) BY ONLY <1>4, <2>2, <2>3
    <2>5. Keep(p, I) \in Seq(1..n) BY <1>1, KeepElements
    <2>6. MadeOf(Through(Keep(p, I), ests), Keep(p, I), ests) BY <2>5, ThroughIs
    <2>7. Len(Through(Keep(p, I), ests)) = Len(Keep(p, I)) BY <2>6 DEF MadeOf
    <2> QED BY <2>4, <2>7 DEF I
  <1>8. Tally(l).counts = [k \in kinds |-> Len(Filter(l, LAMBDA e : Kind(e) = k))]
    BY DEF Tally, Counts, kinds
  <1> HIDE DEF p
  <1>9. Tally(l).counts = [k \in kinds |-> Len(Keep(p, {i \in K : Kind(ests[i]) = k}))]
    BY <1>7, <1>8
  <1>10. Tally(l).monthly = moneyBag(Filter(l, LAMBDA e : e.priced)) BY DEF Tally
  <1> QED BY <1>6, <1>9, <1>10 DEF p, Tallied

\* A list of estimates is made of all its positions.
LEMMA AllPositions ==
  ASSUME NEW n \in Nat, NEW V, NEW ests \in [1..n -> V]
  PROVE  ests = Through(Keep(Positions(n), 1..n), ests)
  <1> DEFINE p == Positions(n)
             t == Through(p, ests)
  <1>1. p \in Seq(1..n) /\ Len(p) = n /\ ToSet(p) = 1..n /\ \A i \in 1..n : p[i] = i BY PositionsAre
  <1> HIDE DEF p
  <1>2. Keep(p, 1..n) = p BY <1>1, KeepAll
  <1>3. MadeOf(t, p, ests) /\ t \in Seq(V) BY <1>1, ThroughIs, ThroughType
  <1> HIDE DEF t
  <1>4. Len(t) = n /\ \A i \in 1..n : t[i] = ests[i] BY <1>1, <1>3 DEF MadeOf
  <1>5. t = ests
    <2>1. t = [i \in 1..n |-> t[i]] BY <1>3, <1>4
    <2>2. ests = [i \in 1..n |-> ests[i]] OBVIOUS
    <2> QED BY ONLY <2>1, <2>2, <1>4
  <1> QED BY <1>2, <1>5 DEF p, t

\* Every position is of one of the groups in D, and every group has one.
Covers(of, n, D) == of \in [1..n -> D] /\ \A g \in D : \E i \in 1..n : of[i] = g

\* The bags of the groups, in some order.
GroupBags(bags, n, ests, of, D) ==
  bags = Map(SetToSeq(D), LAMBDA g : BagOf(n, ests, {i \in {j \in 1..n : of[j] = g} : ests[i].priced}))

\* What the positions in the groups of a report spend is what all of them spend.
LEMMA BagsAddUp ==
  ASSUME NEW n \in Nat, NEW V, NEW ests, PricedInNumbers(n, ests, V),
         NEW D, IsFiniteSet(D), NEW of, Covers(of, n, D), NEW bags,
         GroupBags(bags, n, ests, of, D)
  PROVE  Plus(bags) = BagOf(n, ests, {i \in 1..n : ests[i].priced})
  <1> DEFINE p == Positions(n)
             r == SetToSeq(D)
             P == {i \in 1..n : ests[i].priced}
             J(g) == {i \in {j \in 1..n : of[j] = g} : ests[i].priced}
             C == {CurrencyIn(ests[i]) : i \in P}
             w == Amounts(n, ests)
             S(c) == {i \in P : CurrencyIn(ests[i]) = c}
  <1>0. ests \in [1..n -> V] /\ of \in [1..n -> D] BY DEF PricedInNumbers, Covers
  <1>1. p \in Seq(1..n) BY PositionsAre
  <1>2. /\ r \in Seq(D) /\ \A i, j \in 1..Len(r) : r[i] = r[j] => i = j
        /\ \A x \in D : \E i \in 1..Len(r) : r[i] = x
    BY SetToSeqLists
  <1> HIDE DEF r
  <1>3. Len(bags) = Len(r) /\ DOMAIN bags = 1..Len(r)
        /\ \A m \in 1..Len(r) : bags[m] = BagOf(n, ests, J(r[m]))
    <2> DEFINE G(g) == BagOf(n, ests, J(g))
               x == [m \in DOMAIN r |-> G(r[m])]
    <2>1. bags = x \o <<>> BY DEF GroupBags, Map, r
    <2> HIDE DEF G
    <2>2. x \in Seq({G(g) : g \in D}) /\ Len(x) = Len(r) /\ \A m \in 1..Len(r) : x[m] = G(r[m])
      BY <1>2
    <2> HIDE DEF x
    <2>3. bags = x BY <2>1, <2>2
    <2>4. Len(bags) = Len(r) /\ DOMAIN bags = 1..Len(r) /\ \A m \in 1..Len(r) : bags[m] = G(r[m])
      BY ONLY <2>2, <2>3, <1>2
    <2> HIDE DEF J
    <2> QED BY <2>4 DEF G
  <1> HIDE DEF J
  <1>4. UNION {DOMAIN b : b \in ToSet(bags)} = C
    <2>1. \A m \in 1..Len(r) : DOMAIN bags[m] = {CurrencyIn(ests[i]) : i \in J(r[m])} BY <1>3 DEF BagOf
    <2>2. UNION {DOMAIN b : b \in ToSet(bags)} = UNION {DOMAIN bags[m] : m \in 1..Len(r)}
      <3>1. ToSet(bags) = {bags[m] : m \in 1..Len(r)} BY <1>3 DEF ToSet
      <3> QED BY ONLY <3>1
    <2>3. \A i \in P : \E m \in 1..Len(r) : i \in J(r[m])
      <3> TAKE i \in P
      <3>1. of[i] \in D BY <1>0
      <3>2. PICK m \in 1..Len(r) : r[m] = of[i] BY <1>2, <3>1
      <3> QED BY <3>2 DEF J
    <2>4. \A m \in 1..Len(r) : J(r[m]) \subseteq P BY DEF J
    <2> HIDE DEF P
    <2>5. \A c : c \in C <=> \E i \in P : c = CurrencyIn(ests[i]) OBVIOUS
    <2>6. \A c : c \in UNION {DOMAIN bags[m] : m \in 1..Len(r)}
                   <=> \E m \in 1..Len(r) : \E i \in J(r[m]) : c = CurrencyIn(ests[i])
      BY ONLY <2>1
    <2>7. UNION {DOMAIN bags[m] : m \in 1..Len(r)} = C BY ONLY <2>3, <2>4, <2>5, <2>6
    <2> QED BY <2>2, <2>7
  <1>5. w \in [1..n -> Int] BY DEF Amounts, PricedInNumbers
  <1>6. ASSUME NEW c
        PROVE  SumOf(bags, LAMBDA b : Get(b, c, 0)) = Spent(n, ests, P, c)
    <2> DEFINE s == Keep(p, S(c))
               t == Map(bags, LAMBDA b : Get(b, c, 0))
               A(g) == {x \in 1..n : of[x] = g}
    <2>1. s \in Seq(1..n) BY <1>1, KeepElements
    <2>2. ASSUME NEW m \in 1..Len(r)
          PROVE  Get(bags[m], c, 0) = Total(Through(Keep(s, A(r[m])), w))
      <3> DEFINE g == r[m]
                 I == {i \in J(g) : CurrencyIn(ests[i]) = c}
      <3>1. Keep(s, A(g)) = Keep(p, I)
        <4>1. S(c) \cap A(g) = I BY DEF J
        <4> HIDE DEF A, S, p
        <4>2. Keep(s, A(g)) = Keep(p, S(c) \cap A(g)) BY <1>1, KeepKeep
        <4> QED BY <4>1, <4>2
      <3>2. bags[m] = BagOf(n, ests, J(g)) BY <1>3
      <3>3. Spent(n, ests, J(g), c) = Total(Through(Keep(p, I), w)) BY DEF Spent
      <3>4. CASE c \in {CurrencyIn(ests[i]) : i \in J(g)}
        <4>1. Get(bags[m], c, 0) = Spent(n, ests, J(g), c) BY <3>2, <3>4 DEF Get, BagOf
        <4> QED BY <3>1, <3>3, <4>1
      <3>5. CASE c \notin {CurrencyIn(ests[i]) : i \in J(g)}
        <4>1. Get(bags[m], c, 0) = 0 BY <3>2, <3>5 DEF Get, BagOf
        <4>2. I = {} BY <3>5
        <4>3. Keep(p, I) = <<>> BY <1>1, <4>2, KeepNone
        <4>4. Through(Keep(p, I), w) = <<>> BY <4>3, ThroughEmpty
        <4>5. <<>> \in Seq(Int) /\ Len(<<>>) = 0 OBVIOUS
        <4>6. Total(<<>>) = 0 BY <4>5, TotalType
        <4> HIDE DEF I, w, s, A
        <4> QED BY ONLY <3>1, <4>1, <4>4, <4>6
      <3> QED BY <3>4, <3>5
    <2> HIDE DEF s, w
    <2>3. AmountsOf(t, s, 1..n, of, D, w)
      <3> DEFINE v == [m \in DOMAIN bags |-> Get(bags[m], c, 0)]
                 u == [m \in 1..Len(r) |-> Total(Through(Keep(s, A(r[m])), w))]
      <3>1. v = u BY <1>3, <2>2
      <3>2. u \in Seq({Total(Through(Keep(s, A(r[m])), w)) : m \in 1..Len(r)})
        <4> DEFINE a(m) == Total(Through(Keep(s, A(r[m])), w))
                   N == Len(r)
        <4>1. N \in Nat BY <1>2
        <4>2. u = [m \in 1..N |-> a(m)] OBVIOUS
        <4> HIDE DEF a, N, u
        <4>3. u \in Seq({a(m) : m \in 1..N}) BY ONLY <4>1, <4>2
        <4> QED BY ONLY <4>3 DEF a, N
      <3>3. t = v \o <<>> BY DEF Map
      <3> HIDE DEF u, v, t
      <3>4. t = u BY <3>1, <3>2, <3>3
      <3> QED BY <1>0, <1>5, <3>4 DEF AmountsOf, u, r
    <2> HIDE DEF t
    <2>4. Total(t) = Total(Through(s, w))
      <3>1. IsFiniteSet(D) OBVIOUS
      <3> QED BY ONLY <3>1, <2>1, <2>3, AmountsMakeUp
    <2>5. Spent(n, ests, P, c) = Total(Through(s, w)) BY DEF Spent, s, w
    <2>6. SumOf(bags, LAMBDA b : Get(b, c, 0)) = Total(t) BY DEF SumOf, t
    <2> QED BY <2>4, <2>5, <2>6
  <1>7. Plus(bags) = [c \in C |-> SumOf(bags, LAMBDA b : Get(b, c, 0))] BY <1>4 DEF Plus
  <1>8. Plus(bags) = [c \in C |-> Spent(n, ests, P, c)] BY <1>6, <1>7
  <1> QED BY <1>8 DEF BagOf

\* The group of each position, the groups there are and the positions of one.
GroupOf(assets, dim) == [i \in 1..Len(assets) |-> groupKey(assets[i], dim)]
GroupsOf(assets, dim) == {GroupOf(assets, dim)[i] : i \in 1..Len(assets)}
InGroup(assets, dim, g) == {j \in 1..Len(assets) : GroupOf(assets, dim)[j] = g}

\* What a report holds of a group: the tally of its positions (Report, groupAccumulator).
TallyIn(assets, ests, dim, g) ==
  Tally(Through(Keep(Positions(Len(assets)), InGroup(assets, dim, g)), ests))

\* A report of these estimates, grouped by dim.
Grouped(report, assets, ests, dim) ==
  /\ report.estimates = ests /\ report.totals = Tally(ests)
  /\ report.groups = [g \in GroupsOf(assets, dim) |-> TallyIn(assets, ests, dim, g)]

LEMMA GroupsAre ==
  ASSUME NEW A, NEW assets \in Seq(A), NEW ests, NEW b, NEW dim, NEW now, NEW alone,
         NEW report, report = Reported(b, assets, dim, now, alone, ests)
  PROVE  Grouped(report, assets, ests, dim)
  <1> DEFINE n == Len(assets)
             p == Positions(n)
             of == GroupOf(assets, dim)
             ix == [i \in DOMAIN assets |-> i]
             In(key) == LET members == Filter(ix, LAMBDA i : groupKey(assets[i], dim) = key)
                        IN Map(members, LAMBDA i : ests[i])
             keys == {groupKey(a, dim) : a \in ToSet(assets)}
  <1>1. n \in Nat /\ DOMAIN assets = 1..n /\ ToSet(assets) = {assets[i] : i \in 1..n} BY DEF ToSet
  <1>2. /\ report.estimates = ests /\ report.totals = Tally(ests)
        /\ report.groups = [key \in keys |-> Tally(In(key))]
    BY DEF Reported
  <1>3. keys = GroupsOf(assets, dim) BY <1>1 DEF GroupsOf, GroupOf
  <1>4. ASSUME NEW key PROVE Tally(In(key)) = TallyIn(assets, ests, dim, key)
    <2> DEFINE K == InGroup(assets, dim, key)
    <2>1. ix = p BY <1>1 DEF Positions
    <2>2. p \in Seq(1..n) /\ Len(p) = n /\ \A i \in 1..n : p[i] = i BY <1>1, PositionsAre
    <2>0. K = {j \in 1..n : groupKey(assets[j], dim) = key} BY DEF InGroup, GroupOf
    <2> HIDE DEF p, n, K
    <2>3. DOMAIN p = 1..n BY <2>2
    <2>4. {i \in DOMAIN p : groupKey(assets[p[i]], dim) = key} = {i \in DOMAIN p : p[i] \in K}
      BY <2>0, <2>2, <2>3
    <2> HIDE DEF ix
    <2>5. Filter(p, LAMBDA i : groupKey(assets[i], dim) = key) = Keep(p, K) BY <2>4 DEF Filter, Keep
    <2>6. In(key) = Map(Keep(p, K), LAMBDA i : ests[i]) BY ONLY <2>1, <2>5
    <2> HIDE DEF In
    <2> QED BY <2>6 DEF Through, K, TallyIn, p, n
  <1> HIDE DEF keys, In
  <1>5. report.groups = [g \in GroupsOf(assets, dim) |-> TallyIn(assets, ests, dim, g)]
    BY ONLY <1>2, <1>3, <1>4
  <1> QED BY <1>2, <1>5 DEF Grouped

\* The groups add up to the totals.
AddsUp(report) ==
  LET groups == SetToSeq(DOMAIN report.groups)
  IN /\ report.totals.monthly = Plus(Map(groups, LAMBDA g : report.groups[g].monthly))
     /\ \A kind \in DOMAIN report.totals.counts :
          report.totals.counts[kind] = SumOf(groups, LAMBDA g : report.groups[g].counts[kind])

\* The groups add up to the totals, whatever the dimension: the money and the counts.
LEMMA ReportAddsUp ==
  ASSUME NEW A, NEW assets \in Seq(A), NEW V, NEW ests,
         PricedInNumbers(Len(assets), ests, V), NEW b, NEW dim, NEW now, NEW alone,
         NEW report, report = Reported(b, assets, dim, now, alone, ests)
  PROVE  AddsUp(report)
  <1> DEFINE n == Len(assets)
             p == Positions(n)
             of == GroupOf(assets, dim)
             D == GroupsOf(assets, dim)
             In(g) == InGroup(assets, dim, g)
             T(g) == TallyIn(assets, ests, dim, g)
             r == SetToSeq(D)
  <1>1. n \in Nat OBVIOUS
  <1>2. report.totals = Tally(ests) /\ report.groups = [g \in D |-> T(g)] BY GroupsAre DEF Grouped
  <1>3. Covers(of, n, D) BY DEF GroupOf, GroupsOf, Covers
  <1>4. IsFiniteSet(D)
    <2>1. IsFiniteSet(1..n) BY <1>1, FS_Interval
    <2>2. D = {of[i] : i \in 1..n} BY DEF GroupsOf
    <2> HIDE DEF n, D, of
    <2>3. of \in Surjection(1..n, D) BY <1>3 DEF Surjection, Covers
    <2> QED BY <2>1, <2>3, FS_Surjection
  <1>5. r \in Seq(D) BY <1>4, SetToSeqLists
  <1>6. \A g : In(g) \in SUBSET (1..n) /\ In(g) = {j \in 1..n : of[j] = g} BY DEF InGroup
  <1>7. PricedInNumbers(n, ests, V) OBVIOUS
  <1>8. \A g : T(g) = Tally(Through(Keep(p, In(g)), ests)) BY DEF TallyIn
  <1> HIDE DEF D, of, r, In, T, n
  <1>9. \A K \in SUBSET (1..n) : \A l : l = Through(Keep(p, K), ests) =>
          Tallied(Tally(l), n, ests, K)
    BY ONLY <1>1, <1>7, TallyIs
  <1>10. \A g : /\ T(g).monthly = BagOf(n, ests, {i \in In(g) : ests[i].priced})
                /\ T(g).counts = [k \in kinds |-> Len(Keep(p, {i \in In(g) : Kind(ests[i]) = k}))]
    <2>1. \A g : Tallied(T(g), n, ests, In(g)) BY ONLY <1>6, <1>8, <1>9
    <2> QED BY <2>1 DEF Tallied
  <1>11. /\ Tally(ests).monthly = BagOf(n, ests, {i \in 1..n : ests[i].priced})
         /\ Tally(ests).counts = [k \in kinds |-> Len(Keep(p, {i \in 1..n : Kind(ests[i]) = k}))]
    <2>0. ests \in [1..n -> V] BY <1>7 DEF PricedInNumbers
    <2>1. ests = Through(Keep(p, 1..n), ests) BY ONLY <1>1, <2>0, AllPositions
    <2>2. 1..n \in SUBSET (1..n) OBVIOUS
    <2>3. Tallied(Tally(ests), n, ests, 1..n) BY ONLY <2>1, <2>2, <1>9
    <2> QED BY <2>3 DEF Tallied
  <1>12. DOMAIN report.groups = D /\ \A i \in DOMAIN r : report.groups[r[i]] = T(r[i])
    BY <1>2, <1>5
  <1>13. report.totals.monthly = Plus(Map(r, LAMBDA g : report.groups[g].monthly))
    <2> DEFINE G(g) == BagOf(n, ests, {i \in {j \in 1..n : of[j] = g} : ests[i].priced})
               bags == Map(r, LAMBDA g : G(g))
    <2>1. Map(r, LAMBDA g : report.groups[g].monthly) = bags
      <3>1. \A g : T(g).monthly = G(g) BY ONLY <1>6, <1>10
      <3> HIDE DEF G
      <3>2. [i \in DOMAIN r |-> report.groups[r[i]].monthly] = [i \in DOMAIN r |-> G(r[i])]
        BY ONLY <3>1, <1>12
      <3> QED BY ONLY <3>2 DEF Map
    <2>2. GroupBags(bags, n, ests, of, D) BY DEF GroupBags, r
    <2> HIDE DEF bags
    <2>3. Plus(bags) = BagOf(n, ests, {i \in 1..n : ests[i].priced})
      BY ONLY <1>1, <1>3, <1>4, <1>7, <2>2, BagsAddUp
    <2> QED BY <1>2, <1>11, <2>1, <2>3
  <1>14. ASSUME NEW kind \in kinds
         PROVE  report.totals.counts[kind] = SumOf(r, LAMBDA g : report.groups[g].counts[kind])
    <2> DEFINE J == {i \in 1..n : Kind(ests[i]) = kind}
               s == Keep(p, J)
               t == Map(r, LAMBDA g : report.groups[g].counts[kind])
    <2>1. p \in Seq(1..n) BY <1>1, PositionsAre
    <2>2. s \in Seq(1..n) BY <2>1, KeepElements
    <2>3. \A g : T(g).counts[kind] = Len(Keep(s, {x \in 1..n : of[x] = g}))
      <3> TAKE g
      <3>1. J \cap {x \in 1..n : of[x] = g} = {i \in In(g) : Kind(ests[i]) = kind} BY <1>6
      <3> HIDE DEF J, p
      <3>2. Keep(s, {x \in 1..n : of[x] = g}) = Keep(p, J \cap {x \in 1..n : of[x] = g})
        BY <2>1, KeepKeep
      <3>3. T(g).counts[kind] = Len(Keep(p, {i \in In(g) : Kind(ests[i]) = kind})) BY <1>10
      <3> QED BY <3>1, <3>2, <3>3
    <2> HIDE DEF s
    <2>4. t = [i \in 1..Len(SetToSeq(D)) |-> Len(Keep(s, {x \in 1..n : of[x] = SetToSeq(D)[i]}))]
      <3> DEFINE u == [i \in DOMAIN r |-> report.groups[r[i]].counts[kind]]
                 v == [i \in 1..Len(r) |-> Len(Keep(s, {x \in 1..n : of[x] = r[i]}))]
      <3>1. u = v BY <1>5, <1>12, <2>3
      <3>2. v \o <<>> = v
        <4> DEFINE a(i) == Len(Keep(s, {x \in 1..n : of[x] = r[i]}))
                   N == Len(r)
        <4>1. N \in Nat BY <1>5
        <4>2. v = [i \in 1..N |-> a(i)] OBVIOUS
        <4> HIDE DEF a, N, v
        <4>3. v \in Seq({a(i) : i \in 1..N}) BY ONLY <4>1, <4>2
        <4> QED BY <4>3
      <3>3. t = u \o <<>> BY DEF Map
      <3> HIDE DEF t, u, v
      <3>4. t = v BY <3>1, <3>2, <3>3
      <3> QED BY <3>4 DEF v, r
    <2> HIDE DEF t
    <2>5. CountsOf(t, s, 1..n, of, D) /\ of \in [1..n -> D] BY <1>3, <2>4 DEF CountsOf, Covers
    <2>6. Total(t) = Len(s) BY ONLY <1>4, <2>2, <2>5, GroupsMakeUp
    <2>7. SumOf(r, LAMBDA g : report.groups[g].counts[kind]) = Total(t) BY DEF SumOf, t
    <2>8. report.totals.counts[kind] = Len(s) BY <1>2, <1>11 DEF s
    <2> QED BY <2>6, <2>7, <2>8
  <1>15. DOMAIN report.totals.counts = kinds BY <1>2, <1>11
  <1> QED BY <1>12, <1>13, <1>14, <1>15 DEF r, AddsUp

-----------------------------------------------------------------------------
(* What an asset costs is a number.                                        *)

\* An estimate has the fields of one, and its amount is a number when it is priced.
Sound(e) ==
  /\ e = [monthly |-> e.monthly, priced |-> e.priced, attributed |-> e.attributed,
          currency |-> e.currency, basis |-> e.basis]
  /\ e.priced \in BOOLEAN /\ (e.priced => e.monthly \in Int)

\* e is the estimate of these fields.
Written(e, m, p, t, c, b) ==
  /\ e = [monthly |-> m, priced |-> p, attributed |-> t, currency |-> c, basis |-> b]
  /\ p \in BOOLEAN /\ (p => m \in Int)

\* An estimate written out, and with another basis.
LEMMA SoundRecord ==
  ASSUME NEW e, NEW m, NEW p, NEW t, NEW c, NEW b, Written(e, m, p, t, c, b)
  PROVE  /\ Sound(e) /\ e.priced = p
         /\ \A x : Sound([e EXCEPT !.basis = x]) /\ [e EXCEPT !.basis = x].priced = p
  <1>0. e = [monthly |-> m, priced |-> p, attributed |-> t, currency |-> c, basis |-> b]
        /\ p \in BOOLEAN /\ (p => m \in Int)
    BY DEF Written
  <1>1. ASSUME NEW x, NEW f,
               f = [monthly |-> m, priced |-> p, attributed |-> t, currency |-> c, basis |-> x]
        PROVE  Sound(f) /\ f.priced = p
    <2>1. f.monthly = m /\ f.priced = p /\ f.attributed = t /\ f.currency = c /\ f.basis = x BY <1>1
    <2>2. f = [monthly |-> f.monthly, priced |-> f.priced, attributed |-> f.attributed,
               currency |-> f.currency, basis |-> f.basis]
      BY <1>1, <2>1
    <2> QED BY <1>0, <2>1, <2>2 DEF Sound
  <1>2. \A x : [e EXCEPT !.basis = x]
                = [monthly |-> m, priced |-> p, attributed |-> t, currency |-> c, basis |-> x]
    BY <1>0
  <1> QED BY <1>0, <1>1, <1>2

\* The estimates that no amount is computed for.
LEMMA NoPrice ==
  /\ Sound(unknown) /\ ~unknown.priced
  /\ \A x : Sound([unknown EXCEPT !.basis = x]) /\ ~[unknown EXCEPT !.basis = x].priced
  <1> DEFINE c == ""
             u == "unknown"
  <1>1. unknown = [monthly |-> 0, priced |-> FALSE, attributed |-> FALSE, currency |-> c, basis |-> u]
    BY Zenon DEF unknown
  <1> HIDE DEF c, u
  <1>2. Written(unknown, 0, FALSE, FALSE, c, u) BY <1>1 DEF Written
  <1> QED BY <1>2, SoundRecord

\* A price that is a number.
LEMMA PriceIs ==
  ASSUME NEW n \in Int, NEW c, NEW x
  PROVE  Sound(Estimated(n, c, x))
  <1>1. Written(Estimated(n, c, x), n, TRUE, FALSE, c, x) BY DEF Written, Estimated
  <1> QED BY <1>1, SoundRecord

\* What is attributed is not priced.
LEMMA AttributedIs ==
  ASSUME NEW e, NEW n
  PROVE  /\ Sound(AttributedFrom(e, n)) /\ ~AttributedFrom(e, n).priced
         /\ \A x : Sound([AttributedFrom(e, n) EXCEPT !.basis = x])
                     /\ ~[AttributedFrom(e, n) EXCEPT !.basis = x].priced
  <1> DEFINE c == e.currency
             b == e.basis
             f == AttributedFrom(e, n)
  <1>1. f = [monthly |-> n, priced |-> FALSE, attributed |-> TRUE, currency |-> c, basis |-> b]
    BY DEF AttributedFrom
  <1> HIDE DEF c, b, f
  <1>2. /\ Sound(f) /\ f.priced = FALSE
        /\ \A x : Sound([f EXCEPT !.basis = x]) /\ [f EXCEPT !.basis = x].priced = FALSE
    <2>1. Written(f, n, FALSE, TRUE, c, b) BY <1>1 DEF Written
    <2> QED BY <2>1, SoundRecord
  <1> QED BY <1>2 DEF f

\* The quantities an asset may be priced by.
Quantities == {[value |-> n, basis |-> x] : n \in Int, x \in {"inferred", "assumed"}}

\* What one text reads as: a number or nothing.
LEMMA ReadsNumbers ==
  ASSUME NEW text PROVE parseNumber(text) \in Seq(Int)
  BY NumbersAreRead DEF parseNumber

\* The sizes of a shape are numbers, and so is its default quantity.
LEMMA DefaultIsNumber ==
  ASSUME NEW shape, shape.default_ocpu \in Int, shape.default_memory_gb \in Int, NEW field
  PROVE  DefaultQuantity(shape, field) \in Seq(Int)
  BY DEF DefaultQuantity

\* A list of numbers is a list of quantities.
LEMMA QuantitiesFrom ==
  ASSUME NEW s \in Seq(Int), NEW x \in {"inferred", "assumed"}
  PROVE  Map(s, LAMBDA v : [value |-> v, basis |-> x]) \in Seq(Quantities)
  <1> DEFINE t == [i \in DOMAIN s |-> [value |-> s[i], basis |-> x]]
  <1>1. t \in Seq(Quantities)
    <2>1. \A i \in 1..Len(s) : [value |-> s[i], basis |-> x] \in Quantities BY DEF Quantities
    <2> HIDE DEF t
    <2>2. t = [i \in 1..Len(s) |-> [value |-> s[i], basis |-> x]] BY DEF t
    <2> QED BY <2>1, <2>2
  <1>2. Map(s, LAMBDA v : [value |-> v, basis |-> x]) = t \o <<>> BY DEF Map
  <1> HIDE DEF t
  <1>3. t \o <<>> = t BY <1>1
  <1> QED BY <1>1, <1>2, <1>3

\* The quantity of one factor is one number or none.
LEMMA OnceQuantity ==
  ASSUME NEW q, q.default \in Seq(Int), q.literal \in Seq(Int), NEW a,
         NEW shape, shape.default_ocpu \in Int, shape.default_memory_gb \in Int
  PROVE  quantityOnce(q, a, shape) \in Seq(Quantities)
  <1> DEFINE From(values, basis) == Map(values, LAMBDA v : [value |-> v, basis |-> basis])
             tagged == IF q.tag \in DOMAIN a.tags THEN parseNumber(a.tags[q.tag]) ELSE <<>>
             sources == From(tagged, "inferred")
                   \o From(parseNumber(Get(a.raw, q.raw, "")), "inferred")
                   \o From(DefaultQuantity(shape, q.shape), "assumed")
                   \o From(q.default, "assumed")
                   \o From(q.literal, "inferred")
  <1>1. \A s \in Seq(Int) : From(s, "inferred") \in Seq(Quantities) /\ From(s, "assumed") \in Seq(Quantities)
    BY QuantitiesFrom
  <1>2. tagged \in Seq(Int) BY ReadsNumbers
  <1>3. parseNumber(Get(a.raw, q.raw, "")) \in Seq(Int) BY ReadsNumbers
  <1>4. DefaultQuantity(shape, q.shape) \in Seq(Int) BY DefaultIsNumber
  <1>5. quantityOnce(q, a, shape) = SubSeq(sources, 1, IF sources = <<>> THEN 0 ELSE 1)
    BY DEF quantityOnce
  <1> HIDE DEF From, tagged
  <1> DEFINE s1 == From(tagged, "inferred")
             s2 == From(parseNumber(Get(a.raw, q.raw, "")), "inferred")
             s3 == From(DefaultQuantity(shape, q.shape), "assumed")
             s4 == From(q.default, "assumed")
             s5 == From(q.literal, "inferred")
  <1>6. sources \in Seq(Quantities)
    <2>1. s1 \in Seq(Quantities) BY <1>1, <1>2, Zenon
    <2>2. s2 \in Seq(Quantities) BY <1>1, <1>3, Zenon
    <2>3. s3 \in Seq(Quantities) BY <1>1, <1>4, Zenon
    <2>4. s4 \in Seq(Quantities) /\ s5 \in Seq(Quantities) BY <1>1, Zenon
    <2>5. sources = s1 \o s2 \o s3 \o s4 \o s5 OBVIOUS
    <2> HIDE DEF s1, s2, s3, s4, s5, sources
    <2> QED BY ONLY <2>1, <2>2, <2>3, <2>4, <2>5
  <1> HIDE DEF sources
  <1>7. CASE sources = <<>> BY <1>5, <1>7
  <1>8. CASE sources # <<>>
    <2>1. Len(sources) \in Nat /\ Len(sources) >= 1 BY <1>6, <1>8
    <2>2. SubSeq(sources, 1, 1) \in Seq(Quantities) BY <2>1, <1>6
    <2> QED BY <2>2, <1>5, <1>8
  <1> QED BY <1>7, <1>8

\* A product of numbers is a number, or there is none.
LEMMA ProductIs ==
  ASSUME NEW found \in Seq(Quantities), NEW n
  PROVE  Product(found, n) \in Seq({[value |-> k, basis |-> weakest(found)] : k \in Int})
  <1> DEFINE v == [i \in DOMAIN found |-> found[i].value]
             m == Map(found, LAMBDA f : f.value)
             x == weakest(found)
  <1>1. v \in Seq(Int)
    <2>1. \A i \in 1..Len(found) : found[i].value \in Int BY DEF Quantities
    <2> HIDE DEF v
    <2>2. v = [i \in 1..Len(found) |-> found[i].value] BY DEF v
    <2> QED BY <2>1, <2>2
  <1>2. m = v \o <<>> BY DEF Map
  <1> HIDE DEF v
  <1>3. m \in Seq(Int) BY <1>1, <1>2
  <1> HIDE DEF m
  <1>4. Multiplied(m) \in Int BY <1>3, MultipliedType
  <1>5. Product(found, n) = IF Len(found) < n THEN <<>> ELSE <<[value |-> Multiplied(m), basis |-> x]>>
    BY DEF Product, m
  <1> HIDE DEF x
  <1>6. <<[value |-> Multiplied(m), basis |-> x]>> \in Seq({[value |-> k, basis |-> x] : k \in Int})
    BY <1>4
  <1>7. <<>> \in Seq({[value |-> k, basis |-> x] : k \in Int}) OBVIOUS
  <1> QED BY <1>5, <1>6, <1>7 DEF x

\* The sizes of a shape are numbers.
Sized(shape) == shape.default_ocpu \in Int /\ shape.default_memory_gb \in Int

\* The factors of a quantity, and the terms of a price, that hold numbers.
Factors(s) == IsList(s) /\ \A q \in ToSet(s) : q.default \in Seq(Int) /\ q.literal \in Seq(Int)
Terms(s) == IsList(s) /\ \A t \in ToSet(s) : Factors(t.quantity)

\* The bases that a quantity may have.
Bases == {weakest(found) : found \in Seq(Quantities)}

\* The lines of a price.
Lines(b) ==
  {[rate |-> b.rates[id], value |-> k, basis |-> x] : id \in DOMAIN b.rates, k \in Int, x \in Bases}

\* One list after the other, of lists of W, is a list of W.
LEMMA FlatType ==
  ASSUME NEW W, NEW n \in Nat, NEW t \in [1..n -> Seq(W)]
  PROVE  FlattenSeq(t \o <<>>) \in Seq(W)
  <1>1. t \in Seq(Seq(W)) OBVIOUS
  <1>2. t \o <<>> = t BY <1>1
  <1>3. FlattenSeq(t) \in Seq(W) BY <1>1, FlattenElements
  <1> QED BY <1>2, <1>3

\* A quantity is one number or none.
LEMMA QuantityIs ==
  ASSUME NEW factors, Factors(factors), NEW a, NEW shape, Sized(shape)
  PROVE  quantity(factors, a, shape) \in Seq({[value |-> k, basis |-> x] : k \in Int, x \in Bases})
  <1> DEFINE n == Len(factors)
             t == [i \in DOMAIN factors |-> quantityOnce(factors[i], a, shape)]
             found == FlattenSeq(t \o <<>>)
  <1>1. n \in Nat /\ DOMAIN factors = 1..n /\ \A i \in 1..n : factors[i] \in ToSet(factors)
    BY DEF Factors, IsList
  <1>2. t \in [1..n -> Seq(Quantities)]
    <2>1. \A i \in 1..n : quantityOnce(factors[i], a, shape) \in Seq(Quantities)
      BY <1>1, OnceQuantity DEF Factors, Sized
    <2> QED BY <1>1, <2>1
  <1>3. quantity(factors, a, shape) = Product(found, n) BY DEF quantity, Each, Map
  <1> HIDE DEF t
  <1>4. found \in Seq(Quantities) BY <1>1, <1>2, FlatType
  <1> HIDE DEF found
  <1> DEFINE x == weakest(found)
  <1>5. Product(found, n) \in Seq({[value |-> k, basis |-> x] : k \in Int}) BY <1>4, ProductIs
  <1>6. x \in Bases BY <1>4 DEF Bases
  <1> HIDE DEF x
  <1>7. {[value |-> k, basis |-> x] : k \in Int} \subseteq {[value |-> k, basis |-> y] : k \in Int, y \in Bases}
    BY <1>6
  <1> DEFINE A == {[value |-> k, basis |-> x] : k \in Int}
             B == {[value |-> k, basis |-> y] : k \in Int, y \in Bases}
  <1> HIDE DEF A, B
  <1>8. Product(found, n) \in Seq(B) BY <1>5, <1>7 DEF A, B
  <1> QED BY <1>3, <1>8 DEF B

\* The lines of one term.
Line(b, t, a, shape) ==
  Each(resolveRate(b, t, shape), LAMBDA rate :
    Map(quantity(t.quantity, a, shape), LAMBDA q :
      [rate |-> rate, value |-> q.value, basis |-> q.basis]))

LEMMA LineIs ==
  ASSUME NEW b, NEW t, Factors(t.quantity), NEW a, NEW shape, Sized(shape)
  PROVE  Line(b, t, a, shape) \in Seq(Lines(b))
  <1> DEFINE rates == resolveRate(b, t, shape)
             q == quantity(t.quantity, a, shape)
             B == {[value |-> k, basis |-> y] : k \in Int, y \in Bases}
             R == {b.rates[id] : id \in DOMAIN b.rates}
             RowOf(rate) == [j \in DOMAIN q |-> [rate |-> rate, value |-> q[j].value, basis |-> q[j].basis]]
             ss == [i \in DOMAIN rates |-> RowOf(rates[i]) \o <<>>]
  <1>1. rates \in Seq(R)
    <2> DEFINE id == IF t.from_shape # "" THEN RateID(shape, t.from_shape) ELSE t.rate
    <2>1. rates = IF id \in DOMAIN b.rates THEN <<b.rates[id]>> ELSE <<>> BY DEF resolveRate
    <2> HIDE DEF id, rates
    <2>2. id \in DOMAIN b.rates => b.rates[id] \in R OBVIOUS
    <2> HIDE DEF R
    <2> DEFINE r == b.rates[id]
    <2>3. r \in R => <<r>> \in Seq(R) OBVIOUS
    <2>4. <<>> \in Seq(R) OBVIOUS
    <2> HIDE DEF r
    <2>5. CASE id \in DOMAIN b.rates BY <2>1, <2>2, <2>3, <2>5 DEF r
    <2>6. CASE id \notin DOMAIN b.rates BY <2>1, <2>4, <2>6
    <2> QED BY <2>5, <2>6
  <1>2. q \in Seq(B) BY QuantityIs
  <1>3. Line(b, t, a, shape) = FlattenSeq(ss \o <<>>) BY DEF Line, Each, Map
  <1> HIDE DEF rates, q
  <1>4. \A rate \in R : RowOf(rate) \o <<>> \in Seq(Lines(b))
    <2> TAKE rate \in R
    <2> DEFINE m == Len(q)
               r == RowOf(rate)
    <2>1. m \in Nat /\ DOMAIN q = 1..m /\ \A j \in 1..m : q[j] \in B BY <1>2
    <2>2. \A j \in 1..m : [rate |-> rate, value |-> q[j].value, basis |-> q[j].basis] \in Lines(b)
      BY <2>1 DEF Lines
    <2> HIDE DEF m
    <2>3. r = [j \in 1..m |-> [rate |-> rate, value |-> q[j].value, basis |-> q[j].basis]] BY <2>1
    <2> HIDE DEF r
    <2>4. r \in [1..m -> Lines(b)] BY <2>2, <2>3
    <2> DEFINE L == Lines(b)
    <2> HIDE DEF L
    <2>5. r \in Seq(L) BY <2>1, <2>4 DEF L
    <2>6. r \o <<>> \in Seq(L) BY <2>5
    <2> QED BY <2>6 DEF L, r
  <1>5. ss \in [1..Len(rates) -> Seq(Lines(b))]
    <2>1. Len(rates) \in Nat /\ DOMAIN rates = 1..Len(rates) /\ \A i \in 1..Len(rates) : rates[i] \in R
      <3> HIDE DEF R
      <3> QED BY <1>1
    <2> HIDE DEF R, RowOf
    <2> QED BY <1>4, <2>1
  <1>6. Len(rates) \in Nat BY <1>1
  <1> HIDE DEF ss
  <1> QED BY <1>3, <1>5, <1>6, FlatType

\* What a rate amounts to in a month is a number.
LEMMA MonthlyIs ==
  ASSUME NEW b, HoldsNumbers(b), NEW id \in DOMAIN b.rates
  PROVE  MonthlyAmount(b, b.rates[id]) \in Int
  <1> DEFINE n == b.rates[id].amount
             h == b.hours
  <1>1. n \in Int /\ h \in Int BY DEF HoldsNumbers
  <1>2. MonthlyAmount(b, b.rates[id]) = IF b.rates[id].unit = "hour" THEN n * h ELSE n BY DEF MonthlyAmount
  <1> HIDE DEF n, h
  <1>3. n * h \in Int BY <1>1
  <1> QED BY <1>1, <1>2, <1>3

\* Lines make up a price that is a number, or none.
LEMMA LinesPrice ==
  ASSUME NEW b, HoldsNumbers(b), NEW rule, NEW a, NEW lines \in Seq(Lines(b)), NEW used
  PROVE  Sound(PriceLines(b, rule, a, lines, used))
  <1> DEFINE n == Len(lines)
             t == [i \in DOMAIN lines |-> lines[i].value * MonthlyAmount(b, lines[i].rate)]
             monthly == SumOf(lines, LAMBDA l : l.value * MonthlyAmount(b, l.rate))
             zero == ZerosAt(rule, a.status)
             currencies == {CurrencyOf(b, l.rate) : l \in ToSet(lines)}
             m == IF zero THEN 0 ELSE monthly
             c == CHOOSE x \in currencies : TRUE
             p == PriceLines(b, rule, a, lines, used)
             w == weakest(lines)
  <1>1. t \in Seq(Int)
    <2>1. ASSUME NEW i \in 1..n PROVE lines[i].value * MonthlyAmount(b, lines[i].rate) \in Int
      <3>1. lines[i] \in Lines(b) OBVIOUS
      <3>2. PICK id \in DOMAIN b.rates, k \in Int, x \in Bases :
               lines[i] = [rate |-> b.rates[id], value |-> k, basis |-> x]
        BY <3>1 DEF Lines
      <3> DEFINE y == MonthlyAmount(b, b.rates[id])
      <3>3. y \in Int BY MonthlyIs
      <3>4. lines[i].value * MonthlyAmount(b, lines[i].rate) = k * y BY <3>2
      <3> HIDE DEF y
      <3> QED BY <3>3, <3>4
    <2>2. n \in Nat /\ DOMAIN lines = 1..n OBVIOUS
    <2>3. t = [i \in 1..n |-> lines[i].value * MonthlyAmount(b, lines[i].rate)] BY <2>2
    <2> HIDE DEF t
    <2>4. t \in [1..n -> Int] BY <2>1, <2>3
    <2> QED BY <2>2, <2>4
  <1>2. monthly = Total(t \o <<>>) BY DEF SumOf, Map
  <1> HIDE DEF t, monthly
  <1>3. t \o <<>> = t BY <1>1
  <1>4. monthly \in Int BY <1>1, <1>2, <1>3, TotalType
  <1>5. m \in Int BY <1>4
  <1>6. p = unknown \/ p = Estimated(m, c, w) BY Zenon DEF PriceLines, monthly
  <1> HIDE DEF m, c, w, p
  <1>7. Sound(Estimated(m, c, w)) BY <1>5, PriceIs
  <1>8. Sound(unknown) BY NoPrice
  <1> QED BY <1>6, <1>7, <1>8 DEF p

\* The shape a rule prices by has its sizes.
LEMMA ShapeIs ==
  ASSUME NEW b, HoldsNumbers(b), NEW rule, NEW a, ShapeOf(b, rule, a) # <<>>
  PROVE  Sized(ShapeOf(b, rule, a)[1])
  <1> DEFINE shape == ShapeOf(b, rule, a)
             name == selector(rule.shape_from[1], a)
             table == Get(b.shapes, rule.shape_table, Empty)
             x == table[name]
             one == <<x>>
             I == {i \in DOMAIN one : one[i].ocpu_rate # ""}
  <1>1. CASE rule.shape_from = <<>>
    <2>1. shape = <<noShape>> BY <1>1 DEF ShapeOf
    <2>2. shape[1] = noShape BY <2>1
    <2>3. Sized(noShape) BY DEF Sized, noShape
    <2> QED BY <2>2, <2>3
  <1>2. CASE rule.shape_from # <<>>
    <2>1. shape = IF name = "" \/ name \notin DOMAIN table THEN <<>> ELSE At(one, I)
      BY <1>2, Zenon DEF ShapeOf, Filter
    <2>2. name \in DOMAIN table /\ shape = At(one, I) BY <2>1
    <2>3. rule.shape_table \in DOMAIN b.shapes /\ table = b.shapes[rule.shape_table]
      <3>1. DOMAIN Empty = {} BY DEF Empty
      <3> QED BY <2>2, <3>1 DEF Get
    <2>4. Sized(x) BY <2>2, <2>3 DEF HoldsNumbers, Sized
    <2> HIDE DEF I, x, shape
    <2>5. one \in Seq({x}) OBVIOUS
    <2>6. shape \in Seq({x}) BY <2>2, <2>5, AtElements
    <2>7. shape[1] = x
      <3>1. shape # <<>> BY DEF shape
      <3> QED BY <2>6, <3>1
    <2> QED BY <2>4, <2>7 DEF shape
  <1> QED BY <1>1, <1>2

\* Terms make up a price that is a number, or none.
LEMMA TermsPrice ==
  ASSUME NEW b, HoldsNumbers(b), NEW rule, Terms(rule.terms), NEW a, NEW shape, Sized(shape)
  PROVE  Sound(PriceTerms(b, rule, a, shape))
  <1> DEFINE used == Filter(rule.terms, LAMBDA t : ~t.optional \/ resolveRate(b, t, shape) # <<>>)
             V == ToSet(rule.terms)
             I == {i \in DOMAIN rule.terms : ~rule.terms[i].optional
                                             \/ resolveRate(b, rule.terms[i], shape) # <<>>}
             n == Len(used)
             ss == [i \in DOMAIN used |-> Line(b, used[i], a, shape)]
             lines == FlattenSeq(ss \o <<>>)
  <1>1. used \in Seq(V)
    <2>1. rule.terms \in Seq(V) BY DEF Terms, IsList
    <2>2. used = At(rule.terms, I) BY DEF Filter
    <2> HIDE DEF used, I, V
    <2> QED BY <2>1, <2>2, AtElements
  <1>2. PriceTerms(b, rule, a, shape) = PriceLines(b, rule, a, lines, n)
    BY Zenon DEF PriceTerms, Each, Map, Line
  <1> HIDE DEF used
  <1>3. n \in Nat /\ DOMAIN used = 1..n /\ \A i \in 1..n : used[i] \in V
    <2> HIDE DEF V
    <2> QED BY <1>1
  <1>4. ss \in [1..n -> Seq(Lines(b))]
    <2>1. \A i \in 1..n : Factors(used[i].quantity) BY <1>3 DEF Terms
    <2>2. \A i \in 1..n : Line(b, used[i], a, shape) \in Seq(Lines(b)) BY <2>1, LineIs
    <2> HIDE DEF n
    <2>3. ss = [i \in 1..n |-> Line(b, used[i], a, shape)] BY <1>3
    <2> HIDE DEF ss
    <2> QED BY <2>2, <2>3
  <1> HIDE DEF ss
  <1>5. lines \in Seq(Lines(b)) BY <1>3, <1>4, FlatType
  <1> HIDE DEF lines
  <1>6. Sound(PriceLines(b, rule, a, lines, n)) BY <1>5, LinesPrice
  <1> QED BY <1>2, <1>6

\* What an asset costs is a number, or nothing is known of it (Estimate).
LEMMA EstimateSound ==
  ASSUME NEW b, HoldsNumbers(b), NEW a
  PROVE  Sound(Estimate(b, a))
  <1> DEFINE rule == b.rules[a.type]
             shape == ShapeOf(b, rule, a)
             e == Estimate(b, a)
             s == shape[1]
  <1>1. CASE a.type \notin DOMAIN b.rules BY <1>1, NoPrice DEF Estimate
  <1>2. CASE a.type \in DOMAIN b.rules
    <2>1. \/ e = [unknown EXCEPT !.basis = rule.basis]
          \/ e = [unknown EXCEPT !.basis = rule.else_basis]
          \/ e = unknown
          \/ shape # <<>> /\ e = PriceTerms(b, rule, a, s)
      BY <1>2, Zenon DEF Estimate
    <2>2. Terms(rule.terms) BY <1>2 DEF HoldsNumbers, Terms, Factors
    <2> HIDE DEF e, rule
    <2>3. shape # <<>> => Sized(s) BY ShapeIs
    <2> HIDE DEF s
    <2>4. shape # <<>> => Sound(PriceTerms(b, rule, a, s)) BY <2>2, <2>3, TermsPrice
    <2>5. Sound(e) BY <2>1, <2>4, NoPrice
    <2> QED BY <2>5 DEF e
  <1> QED BY <1>1, <1>2

\* The node's payload gives its capacity in numbers.
Capacious(a) == \A what \in {"cpu", "memory", "gpu"} : Capacity(a, what) \in Int

\* A node's instance type names a shape with its sizes, or none.
LEMMA FoundShape ==
  ASSUME NEW b, HoldsNumbers(b), NEW name
  PROVE  Sized(findShape(b, name))
  <1> DEFINE V == ToSet(Tables)
             with == Filter(Tables, LAMBDA t : name \in DOMAIN Get(b.shapes, t, Empty))
             I == {i \in DOMAIN Tables : name \in DOMAIN Get(b.shapes, Tables[i], Empty)}
  <1>1. findShape(b, name) = IF with = <<>> THEN noShape ELSE b.shapes[with[1]][name]
    BY Zenon DEF findShape
  <1>2. Tables \in Seq(V) BY NumbersAreRead DEF IsList
  <1>3. with = At(Tables, I) BY DEF Filter
  <1>4. \A i \in I : name \in DOMAIN Get(b.shapes, Tables[i], Empty) OBVIOUS
  <1> HIDE DEF V, with, I
  <1>5. with \in Seq(V) /\ ToSet(with) = {Tables[i] : i \in I \cap 1..Len(Tables)}
    BY <1>2, <1>3, AtElements
  <1>6. CASE with = <<>>
    <2>1. Sized(noShape) BY DEF Sized, noShape
    <2> QED BY <1>1, <1>6, <2>1
  <1>7. CASE with # <<>>
    <2>1. with[1] \in ToSet(with) BY <1>5, <1>7 DEF ToSet
    <2>2. PICK i \in I : with[1] = Tables[i] BY <1>5, <2>1
    <2>3. name \in DOMAIN Get(b.shapes, with[1], Empty) BY <1>4, <2>2
    <2>4. DOMAIN Empty = {} BY DEF Empty
    <2>5. with[1] \in DOMAIN b.shapes /\ name \in DOMAIN b.shapes[with[1]] BY <2>3, <2>4 DEF Get
    <2>6. Sized(b.shapes[with[1]][name]) BY <2>5 DEF HoldsNumbers, Sized
    <2> QED BY <1>1, <1>7, <2>6
  <1> QED BY <1>6, <1>7

\* So many units of a rate are a number.
LEMMA AmountIs ==
  ASSUME NEW b, HoldsNumbers(b), NEW id, NEW n \in Int
  PROVE  Amount(b, id, n) \in Int
  <1> DEFINE m == MonthlyAmount(b, b.rates[id])
  <1>1. id \in DOMAIN b.rates => m \in Int BY MonthlyIs
  <1>2. Amount(b, id, n) = IF id \in DOMAIN b.rates THEN n * m ELSE 0 BY DEF Amount
  <1> HIDE DEF m
  <1>3. m \in Int => n * m \in Int OBVIOUS
  <1> QED BY <1>1, <1>2, <1>3

\* What a node costs by its instance type, and by the book's fallback rates.
LEMMA NodeGuesses ==
  ASSUME NEW b, HoldsNumbers(b), NEW a, Capacious(a)
  PROVE  Sound(nodeFromShape(b, a)) /\ Sound(nodeFromFallback(b, a))
  <1>0. Sound(unknown) BY NoPrice
  <1>1. Sound(nodeFromShape(b, a))
    <2> DEFINE label == Tag(a, "node.kubernetes.io/instance-type")
               name == IF label # "" THEN label ELSE Tag(a, "beta.kubernetes.io/instance-type")
               shape == findShape(b, name)
               memory == IF Capacity(a, "memory") > 0 THEN Capacity(a, "memory")
                         ELSE shape.default_memory_gb
               x == Amount(b, shape.ocpu_rate, shape.default_ocpu)
               y == Amount(b, shape.memory_rate, memory)
               m == x + y
               c == CurrencyOf(b, b.rates[shape.ocpu_rate])
               w == "assumed"
               e == nodeFromShape(b, a)
    <2>1. e = unknown \/ e = Estimated(m, c, w) BY Zenon DEF nodeFromShape
    <2> HIDE DEF name, e, c, w
    <2>2. Sized(shape) BY FoundShape
    <2> HIDE DEF shape
    <2>3. memory \in Int BY <2>2 DEF Capacious, Sized
    <2> HIDE DEF memory
    <2>4. x \in Int BY <2>2, AmountIs DEF Sized
    <2>5. y \in Int BY <2>3, AmountIs
    <2> HIDE DEF x, y
    <2>6. m \in Int BY <2>4, <2>5
    <2> HIDE DEF m
    <2>7. Sound(Estimated(m, c, w)) BY <2>6, PriceIs
    <2> QED BY <1>0, <2>1, <2>7 DEF e
  <1>2. Sound(nodeFromFallback(b, a))
    <2> DEFINE x == Amount(b, "k8s.fallback.cpu", Capacity(a, "cpu"))
               y == Amount(b, "k8s.fallback.ram", Capacity(a, "memory"))
               z == Amount(b, "k8s.fallback.gpu", Capacity(a, "gpu"))
               m == x + y + z
               c == CurrencyOf(b, b.rates["k8s.fallback.cpu"])
               w == "assumed"
               e == nodeFromFallback(b, a)
    <2>1. e = unknown \/ e = Estimated(m, c, w) BY Zenon DEF nodeFromFallback
    <2> HIDE DEF e, c, w
    <2>2. Capacity(a, "cpu") \in Int /\ Capacity(a, "memory") \in Int /\ Capacity(a, "gpu") \in Int
      BY DEF Capacious
    <2>3. x \in Int /\ y \in Int /\ z \in Int BY <2>2, AmountIs
    <2> HIDE DEF x, y, z
    <2>4. m \in Int BY <2>3
    <2> HIDE DEF m
    <2>5. Sound(Estimated(m, c, w)) BY <2>4, PriceIs
    <2> QED BY <1>0, <2>1, <2>5 DEF e
  <1> QED BY <1>1, <1>2

\* The priced instances of a report that node a says it runs on.
MachineOf(assets, est, a) ==
  {i \in DOMAIN assets :
     /\ assets[i].type = "oci.compute.instance" /\ est[i].priced
     /\ Get(a.raw, "spec.providerID", "") \in DOMAIN InstanceIn
     /\ assets[i].id = InstanceIn[a.raw["spec.providerID"]]}

\* What a node costs is a number; it adds none to what its machine costs.
LEMMA NodePrice ==
  ASSUME NEW b, HoldsNumbers(b), NEW assets, NEW est, NEW a, Capacious(a)
  PROVE  /\ Sound(priceNode(b, assets, est, a).est)
         /\ MachineOf(assets, est, a) # {} => ~priceNode(b, assets, est, a).est.priced
  <1> DEFINE machine == {i \in indexPricedInstances(assets, est) :
                    <<assets[i].id>> = IF Get(a.raw, "spec.providerID", "") \in DOMAIN InstanceIn
                                       THEN <<InstanceIn[a.raw["spec.providerID"]]>> ELSE <<>>}
             e == est[Max(machine)]
             s == nodeFromShape(b, a)
             f == nodeFromFallback(b, a)
             gs == [source |-> "instance-type", est |-> s]
             gf == [source |-> "generic-fallback", est |-> f]
             Guesses == <<gs, gf>>
             Priceable == Filter(Guesses, LAMBDA g : g.est.priced)
             p == priceNode(b, assets, est, a)
             I == {i \in DOMAIN Guesses : Guesses[i].est.priced}
  <1>1. MachineOf(assets, est, a) = machine
    <2>1. \A i : i \in machine <=> i \in MachineOf(assets, est, a)
      <3> TAKE i
      <3> DEFINE x == assets[i].id
                 y == InstanceIn[a.raw["spec.providerID"]]
                 P == Get(a.raw, "spec.providerID", "") \in DOMAIN InstanceIn
      <3>1. (<<x>> = IF P THEN <<y>> ELSE <<>>) <=> P /\ x = y
        <4> HIDE DEF x, y, P
        <4> QED OBVIOUS
      <3>2. i \in machine <=> i \in DOMAIN assets /\ assets[i].type = "oci.compute.instance" /\ est[i].priced
                              /\ (<<x>> = IF P THEN <<y>> ELSE <<>>)
        BY DEF indexPricedInstances
      <3>3. i \in MachineOf(assets, est, a)
              <=> i \in DOMAIN assets /\ assets[i].type = "oci.compute.instance" /\ est[i].priced
                  /\ P /\ x = y
        BY DEF MachineOf
      <3> HIDE DEF x, y, P
      <3> QED BY <3>1, <3>2, <3>3
    <2> QED BY <2>1
  <1>2. p = IF machine # {} THEN [source |-> "oci-instance", est |-> nodeFromInstance(e)]
            ELSE IF Priceable # <<>> THEN Priceable[1] ELSE [source |-> "unpriced", est |-> unknown]
    BY Zenon DEF priceNode
  <1>3. Priceable = At(Guesses, I) BY DEF Filter
  <1> HIDE DEF Priceable, p, machine, e
  <1>4. CASE machine # {}
    <2> DEFINE n == nodeFromInstance(e)
               o == "oci-instance"
    <2>1. Sound(n) /\ ~n.priced BY AttributedIs DEF nodeFromInstance
    <2> HIDE DEF n
    <2>2. p = [source |-> o, est |-> n] BY <1>2, <1>4 DEF n
    <2>3. p.est = n BY <2>2
    <2> QED BY <1>1, <2>1, <2>3 DEF p
  <1>5. CASE machine = {} /\ Priceable # <<>>
    <2>1. Sound(s) /\ Sound(f) BY NodeGuesses
    <2> HIDE DEF s, f
    <2>2. Sound(gs.est) /\ Sound(gf.est) BY <2>1
    <2> HIDE DEF gs, gf, I
    <2>3. Guesses \in Seq({gs, gf}) OBVIOUS
    <2> HIDE DEF Guesses
    <2>4. Priceable \in Seq({gs, gf}) BY <1>3, <2>3, AtElements
    <2>5. Priceable[1] \in {gs, gf} BY <2>4, <1>5
    <2>6. p = Priceable[1] BY <1>2, <1>5
    <2>7. Sound(p.est) BY <2>2, <2>5, <2>6
    <2> QED BY <1>1, <1>5, <2>7 DEF p
  <1>6. CASE machine = {} /\ Priceable = <<>>
    <2> DEFINE o == "unpriced"
               u == unknown
    <2>1. Sound(u) BY NoPrice
    <2> HIDE DEF u
    <2>2. p = [source |-> o, est |-> u] BY <1>2, <1>6 DEF u
    <2>3. Sound(p.est) BY <2>1, <2>2
    <2> QED BY <1>1, <1>6, <2>3 DEF p
  <1> QED BY <1>4, <1>5, <1>6

\* What a pod is given of a node is not a price.
LEMMA PodPrice ==
  ASSUME NEW pod, NEW node, NEW est
  PROVE  Sound(attributePod(pod, node, est)) /\ ~attributePod(pod, node, est).priced
  <1> DEFINE requests == podRequests(pod)
             Share(what) == share(requests[what], Get(node.raw, "status.allocatable." \o what, 0))
             shares == Share("cpu") + Share("memory")
             n == (est.monthly * shares) \div 200
             w == weaker(est.basis, "inferred")
             p == attributePod(pod, node, est)
  <1>1. p = unknown \/ p = [AttributedFrom(est, n) EXCEPT !.basis = w] BY Zenon DEF attributePod
  <1> HIDE DEF n, w, p
  <1>2. Sound(p) /\ ~p.priced BY <1>1, NoPrice, AttributedIs
  <1> QED BY <1>2 DEF p

\* Lists that agree where they are picked from give the same.
LEMMA AtSame ==
  ASSUME NEW V, NEW s \in Seq(V), NEW t \in Seq(V), Len(s) = Len(t), NEW I,
         \A i \in I \cap 1..Len(s) : s[i] = t[i]
  PROVE  At(s, I) = At(t, I)
  <1> DEFINE n == Len(s)
  <1>1. PICK p \in [0..Len(s) -> Seq(V)] : Picked(p, s, I) BY PickedExists
  <1>2. PICK q \in [0..Len(t) -> Seq(V)] : Picked(q, t, I) BY PickedExists
  <1>3. /\ p[0] = <<>> /\ At(s, I) = p[n] /\ q[0] = <<>> /\ At(t, I) = q[n]
        /\ \A i \in 1..n : p[i] = IF i \in I THEN Append(p[i - 1], s[i]) ELSE p[i - 1]
        /\ \A i \in 1..n : q[i] = IF i \in I THEN Append(q[i - 1], t[i]) ELSE q[i - 1]
    BY <1>1, <1>2 DEF Picked
  <1> DEFINE S == {m \in Nat : m <= n => p[m] = q[m]}
  <1>4. n \in Nat OBVIOUS
  <1> HIDE DEF n
  <1>5. 0 \in S BY <1>3
  <1>6. ASSUME NEW m \in Nat, m \in S PROVE m + 1 \in S
    <2> SUFFICES ASSUME m + 1 <= n PROVE p[m + 1] = q[m + 1] OBVIOUS
    <2>1. m + 1 \in 1..n /\ (m + 1) - 1 = m /\ m <= n BY <1>4
    <2>2. p[m] = q[m] BY <1>6, <2>1
    <2>3. m + 1 \in I => s[m + 1] = t[m + 1] BY <2>1 DEF n
    <2>4. /\ p[m + 1] = IF m + 1 \in I THEN Append(p[m], s[m + 1]) ELSE p[m]
          /\ q[m + 1] = IF m + 1 \in I THEN Append(q[m], t[m + 1]) ELSE q[m]
      BY <1>3, <2>1
    <2> QED BY <2>2, <2>3, <2>4
  <1>7. p[n] = q[n]
    <2> HIDE DEF S
    <2>1. n \in S BY <1>4, <1>5, <1>6, Induct
    <2> QED BY <2>1, <1>4 DEF S
  <1> QED BY <1>3, <1>7

\* What the assets cost on their own.
AloneIn(b, assets) == Map(assets, LAMBDA a : Estimate(b, a))

\* Each is at its asset's position.
LEMMA AloneIs ==
  ASSUME NEW b, NEW A, NEW assets \in Seq(A)
  PROVE  \A i \in 1..Len(assets) : AloneIn(b, assets)[i] = Estimate(b, assets[i])
  <1> DEFINE t == [i \in DOMAIN assets |-> Estimate(b, assets[i])]
             n == Len(assets)
  <1>1. n \in Nat /\ DOMAIN assets = 1..n OBVIOUS
  <1>2. t = [i \in 1..n |-> Estimate(b, assets[i])] BY <1>1
  <1>3. AloneIn(b, assets) = t \o <<>> BY DEF AloneIn, Map
  <1> HIDE DEF t, n
  <1>4. t \in Seq({Estimate(b, assets[i]) : i \in 1..n}) BY <1>1, <1>2
  <1>5. t \o <<>> = t BY <1>4
  <1> QED BY <1>1, <1>2, <1>3, <1>5 DEF n

\* The estimates of a report: pods are not priced, nor are nodes with a machine
\* of the report, and every other asset costs what it costs on its own.
Repeats(b, assets, ests) ==
  \A i \in 1..Len(assets) :
    /\ Sound(ests[i])
    /\ assets[i].type = "v1.Pod" => ~ests[i].priced
    /\ assets[i].type = "v1.Node" /\ MachineOf(assets, AloneIn(b, assets), assets[i]) # {}
         => ~ests[i].priced
    /\ assets[i].type \notin {"v1.Pod", "v1.Node"} => ests[i] = AloneIn(b, assets)[i]

LEMMA EstimatesRepeat ==
  ASSUME NEW b, HoldsNumbers(b), NEW A, NEW assets \in Seq(A),
         \A i \in 1..Len(assets) : Capacious(assets[i]),
         NEW ests, ests = attributeKubernetes(b, assets)
  PROVE  /\ PricedInNumbers(Len(assets), ests, {ests[i] : i \in 1..Len(assets)})
         /\ Repeats(b, assets, ests)
  <1> DEFINE n == Len(assets)
             alone == AloneIn(b, assets)
             nodes == nodeEstimates(b, assets, alone)
             Pod(i) == LET on == NodeOf(assets, assets[i])
                       IN IF on = {} THEN unknown
                          ELSE attributePod(assets[i], assets[Max(on)], nodes[Max(on)])
  <1>1. n \in Nat /\ DOMAIN assets = 1..n OBVIOUS
  <1>2. \A i \in 1..n : alone[i] = Estimate(b, assets[i]) BY AloneIs
  <1>3. ests = [i \in DOMAIN assets |-> IF assets[i].type = "v1.Pod" THEN Pod(i) ELSE nodes[i]]
    BY Zenon DEF attributeKubernetes, podEstimates, AloneIn
  <1>4. nodes = [i \in DOMAIN assets |-> IF assets[i].type = "v1.Node"
                                          THEN priceNode(b, assets, alone, assets[i]).est ELSE alone[i]]
    BY DEF nodeEstimates
  <1>5. \A i : Sound(Pod(i)) /\ ~Pod(i).priced
    <2> TAKE i
    <2> DEFINE on == NodeOf(assets, assets[i])
               x == attributePod(assets[i], assets[Max(on)], nodes[Max(on)])
               y == Pod(i)
    <2>1. y = unknown \/ y = x BY Zenon
    <2>2. Sound(x) /\ ~x.priced BY PodPrice
    <2> HIDE DEF x, y
    <2>3. Sound(y) /\ ~y.priced BY <2>1, <2>2, NoPrice
    <2> QED BY <2>3 DEF y
  <1> HIDE DEF Pod, nodes, alone, n
  <1>6. ASSUME NEW i \in 1..n
        PROVE  /\ ests[i] = IF assets[i].type = "v1.Pod" THEN Pod(i) ELSE nodes[i]
               /\ nodes[i] = IF assets[i].type = "v1.Node"
                             THEN priceNode(b, assets, alone, assets[i]).est ELSE alone[i]
    BY <1>1, <1>3, <1>4
  <1>7. \A i \in 1..n : Sound(alone[i]) BY <1>2, EstimateSound
  <1>8. \A i \in 1..n : LET e == priceNode(b, assets, alone, assets[i]).est
                        IN Sound(e) /\ (MachineOf(assets, alone, assets[i]) # {} => ~e.priced)
    BY NodePrice DEF n
  <1>9. \A i \in 1..n :
          /\ Sound(ests[i])
          /\ assets[i].type = "v1.Pod" => ~ests[i].priced
          /\ assets[i].type = "v1.Node" /\ MachineOf(assets, alone, assets[i]) # {} => ~ests[i].priced
          /\ assets[i].type \notin {"v1.Pod", "v1.Node"} => ests[i] = alone[i]
    BY <1>5, <1>6, <1>7, <1>8
  <1>10. ests \in [1..n -> {ests[i] : i \in 1..n}] BY <1>1, <1>3
  <1>11. \A i \in 1..n : ests[i].priced => ests[i].monthly \in Int BY <1>9 DEF Sound
  <1> QED BY <1>9, <1>10, <1>11 DEF Repeats, PricedInNumbers, n, alone

\* The bill: what every asset costs on its own, and what the nodes cost that run
\* on no priced machine of the report.
BillOf(assets, alone, ests) ==
  [i \in DOMAIN assets |->
     IF assets[i].type = "v1.Node" /\ MachineOf(assets, alone, assets[i]) = {} THEN ests[i]
     ELSE IF assets[i].type \in {"v1.Node", "v1.Pod"} THEN unknown ELSE alone[i]]

\* What is priced in a report is what is on the bill.
LEMMA BillIs ==
  ASSUME NEW b, NEW A, NEW assets \in Seq(A), NEW ests,
         PricedInNumbers(Len(assets), ests, {ests[i] : i \in 1..Len(assets)}),
         Repeats(b, assets, ests)
  PROVE  Filter(BillOf(assets, AloneIn(b, assets), ests), LAMBDA e : e.priced)
           = Filter(ests, LAMBDA e : e.priced)
  <1> DEFINE n == Len(assets)
             alone == AloneIn(b, assets)
             bill == BillOf(assets, alone, ests)
             R == {ests[i] : i \in 1..n}
             Q == {bill[i] : i \in 1..n}
             V == R \cup Q
             I == {i \in DOMAIN bill : bill[i].priced}
             J == {i \in DOMAIN ests : ests[i].priced}
  <1>1. n \in Nat /\ DOMAIN assets = 1..n OBVIOUS
  <1>2. ests \in [1..n -> R] BY DEF PricedInNumbers
  <1>3. bill \in [1..n -> Q]
    <2>1. DOMAIN bill = 1..n /\ bill = [i \in DOMAIN bill |-> bill[i]] BY <1>1 DEF BillOf
    <2> HIDE DEF bill
    <2> QED BY <2>1
  <1>4. \A i \in 1..n : (bill[i].priced <=> ests[i].priced) /\ (ests[i].priced => bill[i] = ests[i])
    <2> TAKE i \in 1..n
    <2> DEFINE m == MachineOf(assets, alone, assets[i])
               y == assets[i].type
    <2>1. bill[i] = IF y = "v1.Node" /\ m = {} THEN ests[i]
                    ELSE IF y \in {"v1.Node", "v1.Pod"} THEN unknown ELSE alone[i]
      BY <1>1 DEF BillOf
    <2>2. /\ y = "v1.Pod" => ~ests[i].priced
          /\ y = "v1.Node" /\ m # {} => ~ests[i].priced
          /\ y \notin {"v1.Pod", "v1.Node"} => ests[i] = alone[i]
      BY DEF Repeats
    <2>3. ~unknown.priced BY NoPrice
    <2> HIDE DEF bill, m, y, alone
    <2>4. CASE y = "v1.Node" /\ m = {} BY <2>1, <2>4
    <2>5. CASE y = "v1.Node" /\ m # {}
      <3>1. bill[i] = unknown BY <2>1, <2>5
      <3> QED BY <2>2, <2>3, <2>5, <3>1
    <2>6. CASE y = "v1.Pod"
      <3>1. bill[i] = unknown BY <2>1, <2>6
      <3> QED BY <2>2, <2>3, <2>6, <3>1
    <2>7. CASE y \notin {"v1.Pod", "v1.Node"}
      <3>1. bill[i] = alone[i] BY <2>1, <2>7
      <3> QED BY <2>2, <2>7, <3>1
    <2> QED BY <2>4, <2>5, <2>6, <2>7
  <1> HIDE DEF bill, R, Q
  <1>5. bill \in [1..n -> V] /\ ests \in [1..n -> V] BY <1>2, <1>3
  <1>6. I = J BY <1>4, <1>5
  <1>7. \A i \in I \cap 1..n : bill[i] = ests[i] BY <1>4, <1>6
  <1> HIDE DEF V, I, J, n
  <1>8. bill \in Seq(V) /\ ests \in Seq(V) /\ Len(bill) = n /\ Len(ests) = n BY <1>1, <1>5
  <1>9. At(bill, I) = At(ests, I) BY <1>7, <1>8, AtSame
  <1> QED BY <1>6, <1>9 DEF Filter, I, J, bill

\* A cost report counts every machine once, and its groups add up to its totals.
CountsOnce(report, alone, assets) ==
  /\ report.totals.monthly = moneyBag(Filter(BillOf(assets, alone, report.estimates), LAMBDA e : e.priced))
  /\ AddsUp(report)

\* Every report does.
LEMMA ReportCountsOnce ==
  ASSUME NEW b, HoldsNumbers(b), NEW A, NEW assets \in Seq(A),
         \A i \in 1..Len(assets) : Capacious(assets[i]), NEW dim, NEW now,
         NEW report, report = Report(b, assets, dim, now)
  PROVE  CountsOnce(report, AloneIn(b, assets), assets)
  <1>1. PICK ests : ests = attributeKubernetes(b, assets) OBVIOUS
  <1>2. PICK alone : alone = AloneIn(b, assets) OBVIOUS
  <1>3. report = Reported(b, assets, dim, now, alone, ests) BY <1>1, <1>2 DEF Report, AloneIn
  <1>4. PricedInNumbers(Len(assets), ests, {ests[i] : i \in 1..Len(assets)}) /\ Repeats(b, assets, ests)
    BY <1>1, EstimatesRepeat
  <1> DEFINE bill == BillOf(assets, AloneIn(b, assets), ests)
  <1>5. Filter(bill, LAMBDA e : e.priced) = Filter(ests, LAMBDA e : e.priced) BY <1>4, BillIs
  <1>6. report.estimates = ests /\ report.totals = Tally(ests)
    <2>1. Grouped(report, assets, ests, dim) BY <1>3, GroupsAre
    <2> QED BY <2>1 DEF Grouped
  <1>7. Tally(ests).monthly = moneyBag(Filter(ests, LAMBDA e : e.priced)) BY DEF Tally
  <1> HIDE DEF bill
  <1>8. report.totals.monthly = moneyBag(Filter(bill, LAMBDA e : e.priced)) BY ONLY <1>5, <1>6, <1>7
  <1>9. AddsUp(report)
    <2> DEFINE V == {ests[i] : i \in 1..Len(assets)}
    <2>1. PricedInNumbers(Len(assets), ests, V) BY <1>4
    <2> HIDE DEF V
    <2> QED BY <1>3, <2>1, ReportAddsUp
  <1>10. BillOf(assets, AloneIn(b, assets), report.estimates) = bill BY <1>6 DEF bill
  <1> QED BY ONLY <1>8, <1>9, <1>10 DEF CountsOnce

-----------------------------------------------------------------------------
(* Spend is counted once.                                                  *)

\* What is collected gives the capacities of nodes in numbers: those of its
\* payload, or none without payloads.
LEMMA CollectedCapacities ==
  ASSUME CollectInv, NEW a \in Collectable PROVE Capacious(a)
  <1>1. PICK p \in DOMAIN estate : \E x \in ToSet(estate[p]) : a = AsCollected(x) BY DEF Collectable
  <1>2. PICK x \in ToSet(estate[p]) : a = AsCollected(x) BY <1>1
  <1>3. IsAsset(x) /\ \A what \in {"cpu", "memory", "gpu"} : Capacity(x, what) \in Int
    BY EstatesAreCollected, NumbersAreRead DEF CollectInv
  <1>4. CASE payload
    <2>1. a = x BY <1>2, <1>4 DEF AsCollected
    <2> QED BY <1>3, <2>1 DEF Capacious
  <1>5. CASE ~payload
    <2>1. a.raw = NoRaw BY <1>2, <1>3, <1>5 DEF AsCollected, IsAsset
    <2>2. DOMAIN NoRaw = {} BY DEF NoRaw
    <2>3. \A what : Capacity(a, what) = 0 BY <2>1, <2>2 DEF Capacity, Get
    <2> QED BY <2>3 DEF Capacious
  <1> QED BY <1>4, <1>5 DEF CollectInv

\* The report that ans holds of the assets got counts spend once.
Counted(ans, got) ==
  CountsOnce(ans.report, AloneIn(BookOf(ans.request), Slice(ans.request.filter, got)),
             Slice(ans.request.filter, got))

\* A cost report that was answered does.
CostIsCounted == answer.kind = "cost" => Counted(answer, collected)

\* Which is what the property says.
LEMMA SpendSays == SpendIsCountedOnce <=> CostIsCounted
  BY ZenonT(60) DEF SpendIsCountedOnce, CostIsCounted, Counted, CountsOnce, AddsUp, BillOf, MachineOf,
       AloneIn

\* A cost report that is answered counts spend once.
LEMMA SpendAnswered ==
  ASSUME CollectInv, NEW req \in Requests, Ask(req)
  PROVE  CostIsCounted'
  <1>1. /\ answer' = CASE req.command = "insights" -> insightsAnswer(req)
                        [] req.command = "cost" -> costAnswer(req)
                        [] req.command = "check" -> checkAnswer(req)
                        [] OTHER -> diffAnswer(req)
        /\ collected' = collected
    BY DEF Ask
  <1>2. req.command \in {"insights", "cost", "check", "diff"} BY RequestsAreParsed
  <1>3. CASE answer'.kind = "cost"
    <2> DEFINE b == BookOf(req)
               assets == Slice(req.filter, collected)
               dim == req.groupBy
               now == Today
    <2>1. req.command = "cost" /\ answer' = costAnswer(req) BY <1>1, <1>2, <1>3, Kinds
    <2>2. IsBook(b) /\ answer'.request = req /\ answer'.report = Report(b, assets, dim, now)
      BY <2>1, <1>3 DEF costAnswer, costPriced, Refused
    <2>3. HoldsNumbers(b) BY <2>1, <2>2, NumbersAreRead
    <2>4. assets \in Seq(Collectable)
      <3>1. collected \in Seq(Collectable) BY DEF CollectInv
      <3>2. assets = Keep(collected, {a \in Collectable : Match(req.filter, a)}) BY <3>1, SliceIs
      <3> QED BY <3>1, <3>2, KeepElements
    <2>5. \A i \in 1..Len(assets) : Capacious(assets[i]) BY <2>4, CollectedCapacities
    <2> HIDE DEF b, assets, dim, now
    <2>6. PICK report : report = Report(b, assets, dim, now) OBVIOUS
    <2>7. CountsOnce(report, AloneIn(b, assets), assets)
      BY ONLY <2>3, <2>4, <2>5, <2>6, ReportCountsOnce
    <2>8. answer'.report = report BY <2>2, <2>6
    <2>9. Counted(answer', collected')
      BY ONLY <1>1, <2>2, <2>7, <2>8 DEF Counted, b, assets
    <2> QED BY <2>9 DEF CostIsCounted
  <1>4. CASE answer'.kind # "cost" BY <1>4 DEF CostIsCounted
  <1> QED BY <1>3, <1>4

\* A cost report counts every machine once, whatever was collected, asked for and
\* priced by, and its groups add up to its totals (attributeKubernetes, Report).
THEOREM SpendCountedOnce == Spec => []SpendIsCountedOnce
  <1>1. Init => CollectInv /\ CostIsCounted
    <2>1. Init => answer.kind = "none" BY DEF Init, NoAnswer
    <2> QED BY <2>1, CollectStarts DEF CostIsCounted
  <1>2. CollectInv /\ CostIsCounted /\ [Next]_vars => (CollectInv /\ CostIsCounted)'
    <2> SUFFICES ASSUME CollectInv, CostIsCounted, [Next]_vars PROVE CostIsCounted'
      BY CollectSteps
    <2>1. ASSUME NEW p \in DOMAIN estate, NEW fails \in BOOLEAN, NEW n \in 0..Len(estate[p]),
                 Collect(p, n, fails)
          PROVE  CostIsCounted'
      <3>1. answer'.kind = "none" BY <2>1 DEF Collect, NoAnswer
      <3> QED BY <3>1 DEF CostIsCounted
    <2>2. ASSUME NEW req \in Requests, Ask(req) PROVE CostIsCounted'
      BY <2>2, SpendAnswered
    <2>3. CASE UNCHANGED vars
      <3>1. answer' = answer /\ collected' = collected BY <2>3 DEF vars
      <3>2. answer.kind = "cost" => Counted(answer, collected) BY DEF CostIsCounted
      <3>3. answer'.kind = "cost" => Counted(answer', collected') BY ONLY <3>1, <3>2
      <3> QED BY ONLY <3>3 DEF CostIsCounted
    <2> QED BY <2>1, <2>2, <2>3 DEF Next
  <1> QED BY <1>1, <1>2, SpendSays, PTL DEF Spec

-----------------------------------------------------------------------------
(* The rows of an insight make up its total.                               *)

\* What the positions in J cost.
SumAt(n, ests, J) == Total(Through(Keep(Positions(n), J), Amounts(n, ests)))

\* The positions that are priced.
PricedAt(n, ests) == {i \in 1..n : ests[i].priced}

\* That is a number, none for no position and the amount of the estimate for one.
LEMMA SumAtIs ==
  ASSUME NEW n \in Nat, NEW V, NEW ests, PricedInNumbers(n, ests, V), NEW J \in SUBSET (1..n)
  PROVE  /\ SumAt(n, ests, J) \in Int
         /\ J = {} => SumAt(n, ests, J) = 0
         /\ \A i \in PricedAt(n, ests) : SumAt(n, ests, {i}) = ests[i].monthly
  <1> DEFINE w == Amounts(n, ests)
             p == Positions(n)
  <1>1. w \in [1..n -> Int] /\ \A i \in PricedAt(n, ests) : w[i] = ests[i].monthly
    BY DEF Amounts, PricedInNumbers, PricedAt
  <1>2. p \in Seq(1..n) /\ ToSet(p) = 1..n /\ Len(p) = n /\ \A i \in 1..n : p[i] = i BY PositionsAre
  <1> HIDE DEF w, p
  <1>3. \A K \in SUBSET (1..n) : Keep(p, K) \in Seq(1..n) BY <1>2, KeepElements
  <1>4. Through(Keep(p, J), w) \in Seq(Int) BY <1>1, <1>3, ThroughType
  <1>5. SumAt(n, ests, J) \in Int BY <1>4, TotalType DEF SumAt, p, w
  <1>6. ASSUME J = {} PROVE SumAt(n, ests, J) = 0
    <2>1. Keep(p, J) = <<>> BY <1>2, <1>6, KeepNone
    <2>2. Through(<<>>, w) = <<>> BY ThroughEmpty
    <2>3. Total(<<>>) = 0
      <3>1. <<>> \in Seq(Int) /\ Len(<<>>) = 0 OBVIOUS
      <3> QED BY <3>1, TotalType
    <2> QED BY <2>1, <2>2, <2>3 DEF SumAt, p, w
  <1>7. ASSUME NEW i \in PricedAt(n, ests) PROVE SumAt(n, ests, {i}) = ests[i].monthly
    <2> DEFINE I == {k \in DOMAIN p : p[k] \in {i}}
    <2>1. i \in 1..n BY DEF PricedAt
    <2>2. I = {i} /\ I \cap 1..Len(p) = {i} BY <1>2, <2>1
    <2> HIDE DEF I
    <2>3. At(p, I) = <<p[i]>> BY <1>2, <2>1, <2>2, AtOne
    <2>4. Keep(p, {i}) = <<i>> BY <1>2, <2>1, <2>3 DEF Keep, I
    <2>5. <<i>> = Append(<<>>, i) /\ <<>> \in Seq(1..n) BY <2>1
    <2>6. Through(Append(<<>>, i), w) = Append(Through(<<>>, w), w[i]) BY <2>1, <2>5, ThroughAppend
    <2>7. Through(<<>>, w) = <<>> BY ThroughEmpty
    <2>8. <<>> \in Seq(Int) /\ Total(<<>>) = 0
      <3>1. <<>> \in Seq(Int) /\ Len(<<>>) = 0 OBVIOUS
      <3> QED BY <3>1, TotalType
    <2>9. w[i] \in Int /\ w[i] = ests[i].monthly BY <1>1, <1>7, <2>1
    <2>10. Total(Append(<<>>, w[i])) = 0 + w[i] BY <2>8, <2>9, TotalAppend
    <2>11. Through(Keep(p, {i}), w) = Append(<<>>, w[i]) BY <2>4, <2>5, <2>6, <2>7
    <2> QED BY <2>9, <2>10, <2>11 DEF SumAt, p, w
  <1> QED BY <1>5, <1>6, <1>7

\* All of the positions in J are in the currency c.
InCurrency(ests, J, c) == \A i \in J : CurrencyIn(ests[i]) = c

\* In one currency, the bag is what the positions cost.
LEMMA SpentIs ==
  ASSUME NEW n \in Nat, NEW ests, NEW J \in SUBSET (1..n), NEW c, InCurrency(ests, J, c)
  PROVE  Spent(n, ests, J, c) = SumAt(n, ests, J)
  <1>1. {i \in J : CurrencyIn(ests[i]) = c} = J BY DEF InCurrency
  <1> QED BY <1>1 DEF Spent, SumAt

\* A bag of one currency, as the total or the money of a row.
LEMMA OneCurrency ==
  ASSUME NEW n \in Nat, NEW ests, NEW J \in SUBSET (1..n), rowMoney(BagOf(n, ests, J)) # NoMoney
  PROVE  \E c : InCurrency(ests, J, c) /\ rowMoney(BagOf(n, ests, J)) = Cash(c, SumAt(n, ests, J))
  <1> DEFINE bag == BagOf(n, ests, J)
             D == {CurrencyIn(ests[i]) : i \in J}
  <1>1. DOMAIN bag = D /\ \A c \in D : bag[c] = Spent(n, ests, J, c) BY DEF BagOf
  <1>2. IsFiniteSet(D)
    <2>1. IsFiniteSet(1..n) BY FS_Interval
    <2>2. IsFiniteSet(J) BY <2>1, FS_Subset
    <2>3. [i \in J |-> CurrencyIn(ests[i])] \in Surjection(J, D) BY DEF Surjection
    <2> QED BY <2>2, <2>3, FS_Surjection
  <1> HIDE DEF bag
  <1>3. Cardinality(D) = 1
    <2> HIDE DEF D
    <2> QED BY <1>1 DEF rowMoney, bag
  <1>4. PICK c : D = {c}
    <2> HIDE DEF D
    <2> QED BY <1>2, <1>3, FS_Singleton
  <1>5. (CHOOSE x \in D : TRUE) = c BY <1>4
  <1>6. rowMoney(bag) = Cash(c, bag[c])
    <2> HIDE DEF D
    <2> QED BY <1>1, <1>3, <1>5 DEF rowMoney
  <1>7. InCurrency(ests, J, c) BY <1>4 DEF InCurrency
  <1>8. bag[c] = SumAt(n, ests, J) BY <1>1, <1>4, <1>7, SpentIs
  <1> QED BY <1>6, <1>7, <1>8 DEF bag

\* The money of positions that are all in one currency.
LEMMA GroupMoney ==
  ASSUME NEW n \in Nat, NEW V, NEW ests, PricedInNumbers(n, ests, V), NEW J \in SUBSET (1..n),
         NEW c, InCurrency(ests, J, c)
  PROVE  /\ rowMoney(BagOf(n, ests, J)).currency \in {"", c}
         /\ rowMoney(BagOf(n, ests, J)).amount = SumAt(n, ests, J)
  <1> DEFINE bag == BagOf(n, ests, J)
             D == {CurrencyIn(ests[i]) : i \in J}
  <1>1. DOMAIN bag = D /\ \A d \in D : bag[d] = Spent(n, ests, J, d) BY DEF BagOf
  <1> HIDE DEF bag
  <1>2. CASE J = {}
    <2>1. Cardinality(DOMAIN bag) = 0
      <3>1. DOMAIN bag = {} BY <1>1, <1>2
      <3> QED BY <3>1, FS_EmptySet
    <2>2. rowMoney(bag) = NoMoney BY <2>1 DEF rowMoney
    <2>3. NoMoney.currency = "" /\ NoMoney.amount = 0 BY DEF NoMoney, Cash
    <2> QED BY <1>2, <2>2, <2>3, SumAtIs DEF bag
  <1>3. CASE J # {}
    <2>1. D = {c} BY <1>3 DEF InCurrency
    <2>2. Cardinality(DOMAIN bag) = 1 /\ (CHOOSE x \in DOMAIN bag : TRUE) = c
      BY <1>1, <2>1, FS_Singleton
    <2>3. rowMoney(bag) = Cash(c, bag[c]) BY <2>2 DEF rowMoney
    <2>4. bag[c] = SumAt(n, ests, J) BY <1>1, <2>1, SpentIs
    <2>5. \A m : Cash(c, m).currency = c /\ Cash(c, m).amount = m BY DEF Cash
    <2> QED BY <2>3, <2>4, <2>5 DEF bag
  <1> QED BY <1>2, <1>3

\* The rows that the positions in J belong to make up what these cost.
LEMMA RowsAddUp ==
  ASSUME NEW n \in Nat, NEW V, NEW ests, PricedInNumbers(n, ests, V), NEW J \in SUBSET (1..n),
         NEW rows, IsFiniteSet(rows), NEW of \in [J -> rows],
         \A r \in rows : r.money.amount = SumAt(n, ests, {x \in J : of[x] = r})
  PROVE  SumOf(SetToSeq(rows), LAMBDA r : r.money.amount) = SumAt(n, ests, J)
  <1> DEFINE p == Positions(n)
             s == Keep(p, J)
             w == [x \in J |-> Amounts(n, ests)[x]]
             q == SetToSeq(rows)
             C(r) == {x \in J : of[x] = r}
             t == [i \in 1..Len(q) |-> Total(Through(Keep(s, C(q[i])), w))]
             m == Map(q, LAMBDA r : r.money.amount)
  <1>1. Amounts(n, ests) \in [1..n -> Int] BY DEF Amounts, PricedInNumbers
  <1>2. w \in [J -> Int] /\ \A x \in J : w[x] = Amounts(n, ests)[x] BY <1>1
  <1> HIDE DEF w
  <1>3. p \in Seq(1..n) /\ ToSet(p) = 1..n BY PositionsAre
  <1> HIDE DEF p
  <1>4. s \in Seq(1..n) /\ ToSet(s) = J
    <2>1. ToSet(s) = ToSet(p) \cap J /\ s \in Seq(1..n) BY <1>3, KeepElements
    <2> HIDE DEF s
    <2> QED BY <2>1, <1>3
  <1>5. s \in Seq(J)
    <2> HIDE DEF s
    <2>1. \A i \in 1..Len(s) : s[i] \in J BY <1>4 DEF ToSet
    <2> QED BY <2>1, <1>4
  <1>6. ASSUME NEW K \in SUBSET J PROVE Through(Keep(p, K), w) = Through(Keep(p, K), Amounts(n, ests))
    <2> DEFINE k == Keep(p, K)
    <2>1. k \in Seq(1..n) /\ ToSet(k) = ToSet(p) \cap K BY <1>3, KeepElements
    <2> HIDE DEF k
    <2>2. \A i \in DOMAIN k : k[i] \in J BY <2>1, <1>3 DEF ToSet
    <2>3. [i \in DOMAIN k |-> w[k[i]]] = [i \in DOMAIN k |-> Amounts(n, ests)[k[i]]]
      BY <2>2, <1>2
    <2> QED BY <2>3 DEF Through, Map, k
  <1>7. \A r : C(r) \in SUBSET J OBVIOUS
  <1>8. \A r : Keep(s, C(r)) = Keep(p, C(r))
    <2> TAKE r
    <2>1. J \cap C(r) = C(r) OBVIOUS
    <2> HIDE DEF C
    <2> QED BY <2>1, <1>3, KeepKeep
  <1>9. q \in Seq(rows) /\ Len(q) \in Nat BY SetToSeqLists
  <1> HIDE DEF q
  <1>10. \A i \in 1..Len(q) : t[i] = q[i].money.amount
    <2> TAKE i \in 1..Len(q)
    <2>1. q[i] \in rows BY <1>9
    <2>2. t[i] = Total(Through(Keep(p, C(q[i])), Amounts(n, ests)))
      <3> HIDE DEF C, s
      <3> QED BY <1>6, <1>7, <1>8
    <2> QED BY <2>1, <2>2 DEF SumAt, p
  <1>11. AmountsOf(t, s, J, of, rows, w) BY <1>2 DEF AmountsOf, q
  <1> HIDE DEF C, s
  <1>12. t \in Seq(Int) /\ Total(t) = Total(Through(s, w))
    <2> HIDE DEF t
    <2> QED BY <1>5, <1>11, AmountsMakeUp
  <1>13. m = t
    <2>1. DOMAIN q = 1..Len(q) BY <1>9
    <2>2. [i \in DOMAIN q |-> q[i].money.amount] = t BY <1>10, <2>1
    <2>3. m = t \o <<>> BY <2>2 DEF Map
    <2> HIDE DEF m, t
    <2> QED BY <2>3, <1>12
  <1>14. SumOf(q, LAMBDA r : r.money.amount) = Total(m) BY DEF SumOf
  <1> HIDE DEF m, t
  <1>15. Total(Through(s, w)) = SumAt(n, ests, J) BY <1>6 DEF SumAt, s, p
  <1> QED BY <1>12, <1>13, <1>14, <1>15 DEF q

\* The rows make up the total, in its currency (RowsMakeUpTheTotal).
MadeUp(f) ==
  f.total # NoMoney /\ f.rows # {} =>
    /\ \A r \in f.rows : r.money.currency \in {"", f.total.currency}
    /\ f.total.amount = SumOf(SetToSeq(f.rows), LAMBDA r : r.money.amount)

\* They do when the total is the bag of the positions J, each of which belongs to a row
\* that holds what its positions cost.
LEMMA TotalledMadeUp ==
  ASSUME NEW n \in Nat, NEW V, NEW ests, PricedInNumbers(n, ests, V), NEW J \in SUBSET (1..n),
         NEW rows, IsFiniteSet(rows), NEW of \in [J -> rows],
         \A c : InCurrency(ests, J, c) =>
           \A r \in rows : /\ r.money.currency \in {"", c}
                           /\ r.money.amount = SumAt(n, ests, {x \in J : of[x] = r}),
         NEW id, NEW severity, NEW count, NEW facts, NEW caveats
  PROVE  MadeUp(Totalled(Finding(id, severity, count, facts, rows, caveats), BagOf(n, ests, J)))
  <1> DEFINE bag == BagOf(n, ests, J)
             f == Totalled(Finding(id, severity, count, facts, rows, caveats), bag)
  <1>1. f.total = totalOf(bag) /\ f.rows = rows
    <2> HIDE DEF bag
    <2> QED BY DEF Totalled, Finding
  <1> HIDE DEF f
  <1>2. ASSUME f.total # NoMoney
        PROVE  /\ \A r \in f.rows : r.money.currency \in {"", f.total.currency}
               /\ f.total.amount = SumOf(SetToSeq(f.rows), LAMBDA r : r.money.amount)
    <2>1. f.total = rowMoney(bag) /\ rowMoney(bag) # NoMoney BY <1>1, <1>2 DEF totalOf
    <2>2. PICK c : InCurrency(ests, J, c) /\ rowMoney(bag) = Cash(c, SumAt(n, ests, J))
      <3>1. n \in Nat /\ J \in SUBSET (1..n) OBVIOUS
      <3>2. rowMoney(BagOf(n, ests, J)) # NoMoney BY <2>1
      <3> QED BY ONLY <3>1, <3>2, OneCurrency
    <2> HIDE DEF bag
    <2>3. f.total.currency = c /\ f.total.amount = SumAt(n, ests, J)
      <3>1. \A m : Cash(c, m).currency = c /\ Cash(c, m).amount = m BY DEF Cash
      <3>2. f.total = Cash(c, SumAt(n, ests, J)) BY <2>1, <2>2, Zenon
      <3> QED BY ONLY <3>1, <3>2
    <2>4. \A r \in rows : /\ r.money.currency \in {"", c}
                          /\ r.money.amount = SumAt(n, ests, {x \in J : of[x] = r})
      BY <2>2
    <2>5. SumOf(SetToSeq(rows), LAMBDA r : r.money.amount) = SumAt(n, ests, J)
      <3>1. \A r \in rows : r.money.amount = SumAt(n, ests, {x \in J : of[x] = r}) BY <2>4
      <3>2. n \in Nat /\ J \in SUBSET (1..n) /\ PricedInNumbers(n, ests, V)
            /\ IsFiniteSet(rows) /\ of \in [J -> rows]
        OBVIOUS
      <3> QED BY ONLY <3>1, <3>2, RowsAddUp
    <2> QED BY <1>1, <2>3, <2>4, <2>5
  <1>3. MadeUp(f)
    <2> DEFINE sum == SumOf(SetToSeq(f.rows), LAMBDA r : r.money.amount)
    <2>1. f.total # NoMoney =>
            /\ \A r \in f.rows : r.money.currency \in {"", f.total.currency}
            /\ f.total.amount = sum
      BY <1>2
    <2>2. MadeUp(f) <=> (f.total # NoMoney /\ f.rows # {} =>
            /\ \A r \in f.rows : r.money.currency \in {"", f.total.currency}
            /\ f.total.amount = sum)
      BY Zenon DEF MadeUp
    <2> HIDE DEF sum
    <2> QED BY <2>1, <2>2, Zenon
  <1> QED BY <1>3 DEF f

-----------------------------------------------------------------------------
(* Lists of what assets cost.                                              *)

\* An input whose prices are numbers, of assets with an identity each.
MoneyInput(in) ==
  /\ IsList(in.assets)
  /\ PricedInNumbers(Len(in.assets), in.prices, ToSet(in.prices))
  /\ \A i \in 1..Len(in.assets) : in.prices[i].priced => Priced(in)
  /\ UniqueIdentities(in.assets)

ItemSet(in) == {SpendItems(in)[i] : i \in 1..Len(in.assets)}

\* The items at the positions in K.
ItemsAt(in, K) == Through(Keep(Positions(Len(in.assets)), K), SpendItems(in))

\* The positions that are priced.
Payable(in) == PricedAt(Len(in.assets), in.prices)

\* What an item is; no two are the same.
LEMMA ItemIs ==
  ASSUME NEW in, MoneyInput(in)
  PROVE  /\ Len(in.assets) \in Nat /\ DOMAIN in.assets = 1..Len(in.assets)
         /\ Payable(in) \in SUBSET (1..Len(in.assets))
         /\ SpendItems(in) \in [1..Len(in.assets) -> ItemSet(in)]
         /\ \A i \in 1..Len(in.assets) :
              /\ SpendItems(in)[i].asset = in.assets[i] /\ SpendItems(in)[i].est = in.prices[i]
              /\ in.prices[i].priced =>
                   SpendItems(in)[i].money[1] = Cash(in.prices[i].currency, in.prices[i].monthly)
         /\ \A i, j \in 1..Len(in.assets) :
              nodeKey(SpendItems(in)[i].asset) = nodeKey(SpendItems(in)[j].asset) => i = j
  <1> DEFINE n == Len(in.assets)
  <1>1. n \in Nat /\ DOMAIN in.assets = 1..n BY DEF MoneyInput, IsList
  <1>2. Payable(in) \in SUBSET (1..n) BY DEF Payable, PricedAt
  <1>3. SpendItems(in) \in [1..n -> ItemSet(in)] BY <1>1 DEF SpendItems, ItemSet
  <1>4. ASSUME NEW i \in 1..n
        PROVE  /\ SpendItems(in)[i].asset = in.assets[i] /\ SpendItems(in)[i].est = in.prices[i]
               /\ in.prices[i].priced =>
                    SpendItems(in)[i].money[1] = Cash(in.prices[i].currency, in.prices[i].monthly)
    <2>1. SpendItems(in)[i]
            = [asset |-> in.assets[i], est |-> in.prices[i], money |-> Monthly(in, in.prices[i])]
      BY <1>1 DEF SpendItems
    <2>2. in.prices[i].priced => Monthly(in, in.prices[i])
                                   = <<Cash(in.prices[i].currency, in.prices[i].monthly)>>
      BY DEF MoneyInput, Monthly
    <2> QED BY <2>1, <2>2
  <1>5. \A i, j \in 1..n : nodeKey(in.assets[i]) = nodeKey(in.assets[j]) => i = j
    BY <1>1 DEF MoneyInput, UniqueIdentities
  <1> HIDE DEF n
  <1>6. \A i, j \in 1..n : nodeKey(SpendItems(in)[i].asset) = nodeKey(SpendItems(in)[j].asset) => i = j
    BY <1>4, <1>5, Zenon
  <1> QED BY <1>1, <1>2, <1>3, <1>4, <1>6 DEF n

\* All items are those at all positions.
LEMMA AllItems ==
  ASSUME NEW in, MoneyInput(in)
  PROVE  SpendItems(in) = ItemsAt(in, 1..Len(in.assets))
  <1> DEFINE n == Len(in.assets)
             p == Positions(n)
             items == SpendItems(in)
             t == Through(p, items)
  <1>1. n \in Nat /\ items \in [1..n -> ItemSet(in)] BY ItemIs
  <1>2. p \in Seq(1..n) /\ ToSet(p) = 1..n /\ Len(p) = n /\ \A i \in 1..n : p[i] = i
    BY <1>1, PositionsAre
  <1> HIDE DEF n, p, items
  <1>3. Keep(p, 1..n) = p BY <1>2, KeepAll
  <1>4. MadeOf(t, p, items) /\ t \in Seq(ItemSet(in)) BY <1>1, <1>2, ThroughIs, ThroughType
  <1> HIDE DEF t
  <1>5. Len(t) = n /\ \A i \in 1..n : t[i] = items[i] BY <1>2, <1>4 DEF MadeOf
  <1>6. t = items BY <1>1, <1>4, <1>5
  <1> QED BY <1>3, <1>6 DEF t, ItemsAt, n, p, items

\* The elements of such a list.
LEMMA ItemsElements ==
  ASSUME NEW in, MoneyInput(in), NEW K \in SUBSET (1..Len(in.assets))
  PROVE  /\ ItemsAt(in, K) \in Seq(ItemSet(in)) /\ IsList(ItemsAt(in, K))
         /\ ToSet(ItemsAt(in, K)) = {SpendItems(in)[i] : i \in K}
  <1> DEFINE n == Len(in.assets)
             p == Positions(n)
             items == SpendItems(in)
             k == Keep(p, K)
             t == Through(k, items)
  <1>1. n \in Nat /\ items \in [1..n -> ItemSet(in)] BY ItemIs
  <1>2. p \in Seq(1..n) /\ ToSet(p) = 1..n BY <1>1, PositionsAre
  <1>0. K \subseteq 1..n OBVIOUS
  <1> HIDE DEF n, p, items
  <1>3. k \in Seq(1..n) /\ ToSet(k) = ToSet(p) \cap K BY <1>2, KeepElements
  <1>4. ToSet(k) = K BY <1>0, <1>2, <1>3
  <1> HIDE DEF k
  <1>5. MadeOf(t, k, items) /\ t \in Seq(ItemSet(in)) BY <1>1, <1>3, ThroughIs, ThroughType
  <1> HIDE DEF t
  <1>6. ToSet(t) = {t[i] : i \in 1..Len(t)} /\ K = {k[i] : i \in 1..Len(k)}
    BY <1>3, <1>4, <1>5 DEF ToSet
  <1>7. ToSet(t) = {items[i] : i \in K}
    <2>1. \A i \in 1..Len(k) : t[i] = items[k[i]] BY <1>5 DEF MadeOf
    <2>2. Len(t) = Len(k) BY <1>5 DEF MadeOf
    <2>3. ToSet(t) = {items[k[i]] : i \in 1..Len(k)} BY ONLY <1>6, <2>1, <2>2
    <2> QED BY ONLY <1>6, <2>3
  <1>8. t \in Seq(ToSet(t)) BY <1>5 DEF ToSet
  <1> QED BY <1>5, <1>7, <1>8 DEF IsList, t, k, p, n, items, ItemsAt

\* What is kept of such a list.
LEMMA ItemsKept ==
  ASSUME NEW in, MoneyInput(in), NEW K \in SUBSET (1..Len(in.assets)), NEW B
  PROVE  Keep(ItemsAt(in, K), B) = ItemsAt(in, {i \in K : SpendItems(in)[i] \in B})
  <1> DEFINE n == Len(in.assets)
             items == SpendItems(in)
  <1>1. n \in Nat /\ items \in [1..n -> ItemSet(in)] /\ K \in SUBSET (1..n) BY ItemIs
  <1> HIDE DEF n, items
  <1> DEFINE V == ItemSet(in)
  <1>2. items \in [1..n -> V] BY <1>1
  <1> HIDE DEF V
  <1>3. \A C : Keep(Through(Keep(Positions(n), K), items), C)
                 = Through(Keep(Positions(n), {i \in K : items[i] \in C}), items)
    BY <1>1, <1>2, KeptAt
  <1> QED BY <1>3 DEF ItemsAt, n, items

\* The money of such a list.
LEMMA ItemsCost ==
  ASSUME NEW in, MoneyInput(in), NEW K \in SUBSET (1..Len(in.assets))
  PROVE  spendBag(ItemsAt(in, K)) = BagOf(Len(in.assets), in.prices, K \cap Payable(in))
  <1> DEFINE n == Len(in.assets)
             p == Positions(n)
             items == SpendItems(in)
             J == K \cap Payable(in)
             B == {x \in ItemSet(in) : x.est.priced}
             k == Keep(p, J)
             s == Through(k, items)
             t == Through(k, in.prices)
             m == Map(s, LAMBDA x : x.est)
  <1>1. n \in Nat /\ items \in [1..n -> ItemSet(in)] /\ \A i \in 1..n : items[i].est = in.prices[i]
    BY ItemIs
  <1>0. K \in SUBSET (1..n) /\ J \in SUBSET (1..n) /\ \A i \in J : in.prices[i].priced
    BY DEF Payable, PricedAt
  <1>2. PricedInNumbers(n, in.prices, ToSet(in.prices)) BY DEF MoneyInput
  <1>3. {i \in K : items[i] \in B} = J BY <1>0, <1>1 DEF Payable, PricedAt
  <1> HIDE DEF B
  <1>4. Keep(ItemsAt(in, K), B) = s
    <2>1. Keep(ItemsAt(in, K), B) = ItemsAt(in, J) BY <1>3, ItemsKept
    <2> QED BY <2>1 DEF ItemsAt
  <1>5. Filter(ItemsAt(in, K), LAMBDA x : x.est.priced) = Keep(ItemsAt(in, K), B)
    <2> DEFINE l == ItemsAt(in, K)
    <2>1. l \in Seq(ItemSet(in)) BY ItemsElements
    <2> HIDE DEF l
    <2>2. \A i \in DOMAIN l : l[i] \in ItemSet(in) BY <2>1
    <2>3. {i \in DOMAIN l : l[i].est.priced} = {i \in DOMAIN l : l[i] \in B} BY <2>2 DEF B
    <2>4. Filter(l, LAMBDA x : x.est.priced) = Keep(l, B) BY <2>3 DEF Filter, Keep
    <2> QED BY <2>4 DEF l
  <1>6. p \in Seq(1..n) BY <1>1, PositionsAre
  <1> HIDE DEF p, n, items, J
  <1>7. k \in Seq(1..n) BY <1>6, KeepElements
  <1> HIDE DEF k
  <1>8. MadeOf(s, k, items) /\ s \in Seq(ItemSet(in)) BY <1>1, <1>7, ThroughIs, ThroughType
  <1>9. MadeOf(t, k, in.prices) /\ t \in Seq({in.prices[i] : i \in 1..n}) BY <1>7, ThroughIs
  <1> HIDE DEF s, t
  <1>10. m = t
    <2>1. DOMAIN s = 1..Len(k) /\ DOMAIN t = 1..Len(k) /\ t = [i \in 1..Len(k) |-> t[i]]
      BY <1>8, <1>9 DEF MadeOf
    <2>2. \A i \in 1..Len(k) : s[i].est = t[i]
      <3> TAKE i \in 1..Len(k)
      <3>1. k[i] \in 1..n
        <4>1. i \in 1..Len(k) OBVIOUS
        <4> QED BY ONLY <4>1, <1>1, <1>7
      <3> QED BY <3>1, <1>1, <1>8, <1>9 DEF MadeOf
    <2>3. [i \in DOMAIN s |-> s[i].est] = t BY ONLY <2>1, <2>2
    <2>4. m = t \o <<>> BY <2>3 DEF Map
    <2> HIDE DEF m
    <2> QED BY <2>4, <1>9
  <1>11. moneyBag(t) = BagOf(n, in.prices, J) BY <1>0, <1>1, <1>2, BagIs DEF t, k, p
  <1>12. spendBag(ItemsAt(in, K)) = moneyBag(m) BY <1>4, <1>5 DEF spendBag
  <1> HIDE DEF m
  <1> QED BY <1>10, <1>11, <1>12 DEF n, J

\* A total over a row per item: the rows are the items', the total is their bag.
LEMMA ItemRowsMadeUp ==
  ASSUME NEW in, MoneyInput(in), NEW K \in SUBSET Payable(in),
         NEW id, NEW severity, NEW count, NEW facts, NEW caveats
  PROVE  MadeUp(Totalled(Finding(id, severity, count, facts,
                                 {ItemRow(i) : i \in ToSet(ItemsAt(in, K))}, caveats),
                         spendBag(ItemsAt(in, K))))
  <1> DEFINE n == Len(in.assets)
             items == SpendItems(in)
             ests == in.prices
             V == ToSet(ests)
             of == [x \in K |-> ItemRow(items[x])]
             rows == {of[x] : x \in K}
  <1>1. /\ n \in Nat /\ K \in SUBSET (1..n) /\ K \cap Payable(in) = K /\ K \subseteq PricedAt(n, ests)
        /\ PricedInNumbers(n, ests, V)
    BY ItemIs DEF Payable, MoneyInput
  <1>2. ASSUME NEW x \in K
        PROVE  /\ of[x].money = Cash(ests[x].currency, ests[x].monthly)
               /\ of[x].subject = nodeKey(items[x].asset)
    <2>1. ests[x].priced /\ x \in 1..n BY <1>1 DEF PricedAt
    <2>2. items[x].money[1] = Cash(ests[x].currency, ests[x].monthly) BY <2>1, ItemIs
    <2> DEFINE k == nodeKey(items[x].asset)
               c == items[x].money[1]
    <2>3. of[x] = MoneyRow(k, {}, 0, c) BY DEF ItemRow
    <2> HIDE DEF k, c, of
    <2>4. of[x].money = c /\ of[x].subject = k BY <2>3 DEF MoneyRow, Row
    <2> QED BY <2>2, <2>4 DEF k, c
  <1>3. ASSUME NEW x \in K, NEW y \in K, of[x] = of[y] PROVE x = y
    <2>1. nodeKey(items[x].asset) = nodeKey(items[y].asset) BY <1>2, <1>3
    <2>2. x \in 1..n /\ y \in 1..n BY <1>1
    <2> QED BY <2>1, <2>2, ItemIs
  <1>4. {ItemRow(i) : i \in ToSet(ItemsAt(in, K))} = rows
    <2>1. ToSet(ItemsAt(in, K)) = {items[i] : i \in K} BY <1>1, ItemsElements
    <2> HIDE DEF items
    <2> QED BY <2>1
  <1>5. IsFiniteSet(rows)
    <2>1. IsFiniteSet(1..n) BY <1>1, FS_Interval
    <2>2. IsFiniteSet(K) BY <1>1, <2>1, FS_Subset
    <2>3. of \in Surjection(K, rows) BY DEF Surjection
    <2> HIDE DEF of, rows
    <2> QED BY <2>2, <2>3, FS_Surjection
  <1>6. of \in [K -> rows] OBVIOUS
  <1>7. ASSUME NEW c, InCurrency(ests, K, c), NEW r \in rows
        PROVE  /\ r.money.currency \in {"", c}
               /\ r.money.amount = SumAt(n, ests, {x \in K : of[x] = r})
    <2>1. PICK x \in K : r = of[x] OBVIOUS
    <2>2. {y \in K : of[y] = r} = {x} BY <1>3, <2>1
    <2>3. CurrencyIn(ests[x]) = c BY <1>7 DEF InCurrency
    <2>4. ests[x].currency \in {"", c} BY <2>3 DEF CurrencyIn
    <2>5. \A d, m : Cash(d, m).currency = d /\ Cash(d, m).amount = m BY DEF Cash
    <2>6. SumAt(n, ests, {x}) = ests[x].monthly BY <1>1, SumAtIs
    <2>7. r.money = Cash(ests[x].currency, ests[x].monthly) BY <1>2, <2>1
    <2>8. r.money.currency = ests[x].currency /\ r.money.amount = ests[x].monthly
      BY ONLY <2>5, <2>7
    <2> QED BY ONLY <2>2, <2>4, <2>6, <2>8
  <1>8. spendBag(ItemsAt(in, K)) = BagOf(n, ests, K) BY <1>1, ItemsCost
  <1> HIDE DEF n, items, ests, V, of, rows
  <1>9. MadeUp(Totalled(Finding(id, severity, count, facts, rows, caveats), BagOf(n, ests, K)))
    BY ONLY <1>1, <1>5, <1>6, <1>7, TotalledMadeUp
  <1> QED BY <1>4, <1>8, <1>9

\* The labels of the positions in K, and those with the label g.
Labels(lab, K) == {lab[i] : i \in K}
Labelled(lab, K, g) == {i \in K : lab[i] = g}

\* A total over a row per group: each row has what its group costs.
LEMMA GroupRowsMadeUp ==
  ASSUME NEW in, MoneyInput(in), NEW K \in SUBSET (1..Len(in.assets)),
         NEW lab, NEW rw, \A g, h \in Labels(lab, K) : rw[g] = rw[h] => g = h,
         \A g \in Labels(lab, K) : rw[g].money = rowMoney(spendBag(ItemsAt(in, Labelled(lab, K, g)))),
         NEW id, NEW severity, NEW count, NEW facts, NEW caveats
  PROVE  MadeUp(Totalled(Finding(id, severity, count, facts, {rw[g] : g \in Labels(lab, K)}, caveats),
                         spendBag(ItemsAt(in, K))))
  <1> DEFINE n == Len(in.assets)
             ests == in.prices
             V == ToSet(ests)
             J == K \cap Payable(in)
             D == Labels(lab, K)
             of == [x \in J |-> rw[lab[x]]]
             rows == {rw[g] : g \in D}
             G(g) == Labelled(lab, K, g) \cap Payable(in)
  <1>1. n \in Nat /\ K \in SUBSET (1..n) /\ J \in SUBSET (1..n) /\ PricedInNumbers(n, ests, V)
    BY ItemIs DEF MoneyInput
  <1>2. of \in [J -> rows] BY DEF Labels
  <1>3. IsFiniteSet(rows)
    <2>1. [i \in K |-> rw[lab[i]]] \in Surjection(K, rows) BY DEF Surjection, Labels
    <2>2. IsFiniteSet(1..n) BY <1>1, FS_Interval
    <2>3. IsFiniteSet(K) BY <1>1, <2>2, FS_Subset
    <2> HIDE DEF rows
    <2> QED BY <2>1, <2>3, FS_Surjection
  <1>4. \A g \in D : rw[g].money = rowMoney(BagOf(n, ests, G(g)))
    <2> TAKE g \in D
    <2>1. Labelled(lab, K, g) \in SUBSET (1..n) BY <1>1 DEF Labelled
    <2>2. spendBag(ItemsAt(in, Labelled(lab, K, g))) = BagOf(n, ests, G(g)) BY <2>1, ItemsCost
    <2>3. rw[g].money = rowMoney(spendBag(ItemsAt(in, Labelled(lab, K, g)))) OBVIOUS
    <2> QED BY <2>2, <2>3, Zenon
  <1>5. ASSUME NEW c, InCurrency(ests, J, c), NEW r \in rows
        PROVE  /\ r.money.currency \in {"", c}
               /\ r.money.amount = SumAt(n, ests, {x \in J : of[x] = r})
    <2>1. PICK g \in D : r = rw[g] OBVIOUS
    <2>2. {x \in J : of[x] = r} = G(g) BY <2>1 DEF Labelled, Labels
    <2>3. G(g) \in SUBSET (1..n) /\ InCurrency(ests, G(g), c) BY <1>1, <1>5 DEF Labelled, InCurrency
    <2>4. r.money = rowMoney(BagOf(n, ests, G(g))) BY <1>4, <2>1
    <2> HIDE DEF n, ests, V, J, D, of, rows, G
    <2>5. /\ rowMoney(BagOf(n, ests, G(g))).currency \in {"", c}
          /\ rowMoney(BagOf(n, ests, G(g))).amount = SumAt(n, ests, G(g))
      BY ONLY <1>1, <2>3, GroupMoney
    <2> QED BY ONLY <2>2, <2>4, <2>5
  <1>6. spendBag(ItemsAt(in, K)) = BagOf(n, ests, J) BY <1>1, ItemsCost
  <1> HIDE DEF n, ests, V, J, D, of, rows, G
  <1>7. MadeUp(Totalled(Finding(id, severity, count, facts, rows, caveats), BagOf(n, ests, J)))
    BY ONLY <1>1, <1>2, <1>3, <1>5, TotalledMadeUp
  <1> QED BY <1>6, <1>7 DEF rows, D

\* All the findings of a list are made up by their rows.
AllMadeUp(s) == \A f \in ToSet(s) : MadeUp(f)

\* Nothing found, one finding, two such lists; a finding without a total or without rows.
LEMMA MadeUpLists ==
  /\ AllMadeUp(<<>>)
  /\ \A f : MadeUp(f) => AllMadeUp(<<f>>)
  /\ \A s, t : IsList(s) /\ IsList(t) /\ AllMadeUp(s) /\ AllMadeUp(t) => AllMadeUp(s \o t)
  /\ \A id, severity, count, facts, rows, caveats :
       /\ MadeUp(Finding(id, severity, count, facts, rows, caveats))
       /\ AllMadeUp(<<Finding(id, severity, count, facts, rows, caveats)>>)
       /\ \A bag : MadeUp(Totalled(Finding(id, severity, count, facts, {}, caveats), bag))
  <1>1. ToSet(<<>>) = {} BY DEF ToSet
  <1>2. \A x : ToSet(<<x>>) = {x} BY DEF ToSet
  <1>3. AllMadeUp(<<>>) BY <1>1 DEF AllMadeUp
  <1>4. \A f : MadeUp(f) => AllMadeUp(<<f>>) BY <1>2 DEF AllMadeUp
  <1>5. ASSUME NEW s, NEW t, IsList(s), IsList(t), AllMadeUp(s), AllMadeUp(t)
        PROVE  AllMadeUp(s \o t)
    <2> DEFINE V == ToSet(s) \cup ToSet(t)
    <2>1. s \in Seq(V) /\ t \in Seq(V) BY <1>5 DEF IsList
    <2> HIDE DEF V
    <2>2. ToSet(s \o t) = ToSet(s) \cup ToSet(t) BY <2>1, ConcatElements
    <2> QED BY <1>5, <2>2 DEF AllMadeUp
  <1>6. ASSUME NEW id, NEW severity, NEW count, NEW facts, NEW rows, NEW caveats
        PROVE  /\ MadeUp(Finding(id, severity, count, facts, rows, caveats))
               /\ \A bag : MadeUp(Totalled(Finding(id, severity, count, facts, {}, caveats), bag))
    <2> DEFINE f == Finding(id, severity, count, facts, rows, caveats)
               g == Finding(id, severity, count, facts, {}, caveats)
    <2>1. f.total = NoMoney BY DEF Finding
    <2>2. \A bag : Totalled(g, bag).rows = {} BY DEF Finding, Totalled
    <2> HIDE DEF f, g
    <2>3. MadeUp(f) BY <2>1, Zenon DEF MadeUp
    <2>4. \A bag : MadeUp(Totalled(g, bag)) BY <2>2, Zenon DEF MadeUp
    <2> QED BY <2>3, <2>4 DEF f, g
  <1> QED BY <1>3, <1>4, <1>5, <1>6, Zenon

\* The network insights have no totals.
LEMMA NetworkMadeUp ==
  ASSUME NEW in
  PROVE  /\ AllMadeUp(publicAddresses(in))
         /\ AllMadeUp(privateAddresses(in))
         /\ AllMadeUp(networkGateways(in))
         /\ AllMadeUp(ingressPoints(in))
         /\ AllMadeUp(danglingDNS(in))
         /\ AllMadeUp(overlappingCIDRs(in))
  <1>1. AllMadeUp(publicAddresses(in)) BY MadeUpLists DEF publicAddresses
  <1>2. AllMadeUp(privateAddresses(in)) BY MadeUpLists DEF privateAddresses
  <1>3. AllMadeUp(networkGateways(in))
    <2>1. AllMadeUp(unusedEgressGateways(in, OfTypes(in, gatewayTypes)))
      BY MadeUpLists DEF unusedEgressGateways
    <2> QED BY <2>1, UnusedList, OneElement, MadeUpLists DEF networkGateways
  <1>4. AllMadeUp(ingressPoints(in)) BY MadeUpLists DEF ingressPoints
  <1>5. AllMadeUp(danglingDNS(in)) BY MadeUpLists DEF danglingDNS
  <1>6. AllMadeUp(overlappingCIDRs(in)) BY MadeUpLists DEF overlappingCIDRs
  <1> QED BY <1>1, <1>2, <1>3, <1>4, <1>5, <1>6

\* Nor have the hygiene insights.
LEMMA HygieneMadeUp ==
  ASSUME NEW in
  PROVE  /\ AllMadeUp(ownership(in))
         /\ AllMadeUp(recentlyCreated(in))
         /\ AllMadeUp(ageing(in))
         /\ AllMadeUp(expiry(in))
         /\ AllMadeUp(namespacePolicy(in))
         /\ AllMadeUp(singleReplica(in))
  <1>1. AllMadeUp(ownership(in)) BY MadeUpLists DEF ownership
  <1>2. AllMadeUp(recentlyCreated(in)) BY MadeUpLists DEF recentlyCreated, AgeFinding
  <1>3. AllMadeUp(ageing(in)) BY MadeUpLists DEF ageing, AgeFinding
  <1>4. AllMadeUp(expiry(in)) BY MadeUpLists, NoElement, OneElement DEF expiry
  <1>5. AllMadeUp(namespacePolicy(in)) BY MadeUpLists DEF namespacePolicy
  <1>6. AllMadeUp(singleReplica(in)) BY MadeUpLists DEF singleReplica
  <1> QED BY <1>1, <1>2, <1>3, <1>4, <1>5, <1>6

\* Nor have the utilization insights.
LEMMA UtilizationMadeUp ==
  ASSUME NEW in
  PROVE  /\ AllMadeUp(podRequestUsage(in))
         /\ AllMadeUp(nodeHeadroom(in))
         /\ AllMadeUp(unrequestedWorkload(in))
         /\ AllMadeUp(unmeasurable(in))
  <1>1. AllMadeUp(podRequestUsage(in)) BY MadeUpLists DEF podRequestUsage
  <1>2. AllMadeUp(nodeHeadroom(in)) BY MadeUpLists DEF nodeHeadroom
  <1>3. AllMadeUp(unrequestedWorkload(in)) BY MadeUpLists DEF unrequestedWorkload
  <1>4. AllMadeUp(unmeasurable(in)) BY MadeUpLists DEF unmeasurable
  <1> QED BY <1>1, <1>2, <1>3, <1>4

-----------------------------------------------------------------------------
(* The insights about money.                                               *)

\* The priced items are those at the priced positions.
LEMMA PricedItemsAre ==
  ASSUME NEW in, MoneyInput(in)
  PROVE  pricedItems(in) = ItemsAt(in, Payable(in))
  <1> DEFINE n == Len(in.assets)
             l == SpendItems(in)
             B == {x \in ItemSet(in) : x.est.priced}
  <1>1. l \in [1..n -> ItemSet(in)] /\ \A i \in 1..n : l[i].est = in.prices[i] BY ItemIs
  <1>2. l = ItemsAt(in, 1..n) BY AllItems
  <1>3. Keep(l, B) = ItemsAt(in, {i \in 1..n : l[i] \in B})
    <2> HIDE DEF B
    <2> QED BY <1>2, ItemsKept
  <1>4. {i \in 1..n : l[i] \in B} = Payable(in) BY <1>1 DEF Payable, PricedAt
  <1>5. Filter(l, LAMBDA x : x.est.priced) = Keep(l, B)
    <2>1. {i \in DOMAIN l : l[i].est.priced} = {i \in DOMAIN l : l[i] \in B} BY <1>1
    <2> QED BY <2>1 DEF Filter, Keep
  <1> QED BY <1>3, <1>4, <1>5 DEF pricedItems

\* What is picked of such a list is at some of its positions.
LEMMA PickedItems ==
  ASSUME NEW in, MoneyInput(in), NEW K \in SUBSET (1..Len(in.assets)),
         NEW I \in SUBSET DOMAIN ItemsAt(in, K)
  PROVE  \E J \in SUBSET K : At(ItemsAt(in, K), I) = ItemsAt(in, J)
  <1> DEFINE n == Len(in.assets)
             p == Positions(n)
             items == SpendItems(in)
             k == Keep(p, K)
             l == ItemsAt(in, K)
             B == {l[i] : i \in I}
  <1>1. n \in Nat /\ K \in SUBSET (1..n) BY ItemIs
  <1>2. \A i, j \in 1..n : items[i] = items[j] => i = j
    <2>1. \A i, j \in 1..n : nodeKey(items[i].asset) = nodeKey(items[j].asset) => i = j BY ItemIs
    <2> HIDE DEF items, n
    <2> QED BY <2>1, Zenon
  <1>3. p \in Seq(1..n) /\ Len(p) = n /\ \A i \in 1..n : p[i] = i BY <1>1, PositionsAre
  <1>4. l = Through(k, items) BY DEF ItemsAt
  <1> HIDE DEF n, p, items, l
  <1>5. k \in Seq(1..n) /\ \A i, j \in 1..Len(k) : k[i] = k[j] => i = j
    <2> DEFINE A == {i \in DOMAIN p : p[i] \in K}
    <2>1. k = At(p, A) BY DEF Keep
    <2> HIDE DEF A, k
    <2>2. k \in Seq(1..n) /\ \E ix : Picks(ix, k, p, A, n) BY <1>3, <2>1, AtPositions
    <2>3. PICK ix : Picks(ix, k, p, A, n) BY <2>2
    <2>4. /\ ix \in [1..Len(k) -> 1..n] /\ \A i \in 1..Len(k) : k[i] = p[ix[i]]
          /\ \A i, j \in 1..Len(k) : i < j => ix[i] < ix[j]
      BY <2>3 DEF Picks
    <2>5. \A i \in 1..Len(k) : k[i] = ix[i] /\ ix[i] \in Int BY <1>1, <1>3, <2>4
    <2>6. ASSUME NEW i \in 1..Len(k), NEW j \in 1..Len(k), k[i] = k[j] PROVE i = j
      <3>1. ix[i] = ix[j] /\ ix[i] \in Int BY <2>5, <2>6
      <3>2. ~(i < j) /\ ~(j < i) BY <3>1, <2>4
      <3> QED BY <3>2
    <2> QED BY <2>2, <2>6
  <1> HIDE DEF k
  <1>6. MadeOf(l, k, items) BY <1>4, <1>5, ThroughIs
  <1>7. l \in Seq(ItemSet(in)) BY ItemsElements DEF l
  <1>8. DOMAIN l = 1..Len(k) /\ Len(l) = Len(k) BY <1>6, <1>7 DEF MadeOf
  <1>9. \A i, j \in DOMAIN l : l[i] = l[j] => i = j
    <2> SUFFICES ASSUME NEW i \in 1..Len(k), NEW j \in 1..Len(k), l[i] = l[j] PROVE i = j
      BY <1>8
    <2>1. k[i] \in 1..n /\ k[j] \in 1..n
      <3>1. i \in 1..Len(k) /\ j \in 1..Len(k) OBVIOUS
      <3> QED BY ONLY <3>1, <1>1, <1>5
    <2>2. items[k[i]] = items[k[j]] BY <1>6 DEF MadeOf
    <2>3. k[i] = k[j] BY <1>2, <2>1, <2>2
    <2> QED BY <1>5, <2>3
  <1>10. {i \in DOMAIN l : l[i] \in B} = I BY <1>9 DEF l
  <1>11. Keep(l, B) = At(l, I)
    <2> HIDE DEF B
    <2> QED BY <1>10 DEF Keep
  <1> DEFINE J == {i \in K : items[i] \in B}
  <1>12. Keep(l, B) = ItemsAt(in, J)
    <2> HIDE DEF B
    <2> QED BY ItemsKept DEF l, items
  <1>13. J \in SUBSET K OBVIOUS
  <1> HIDE DEF J
  <1>14. At(ItemsAt(in, K), I) = ItemsAt(in, J) BY <1>11, <1>12 DEF l
  <1> QED BY <1>13, <1>14

\* One row per item of a part of the priced items (cost.orphaned-spend,
\* cost.stopped-but-billed).
LEMMA ItemsFindingMadeUp ==
  ASSUME NEW in, MoneyInput(in), NEW K \in SUBSET Payable(in), NEW id, NEW severity, NEW caveats
  PROVE  AllMadeUp(ItemsFinding(id, severity, ItemsAt(in, K), caveats))
  <1> DEFINE items == ItemsAt(in, K)
             f == Totalled(Finding(id, severity, Len(items), <<>>, {ItemRow(i) : i \in ToSet(items)}, caveats),
                           spendBag(items))
  <1>1. MadeUp(f) BY ItemRowsMadeUp
  <1>2. ItemsFinding(id, severity, items, caveats) = IF items = <<>> THEN <<>> ELSE <<f>>
    BY DEF ItemsFinding
  <1> HIDE DEF items, f
  <1> QED BY <1>1, <1>2, MadeUpLists DEF items

\* The items with the value g of f are such a list.
LEMMA GroupItems ==
  ASSUME NEW in, MoneyInput(in), NEW K \in SUBSET (1..Len(in.assets)), NEW f,
         NEW lab, lab = [i \in K |-> f[SpendItems(in)[i]]]
  PROVE  /\ {f[x] : x \in ToSet(ItemsAt(in, K))} = Labels(lab, K)
         /\ \A g : At(ItemsAt(in, K), {i \in DOMAIN ItemsAt(in, K) : f[ItemsAt(in, K)[i]] = g})
                   = ItemsAt(in, Labelled(lab, K, g))
         /\ \A g : ItemsAt(in, Labelled(lab, K, g)) = <<>> <=> g \notin Labels(lab, K)
  <1>0. {f[x] : x \in ToSet(ItemsAt(in, K))} = Labels(lab, K)
    <2>1. ToSet(ItemsAt(in, K)) = {SpendItems(in)[i] : i \in K} BY ItemsElements
    <2> QED BY <2>1 DEF Labels
  <1> SUFFICES ASSUME NEW g
               PROVE  /\ At(ItemsAt(in, K), {i \in DOMAIN ItemsAt(in, K) : f[ItemsAt(in, K)[i]] = g})
                           = ItemsAt(in, Labelled(lab, K, g))
                      /\ ItemsAt(in, Labelled(lab, K, g)) = <<>> <=> g \notin Labels(lab, K)
    BY <1>0, Zenon
  <1> DEFINE items == SpendItems(in)
             l == ItemsAt(in, K)
             B == {x \in ItemSet(in) : f[x] = g}
             L == Labelled(lab, K, g)
  <1>1. /\ l \in Seq(ItemSet(in)) /\ ToSet(l) = {items[i] : i \in K}
        /\ items \in [1..Len(in.assets) -> ItemSet(in)]
    BY ItemsElements, ItemIs
  <1>2. {i \in K : items[i] \in B} = L
    <2>1. \A i \in K : items[i] \in ItemSet(in) BY <1>1
    <2> HIDE DEF items
    <2> QED BY <2>1 DEF Labelled, items
  <1>3. L \in SUBSET K BY DEF Labelled
  <1> HIDE DEF items, l, L
  <1>4. Keep(l, B) = ItemsAt(in, L)
    <2> HIDE DEF B
    <2> QED BY <1>2, ItemsKept DEF l, items
  <1>5. {i \in DOMAIN l : l[i] \in B} = {i \in DOMAIN l : f[l[i]] = g} BY <1>1
  <1>6. At(l, {i \in DOMAIN l : f[l[i]] = g}) = ItemsAt(in, L) BY <1>4, <1>5 DEF Keep
  <1>7. ItemsAt(in, L) = <<>> <=> g \notin Labels(lab, K)
    <2>1. L = {} <=> g \notin Labels(lab, K) BY DEF Labels, Labelled, L
    <2>2. L \in SUBSET (1..Len(in.assets)) BY <1>3
    <2> DEFINE t == ItemsAt(in, L)
    <2>3. t \in Seq(ItemSet(in)) /\ ToSet(t) = {items[i] : i \in L} BY <2>2, ItemsElements DEF items
    <2> HIDE DEF t
    <2>4. t = <<>> <=> ToSet(t) = {}
      <3>1. CASE t = <<>> BY <3>1 DEF ToSet
      <3>2. CASE t # <<>>
        <4>1. 1 \in DOMAIN t BY <2>3, <3>2
        <4> QED BY <4>1, <3>2 DEF ToSet
      <3> QED BY <3>1, <3>2
    <2> QED BY <2>1, <2>3, <2>4 DEF t
  <1> QED BY <1>6, <1>7 DEF l, L

\* The dearest of the paid, in one currency (cost.concentration).
LEMMA ConcentrationMadeUp ==
  ASSUME NEW in, MoneyInput(in) PROVE AllMadeUp(concentration(in))
  <1> DEFINE bag == spendBag(pricedItems(in))
             currency == CHOOSE c \in DOMAIN bag :
        \A d \in DOMAIN bag \ {c} : bag[d] < bag[c] \/ (bag[d] = bag[c] /\ Earlier(c, d))
             paid == Filter(pricedItems(in), LAMBDA i : i.money[1].currency = currency /\ i.money[1].amount > 0)
             Running(m) == SumOf(Dearest(paid, m), LAMBDA i : i.money[1].amount)
             half == Min({m \in DOMAIN paid : 2 * Running(m) >= bag[currency]})
             severity == IF Len(paid) >= 10 /\ half <= 5 THEN "notable" ELSE "info"
             facts == <<Len(paid)>>
             shown == Dearest(paid, 10)
             f == Totalled(Finding("cost.concentration", severity, half, facts,
                                   {ItemRow(i) : i \in ToSet(shown)}, {}), spendBag(shown))
  <1>1. Payable(in) \in SUBSET (1..Len(in.assets)) /\ pricedItems(in) = ItemsAt(in, Payable(in))
    BY ItemIs, PricedItemsAre
  <1>2. \E J \in SUBSET Payable(in) : paid = ItemsAt(in, J)
    <2> DEFINE l == pricedItems(in)
               I == {i \in DOMAIN l : l[i].money[1].currency = currency /\ l[i].money[1].amount > 0}
    <2>1. paid = At(l, I) BY DEF Filter
    <2>2. I \in SUBSET DOMAIN l OBVIOUS
    <2> HIDE DEF I, paid
    <2> QED BY <1>1, <2>1, <2>2, PickedItems
  <1>3. concentration(in) = <<>> \/ concentration(in) = <<f>>
    BY Zenon DEF concentration
  <1> HIDE DEF paid, half, severity, facts, Running
  <1>4. PICK J \in SUBSET Payable(in) : paid = ItemsAt(in, J) BY <1>2
  <1>5. \E M \in SUBSET J : shown = ItemsAt(in, M)
    <2> DEFINE Dearer(i, j) == \/ paid[i].money[1].amount > paid[j].money[1].amount
                               \/ paid[i].money[1].amount = paid[j].money[1].amount /\ i < j
               I == {j \in DOMAIN paid : Cardinality({i \in DOMAIN paid : Dearer(i, j)}) < 10}
    <2>1. shown = At(paid, I) BY DEF Dearest
    <2>2. I \in SUBSET DOMAIN paid OBVIOUS
    <2>3. J \in SUBSET (1..Len(in.assets)) BY <1>1
    <2> HIDE DEF I, shown
    <2> QED BY <1>4, <2>1, <2>2, <2>3, PickedItems
  <1> HIDE DEF shown
  <1>6. PICK M \in SUBSET J : shown = ItemsAt(in, M) BY <1>5
  <1>7. M \in SUBSET Payable(in) BY <1>4, <1>6
  <1>8. MadeUp(f) BY <1>6, <1>7, ItemRowsMadeUp
  <1> HIDE DEF f
  <1> QED BY <1>3, <1>8, MadeUpLists

\* What nothing uses, and what is stopped and billed.
LEMMA WastedMadeUp ==
  ASSUME NEW in, MoneyInput(in)
  PROVE  AllMadeUp(orphanedSpend(in)) /\ AllMadeUp(stoppedBilled(in))
  <1> DEFINE l == pricedItems(in)
  <1>1. Payable(in) \in SUBSET (1..Len(in.assets)) /\ l = ItemsAt(in, Payable(in))
    BY ItemIs, PricedItemsAre
  <1>2. \A I \in SUBSET DOMAIN l : \E J \in SUBSET Payable(in) : At(l, I) = ItemsAt(in, J)
    <2> TAKE I \in SUBSET DOMAIN l
    <2> HIDE DEF l
    <2>1. I \in SUBSET DOMAIN ItemsAt(in, Payable(in)) BY <1>1
    <2>2. \E J \in SUBSET Payable(in) : At(ItemsAt(in, Payable(in)), I) = ItemsAt(in, J)
      BY <1>1, <2>1, PickedItems
    <2> QED BY <1>1, <2>2
  <1>3. ASSUME NEW I \in SUBSET DOMAIN l, NEW id, NEW severity, NEW caveats
        PROVE  AllMadeUp(ItemsFinding(id, severity, At(l, I), caveats))
    <2>1. PICK J \in SUBSET Payable(in) : At(l, I) = ItemsAt(in, J) BY <1>2
    <2> QED BY <2>1, ItemsFindingMadeUp
  <1>4. AllMadeUp(orphanedSpend(in))
    <2> DEFINE orphans == Orphans([nodes |-> in.assets, edges |-> in.edges], "provider")
               connectable == {x.type : x \in orphans.Unconnected}
               I == {i \in DOMAIN l : l[i].money[1].amount > 0 /\ l[i].asset.type \in connectable
                                      /\ Degree(in, l[i].asset) = 0}
    <2>1. orphanedSpend(in) = ItemsFinding("cost.orphaned-spend", "notable", At(l, I), orphanCaveat(orphans))
      BY DEF orphanedSpend, Filter
    <2>2. I \in SUBSET DOMAIN l OBVIOUS
    <2> HIDE DEF I, orphans
    <2> QED BY <1>3, <2>1, <2>2
  <1>5. AllMadeUp(stoppedBilled(in))
    <2> DEFINE I == {i \in DOMAIN l : stoppedStatus(l[i].asset) /\ l[i].money[1].amount > 0}
    <2>1. stoppedBilled(in) = ItemsFinding("cost.stopped-but-billed", "warn", At(l, I), {})
      BY DEF stoppedBilled, Filter
    <2>2. I \in SUBSET DOMAIN l OBVIOUS
    <2> HIDE DEF I
    <2> QED BY <1>3, <2>1, <2>2
  <1> QED BY <1>4, <1>5

\* A row per value of a dimension (cost.by-dimension).
LEMMA DimensionsMadeUp ==
  ASSUME NEW in, MoneyInput(in) PROVE AllMadeUp(byDimension(in))
  <1> DEFINE items == SpendItems(in)
             n == Len(in.assets)
             Groups(dim) == {groupKey(i.asset, dim) : i \in ToSet(items)}
             Group(dim, g) == Filter(items, LAMBDA i : groupKey(i.asset, dim) = g)
             R(dim, g) == MoneyRow(<<g>>, {}, Len(Group(dim, g)), rowMoney(spendBag(Group(dim, g))))
             F(dim, id) == Totalled(Finding(id, "info", Cardinality(Groups(dim)), <<>>,
                                            {R(dim, g) : g \in Groups(dim)}, {}),
                                    spendBag(items))
             By(dim, id) == IF Cardinality(Groups(dim)) < 2 THEN <<>> ELSE <<F(dim, id)>>
  <1>1. items = ItemsAt(in, 1..n) /\ items \in [1..n -> ItemSet(in)] /\ n \in Nat
    BY AllItems, ItemIs
  <1>2. ASSUME NEW dim, NEW id PROVE MadeUp(F(dim, id))
    <2> DEFINE f == [x \in ItemSet(in) |-> groupKey(x.asset, dim)]
               lab == [i \in 1..n |-> f[items[i]]]
               D == Groups(dim)
               rw == [g \in D |-> R(dim, g)]
               count == Cardinality(D)
    <2>1. \A x \in ToSet(items) : x \in ItemSet(in) BY <1>1 DEF ToSet
    <2>2. {f[x] : x \in ToSet(items)} = D
      <3> HIDE DEF items
      <3>1. \A x \in ToSet(items) : f[x] = groupKey(x.asset, dim) BY <2>1
      <3> HIDE DEF f
      <3> QED BY <3>1
    <2>3. \A g : Group(dim, g) = At(items, {i \in DOMAIN items : f[items[i]] = g})
      <3> TAKE g
      <3>1. Group(dim, g) = At(items, {i \in DOMAIN items : groupKey(items[i].asset, dim) = g})
        BY DEF Filter
      <3> HIDE DEF items, Group
      <3>2. {i \in DOMAIN items : groupKey(items[i].asset, dim) = g}
              = {i \in DOMAIN items : f[items[i]] = g}
        BY <1>1
      <3> QED BY <3>1, <3>2
    <2> HIDE DEF f, items, Group, n, D
    <2>4. /\ \A g : Group(dim, g) = ItemsAt(in, Labelled(lab, 1..n, g))
          /\ D = Labels(lab, 1..n)
      <3>1. lab = [i \in 1..n |-> f[SpendItems(in)[i]]] BY DEF items
      <3> HIDE DEF lab
      <3>2. /\ \A g : At(ItemsAt(in, 1..n), {i \in DOMAIN ItemsAt(in, 1..n) : f[ItemsAt(in, 1..n)[i]] = g})
                      = ItemsAt(in, Labelled(lab, 1..n, g))
            /\ {f[x] : x \in ToSet(ItemsAt(in, 1..n))} = Labels(lab, 1..n)
        <4> DEFINE K == 1..n
        <4>1. K \in SUBSET (1..Len(in.assets)) BY DEF n
        <4>2. MoneyInput(in) /\ lab = [i \in K |-> f[SpendItems(in)[i]]] BY <3>1
        <4> HIDE DEF K
        <4>3. /\ \A g : At(ItemsAt(in, K), {i \in DOMAIN ItemsAt(in, K) : f[ItemsAt(in, K)[i]] = g})
                      = ItemsAt(in, Labelled(lab, K, g))
              /\ {f[x] : x \in ToSet(ItemsAt(in, K))} = Labels(lab, K)
          BY ONLY <4>1, <4>2, GroupItems
        <4> QED BY <4>3 DEF K
      <3> QED BY <1>1, <2>2, <2>3, <3>2
    <2> HIDE DEF lab
    <2>5. \A g \in D : /\ rw[g].money = rowMoney(spendBag(Group(dim, g)))
                       /\ rw[g].subject = <<g>>
      <3> TAKE g \in D
      <3> DEFINE m == rowMoney(spendBag(Group(dim, g)))
                 v == Len(Group(dim, g))
      <3>1. rw[g] = MoneyRow(<<g>>, {}, v, m) OBVIOUS
      <3> HIDE DEF m, v, rw
      <3>2. rw[g].money = m /\ rw[g].subject = <<g>> BY <3>1 DEF MoneyRow, Row
      <3> QED BY <3>2 DEF m
    <2>6. {R(dim, g) : g \in D} = {rw[g] : g \in D}
      <3>1. \A g \in D : rw[g] = R(dim, g) OBVIOUS
      <3> HIDE DEF rw, R
      <3> QED BY <3>1
    <2> HIDE DEF rw, R, count
    <2>7. \A g, h \in Labels(lab, 1..n) : rw[g] = rw[h] => g = h
      <3> SUFFICES ASSUME NEW g \in D, NEW h \in D, rw[g] = rw[h] PROVE g = h BY <2>4
      <3>1. <<g>> = <<h>> BY <2>5
      <3> QED BY <3>1
    <2>8. \A g \in Labels(lab, 1..n) :
            rw[g].money = rowMoney(spendBag(ItemsAt(in, Labelled(lab, 1..n, g))))
      BY <2>4, <2>5
    <2>9. MadeUp(Totalled(Finding(id, "info", count, <<>>, {rw[g] : g \in Labels(lab, 1..n)}, {}),
                          spendBag(ItemsAt(in, 1..n))))
      BY <2>7, <2>8, GroupRowsMadeUp DEF n
    <2> QED BY <1>1, <2>4, <2>6, <2>9 DEF D, count
  <1>3. \A dim, id : By(dim, id) = <<>> \/ By(dim, id) = <<F(dim, id)>> OBVIOUS
  <1>4. byDimension(in) = <<>> \/
        byDimension(in) = By("provider", "cost.by-provider") \o By("region", "cost.by-region")
                            \o By("account", "cost.by-account")
    BY Zenon DEF byDimension
  <1> HIDE DEF F, By
  <1>5. \A dim, id : IsList(By(dim, id)) /\ AllMadeUp(By(dim, id))
    BY <1>2, <1>3, NoElement, OneElement, MadeUpLists
  <1>6. \A dim, dim2, dim3, id, id2, id3 : AllMadeUp(By(dim, id) \o By(dim2, id2) \o By(dim3, id3))
    <2> TAKE dim, dim2, dim3, id, id2, id3
    <2> DEFINE s == By(dim, id)
               t == By(dim2, id2)
               u == By(dim3, id3)
    <2>1. /\ IsList(s) /\ AllMadeUp(s) /\ IsList(t) /\ AllMadeUp(t) /\ IsList(u) /\ AllMadeUp(u)
      BY <1>5
    <2> HIDE DEF s, t, u
    <2>2. IsList(s \o t) /\ AllMadeUp(s \o t) BY <2>1, BothLists, MadeUpLists
    <2> QED BY <2>1, <2>2, MadeUpLists DEF s, t, u
  <1> QED BY <1>4, <1>6, MadeUpLists

\* A row per value of a tag, and one for what has none (cost.by-tag).
LEMMA ByTagMadeUp ==
  ASSUME NEW in, MoneyInput(in), NEW K \in SUBSET (1..Len(in.assets)), NEW items,
         items = ItemsAt(in, K), NEW keys
  PROVE  AllMadeUp(byTagFinding(items, keys)) /\ IsList(byTagFinding(items, keys))
  <1> DEFINE Values(b) == {Tag(i.asset, b) : i \in ToSet(items)} \ {""}
             With(b, v) == Filter(items, LAMBDA i : Tag(i.asset, b) = v)
             R(b, v) == MoneyRow(<<b, v>>, {}, Len(With(b, v)), rowMoney(spendBag(With(b, v))))
             Rows(b) == {R(b, v) : v \in Values(b)} \cup untaggedRow(items, b)
             F(b) == Totalled(Finding("cost.by-tag", "info", Cardinality(Values(b)), <<b>>, Rows(b), {}),
                              spendBag(items))
  <1>1. byTagFinding(items, keys) = <<>> \/ \E b : byTagFinding(items, keys) = <<F(b)>>
    <2> DEFINE Allocated(k) == bagRank(spendBag(TaggedWith(items, k)))
               Covered(k) == Len(TaggedWith(items, k))
               Before(k, l) ==
                 \/ Allocated(k) > Allocated(l)
                 \/ Allocated(k) = Allocated(l) /\ Covered(k) > Covered(l)
                 \/ Allocated(k) = Allocated(l) /\ Covered(k) = Covered(l) /\ Earlier(k, l)
               best == CHOOSE k \in keys : \A l \in keys \ {k} : Before(k, l)
    <2>1. byTagFinding(items, keys)
            = IF Values(best) = {} \/ (Cardinality(Values(best)) < 2 /\ Untagged(items, {best}) = <<>>)
              THEN <<>> ELSE <<F(best)>>
      BY DEF byTagFinding
    <2> HIDE DEF best, F, Values
    <2> QED BY <2>1, Zenon
  <1>2. ASSUME NEW b PROVE MadeUp(F(b))
    <2> DEFINE f == [x \in ItemSet(in) |-> Tag(x.asset, b)]
               lab == [i \in K |-> f[SpendItems(in)[i]]]
               D == Labels(lab, K)
               none == <<"(no key)">>
               Subject(g) == IF g = "" THEN none ELSE <<b, g>>
               Sum(g) == rowMoney(spendBag(With(b, g)))
               rw == [g \in D |-> MoneyRow(Subject(g), {}, Len(With(b, g)), Sum(g))]
               count == Cardinality(Values(b))
               facts == <<b>>
    <2>1. items \in Seq(ItemSet(in)) BY ItemsElements
    <2>2. /\ \A g : At(items, {i \in DOMAIN items : f[items[i]] = g}) = ItemsAt(in, Labelled(lab, K, g))
          /\ {f[x] : x \in ToSet(items)} = D
          /\ \A g : ItemsAt(in, Labelled(lab, K, g)) = <<>> <=> g \notin D
      <3>1. lab = [i \in K |-> f[SpendItems(in)[i]]] OBVIOUS
      <3> HIDE DEF f, lab
      <3>2. MoneyInput(in) /\ K \in SUBSET (1..Len(in.assets)) /\ items = ItemsAt(in, K) OBVIOUS
      <3> QED BY ONLY <3>1, <3>2, GroupItems DEF D
    <2>3. \A i \in DOMAIN items : f[items[i]] = Tag(items[i].asset, b) BY <2>1
    <2>4. {Tag(i.asset, b) : i \in ToSet(items)} = D
      <3> HIDE DEF f, D
      <3> QED BY <2>2, <2>3 DEF ToSet
    <2>5. \A g : With(b, g) = ItemsAt(in, Labelled(lab, K, g))
      <3> TAKE g
      <3>1. With(b, g) = At(items, {i \in DOMAIN items : Tag(items[i].asset, b) = g}) BY DEF Filter
      <3> HIDE DEF f, With
      <3>2. {i \in DOMAIN items : Tag(items[i].asset, b) = g} = {i \in DOMAIN items : f[items[i]] = g}
        BY <2>3
      <3> QED BY <2>2, <3>1, <3>2
    <2>6. Untagged(items, {b}) = With(b, "")
      <3>1. {i \in DOMAIN items : \A k \in {b} : Tag(items[i].asset, k) = ""}
              = {i \in DOMAIN items : Tag(items[i].asset, b) = ""}
        OBVIOUS
      <3> QED BY <3>1 DEF Untagged, Filter
    <2> HIDE DEF f, lab, D, With
    <2>7. Values(b) = D \ {""} BY <2>4
    <2>8. With(b, "") = <<>> <=> "" \notin D BY <2>2, <2>5
    <2>9. ASSUME NEW g \in D PROVE rw[g].money = Sum(g) /\ rw[g].subject = Subject(g)
      <3> DEFINE m == Sum(g)
                 s == Subject(g)
                 v == Len(With(b, g))
      <3>1. rw[g] = MoneyRow(s, {}, v, m) OBVIOUS
      <3> HIDE DEF m, s, v, rw
      <3>2. rw[g].money = m /\ rw[g].subject = s BY <3>1 DEF MoneyRow, Row
      <3> QED BY <3>2 DEF m, s
    <2>10. Rows(b) = {rw[g] : g \in D}
      <3>1. untaggedRow(items, b)
              = IF "" \notin D THEN {}
                ELSE {MoneyRow(none, {}, Len(With(b, "")), Sum(""))}
        BY <2>6, <2>8 DEF untaggedRow
      <3>2. "" \in D => rw[""] = MoneyRow(none, {}, Len(With(b, "")), Sum("")) OBVIOUS
      <3>3. \A g \in D \ {""} : rw[g] = R(b, g) OBVIOUS
      <3> HIDE DEF rw, R, Sum, none
      <3> QED BY <2>7, <3>1, <3>2, <3>3
    <2> HIDE DEF rw, R, Rows, count, facts, Values, Sum
    <2>11. \A g, h \in D : rw[g] = rw[h] => g = h
      <3> SUFFICES ASSUME NEW g \in D, NEW h \in D, rw[g] = rw[h] PROVE g = h OBVIOUS
      <3>1. Subject(g) = Subject(h) BY <2>9
      <3>2. \A x, y : none # <<x, y>> /\ <<x, y>> # none OBVIOUS
      <3>3. \A x, y : <<b, x>> = <<b, y>> => x = y OBVIOUS
      <3> HIDE DEF none
      <3> QED BY <3>1, <3>2, <3>3
    <2>12. \A g \in Labels(lab, K) : rw[g].money = rowMoney(spendBag(ItemsAt(in, Labelled(lab, K, g))))
      BY <2>5, <2>9 DEF D, Sum
    <2>13. MadeUp(Totalled(Finding("cost.by-tag", "info", count, facts, {rw[g] : g \in Labels(lab, K)}, {}),
                           spendBag(ItemsAt(in, K))))
      BY <2>11, <2>12, GroupRowsMadeUp DEF D
    <2> QED BY <2>10, <2>13 DEF D, count, facts
  <1> HIDE DEF F
  <1> QED BY <1>1, <1>2, MadeUpLists, NoElement, OneElement

\* Every insight about money.
LEMMA CostMadeUp ==
  ASSUME NEW in, MoneyInput(in)
  PROVE  /\ AllMadeUp(runRate(in))
         /\ AllMadeUp(concentration(in))
         /\ AllMadeUp(byDimension(in))
         /\ AllMadeUp(showback(in))
         /\ AllMadeUp(orphanedSpend(in))
         /\ AllMadeUp(stoppedBilled(in))
         /\ AllMadeUp(unpriced(in))
  <1>1. AllMadeUp(runRate(in)) BY MadeUpLists DEF runRate
  <1>2. AllMadeUp(unpriced(in)) BY MadeUpLists DEF unpriced
  <1>3. AllMadeUp(showback(in))
    <2> DEFINE items == pricedItems(in)
               keys == allocationKeys(items)
               nobodys == <<unattributedFinding(items, keys)>>
               all == <<Totalled(Finding("cost.unattributed", "notable", Len(items), <<>>, {}, {}),
                                 spendBag(items))>>
    <2>1. showback(in) = IF items = <<>> THEN <<>>
                         ELSE IF keys = {} THEN all ELSE nobodys \o byTagFinding(items, keys)
      BY DEF showback
    <2>2. AllMadeUp(all) BY MadeUpLists
    <2>3. AllMadeUp(nobodys) /\ IsList(nobodys) BY MadeUpLists, OneElement DEF unattributedFinding
    <2>4. Payable(in) \in SUBSET (1..Len(in.assets)) /\ items = ItemsAt(in, Payable(in))
      BY ItemIs, PricedItemsAre
    <2> HIDE DEF items, keys, nobodys, all
    <2>5. AllMadeUp(byTagFinding(items, keys)) /\ IsList(byTagFinding(items, keys))
      BY <2>4, ByTagMadeUp
    <2>6. AllMadeUp(nobodys \o byTagFinding(items, keys)) BY <2>3, <2>5, MadeUpLists
    <2> QED BY <2>1, <2>2, <2>6, MadeUpLists
  <1> QED BY <1>1, <1>2, <1>3, ConcentrationMadeUp, DimensionsMadeUp, WastedMadeUp

\* Every insight there is.
LEMMA FindingsMadeUp ==
  ASSUME NEW in, MoneyInput(in), NEW id \in Ids
  PROVE  AllMadeUp(Findings(id, in))
  BY NetworkMadeUp, CostMadeUp, HygieneMadeUp, UtilizationMadeUp
  DEF Findings, Ids, NetworkIds, CostIds, HygieneIds, UtilizationIds

-----------------------------------------------------------------------------
(* What a report reads.                                                    *)

\* What is picked of a list without a shared identity has none.
LEMMA UniquePicked ==
  ASSUME NEW V, NEW s \in Seq(V), UniqueIdentities(s), NEW I
  PROVE  UniqueIdentities(At(s, I))
  <1> DEFINE t == At(s, I)
  <1>1. t \in Seq(V) /\ \E ix : Picks(ix, t, s, I, Len(s)) BY AtPositions
  <1> HIDE DEF t
  <1>2. PICK ix : Picks(ix, t, s, I, Len(s)) BY <1>1
  <1>3. /\ ix \in [1..Len(t) -> 1..Len(s)] /\ \A i \in 1..Len(t) : t[i] = s[ix[i]]
        /\ \A i, j \in 1..Len(t) : i < j => ix[i] < ix[j]
    BY <1>2 DEF Picks
  <1>4. \A i, j \in 1..Len(s) : nodeKey(s[i]) = nodeKey(s[j]) => i = j BY DEF UniqueIdentities
  <1>5. ASSUME NEW i \in 1..Len(t), NEW j \in 1..Len(t), nodeKey(t[i]) = nodeKey(t[j]) PROVE i = j
    <2>1. ix[i] \in 1..Len(s) /\ ix[j] \in 1..Len(s)
      <3>1. i \in 1..Len(t) /\ j \in 1..Len(t) OBVIOUS
      <3> QED BY ONLY <3>1, <1>3
    <2>2. nodeKey(s[ix[i]]) = nodeKey(s[ix[j]]) BY <1>3, <1>5
    <2>3. ix[i] = ix[j] BY <1>4, <2>1, <2>2
    <2>4. ~(i < j) /\ ~(j < i)
      <3>1. ix[i] \in Int /\ ix[j] \in Int BY <2>1
      <3> QED BY <1>3, <2>3, <3>1
    <2> QED BY <2>4
  <1>6. DOMAIN t = 1..Len(t) BY <1>1
  <1> QED BY <1>5, <1>6 DEF UniqueIdentities, t

\* Nor has that in the order of an input (NewInput).
LEMMA UniqueSorted ==
  ASSUME NEW V, NEW s \in Seq(V), UniqueIdentities(s)
  PROVE  UniqueIdentities(SortedAssets(s))
  <1> DEFINE F(k) == Filter(s, LAMBDA a : nodeKey(a) = k)
             n == Len(InputOrder)
             ss == [i \in DOMAIN InputOrder |-> F(InputOrder[i])]
  <1>1. SortedAssets(s) = FlattenSeq(ss) BY DEF SortedAssets, Each, Map
  <1>2. ASSUME NEW k
        PROVE  /\ F(k) \in Seq(V) /\ UniqueIdentities(F(k))
               /\ \A i \in 1..Len(F(k)) : nodeKey(F(k)[i]) = k
    <2> DEFINE A == {a \in V : nodeKey(a) = k}
               t == F(k)
    <2>1. {i \in DOMAIN s : nodeKey(s[i]) = k} = {i \in DOMAIN s : s[i] \in A} OBVIOUS
    <2>2. t = Keep(s, A) BY <2>1 DEF Filter, Keep
    <2> HIDE DEF A, t
    <2>3. t \in Seq(V) /\ ToSet(t) = ToSet(s) \cap A BY <2>2, KeepElements
    <2>4. UniqueIdentities(t) BY <2>2, UniquePicked DEF Keep
    <2>5. \A i \in 1..Len(t) : t[i] \in A BY <2>3 DEF ToSet
    <2> QED BY <2>3, <2>4, <2>5 DEF A, t
  <1> HIDE DEF F
  <1>3. n \in Nat /\ DOMAIN InputOrder = 1..n
        /\ \A i, j \in 1..n : InputOrder[i] = InputOrder[j] => i = j
    BY InputOrderIsAList
  <1>4. ss \in Seq(Seq(V)) /\ Len(ss) = n /\ \A i \in 1..n : ss[i] = F(InputOrder[i])
    BY <1>2, <1>3
  <1> HIDE DEF ss, n
  <1>5. PICK f \in [0..n -> Seq(V)] :
          /\ f[0] = <<>> /\ FlattenSeq(ss) = f[n]
          /\ \A i \in 1..n : f[i] = f[i - 1] \o ss[i]
    BY <1>4, FlattenSteps
  <1> DEFINE Below(m) == \A i \in 1..Len(f[m]) : \E j \in 1..m : nodeKey(f[m][i]) = InputOrder[j]
             S == {m \in Nat : m <= n => UniqueIdentities(f[m]) /\ Below(m)}
  <1>6. 0 \in S
    <2>1. f[0] = <<>> /\ Len(<<>>) = 0 /\ DOMAIN <<>> = {} BY <1>5
    <2> QED BY <2>1 DEF UniqueIdentities
  <1>7. ASSUME NEW m \in Nat, m \in S PROVE m + 1 \in S
    <2> SUFFICES ASSUME m + 1 <= n PROVE UniqueIdentities(f[m + 1]) /\ Below(m + 1) OBVIOUS
    <2>0. m \in 0..n /\ m + 1 \in 1..n /\ (m + 1) - 1 = m /\ m <= n BY <1>3
    <2> DEFINE a == f[m]
               b == ss[m + 1]
               c == f[m + 1]
               k == InputOrder[m + 1]
    <2>1. c = a \o b /\ a \in Seq(V) BY <2>0, <1>5
    <2>2. UniqueIdentities(a) /\ Below(m) BY <1>7, <2>0
    <2>3. b \in Seq(V) /\ UniqueIdentities(b) /\ \A i \in 1..Len(b) : nodeKey(b[i]) = k
      <3>1. b = F(k) BY <2>0, <1>4
      <3> HIDE DEF b, k
      <3> QED BY <3>1, <1>2
    <2>4. \A i \in 1..Len(a) : nodeKey(a[i]) # k
      <3> TAKE i \in 1..Len(a)
      <3>1. PICK j \in 1..m : nodeKey(a[i]) = InputOrder[j] BY <2>2
      <3>2. j \in 1..n /\ j # m + 1 BY <2>0, <1>3
      <3> QED BY <3>1, <3>2, <2>0, <1>3
    <2>5. \A i \in 1..Len(a) : \E j \in 1..m : nodeKey(a[i]) = InputOrder[j] BY <2>2
    <2> HIDE DEF S, a, b, c, k
    <2>6. /\ Len(a) \in Nat /\ Len(b) \in Nat /\ DOMAIN c = 1..(Len(a) + Len(b)) /\ Len(c) = Len(a) + Len(b)
          /\ DOMAIN a = 1..Len(a) /\ DOMAIN b = 1..Len(b)
          /\ \A i \in 1..Len(a) : c[i] = a[i]
          /\ \A i \in DOMAIN c : i \notin 1..Len(a) => i - Len(a) \in 1..Len(b) /\ c[i] = b[i - Len(a)]
      BY ONLY <2>1, <2>3
    <2>7. ASSUME NEW i \in DOMAIN c, NEW j \in DOMAIN c, nodeKey(c[i]) = nodeKey(c[j]) PROVE i = j
      <3>1. CASE i \in 1..Len(a) /\ j \in 1..Len(a) BY <3>1, <2>2, <2>6, <2>7 DEF UniqueIdentities
      <3>2. CASE i \in 1..Len(a) /\ j \notin 1..Len(a)
        <4>1. nodeKey(c[i]) # k /\ nodeKey(c[j]) = k BY <3>2, <2>3, <2>4, <2>6
        <4> QED BY <4>1, <2>7
      <3>3. CASE i \notin 1..Len(a) /\ j \in 1..Len(a)
        <4>1. nodeKey(c[j]) # k /\ nodeKey(c[i]) = k BY <3>3, <2>3, <2>4, <2>6
        <4> QED BY <4>1, <2>7
      <3>4. CASE i \notin 1..Len(a) /\ j \notin 1..Len(a)
        <4>1. i - Len(a) \in DOMAIN b /\ j - Len(a) \in DOMAIN b
              /\ nodeKey(b[i - Len(a)]) = nodeKey(b[j - Len(a)])
          BY <3>4, <2>6, <2>7
        <4>2. i - Len(a) = j - Len(a) BY <4>1, <2>3 DEF UniqueIdentities
        <4> QED BY <4>2, <2>6
      <3> QED BY <3>1, <3>2, <3>3, <3>4
    <2>8. ASSUME NEW i \in DOMAIN c PROVE \E j \in 1..(m + 1) : nodeKey(c[i]) = InputOrder[j]
      <3>1. CASE i \in 1..Len(a)
        <4>1. PICK j \in 1..m : nodeKey(a[i]) = InputOrder[j] BY <3>1, <2>5
        <4>2. j \in 1..(m + 1) /\ nodeKey(c[i]) = InputOrder[j] BY <4>1, <3>1, <2>6
        <4> QED BY <4>2
      <3>2. CASE i \notin 1..Len(a)
        <4>1. nodeKey(c[i]) = k BY <3>2, <2>3, <2>6
        <4>2. m + 1 \in 1..(m + 1) BY <2>0
        <4> QED BY <4>1, <4>2 DEF k
      <3> QED BY <3>1, <3>2
    <2> QED BY <2>6, <2>7, <2>8 DEF UniqueIdentities, c
  <1>8. n \in S
    <2> HIDE DEF S
    <2> QED BY <1>3, <1>6, <1>7, Induct
  <1>9. UniqueIdentities(f[n]) BY <1>8, <1>3
  <1> QED BY <1>1, <1>5, <1>9

\* The input of a report has prices in numbers, or none.
LEMMA InputIsMoney ==
  ASSUME NEW V, NEW s \in Seq(V), UniqueIdentities(s), NEW books, NEW now,
         books # <<>> => HoldsNumbers(books[1])
  PROVE  MoneyInput(NewInput(s, books, now))
  <1> DEFINE sorted == SortedAssets(s)
             n == Len(sorted)
             P(a) == IF books = <<>> THEN unknown ELSE Estimate(books[1], a)
             q == [i \in DOMAIN sorted |-> P(sorted[i])]
             in == NewInput(s, books, now)
             W == {q[i] : i \in 1..n}
  <1>1. sorted \in Seq(V) BY SortedElements
  <1>2. UniqueIdentities(sorted) BY UniqueSorted
  <1>3. in.assets = sorted /\ in.prices = q \o <<>> /\ in.book = books
    BY DEF NewInput, Map
  <1> HIDE DEF sorted, in
  <1>4. n \in Nat /\ DOMAIN sorted = 1..n BY <1>1
  <1>5. q = [i \in 1..n |-> q[i]] /\ \A i \in 1..n : q[i] = P(sorted[i]) BY <1>4
  <1>6. \A a : /\ P(a).priced => P(a).monthly \in Int
               /\ P(a).priced => books # <<>>
    <2> TAKE a
    <2>1. CASE books = <<>> BY <2>1, NoPrice
    <2>2. CASE books # <<>>
      <3>1. Sound(Estimate(books[1], a)) BY <2>2, EstimateSound
      <3>2. P(a) = Estimate(books[1], a) BY <2>2
      <3> HIDE DEF P
      <3> QED BY <2>2, <3>1, <3>2 DEF Sound
    <2> QED BY <2>1, <2>2
  <1> HIDE DEF P, q, n
  <1>7. q \in [1..n -> W] BY <1>5
  <1>8. q \in Seq(W) /\ Len(q) = n
    <2> HIDE DEF W
    <2> QED BY <1>4, <1>7
  <1>9. q \o <<>> = q /\ ToSet(q) = W
    <2>1. DOMAIN q = 1..n BY <1>5
    <2>2. ToSet(q) = W BY <2>1 DEF ToSet
    <2> HIDE DEF W
    <2> QED BY <1>8, <2>2
  <1>10. PricedInNumbers(n, q, W) BY <1>5, <1>6, <1>7 DEF PricedInNumbers
  <1>11. \A i \in 1..n : q[i].priced => books # <<>> BY <1>5, <1>6
  <1>12. IsList(sorted)
    <2>1. \A i \in 1..n : sorted[i] \in ToSet(sorted) BY <1>1 DEF ToSet, n
    <2> QED BY <1>1, <2>1 DEF IsList, n
  <1>13. MoneyInput(in)
    <2>1. in.prices = q /\ ToSet(in.prices) = W /\ Len(in.assets) = n BY <1>3, <1>9 DEF n
    <2> HIDE DEF W
    <2> QED BY <1>2, <1>3, <1>10, <1>11, <1>12, <2>1 DEF MoneyInput, Priced
  <1> QED BY <1>13 DEF in

\* The findings of the report in ans are made up by their rows, when the assets got have
\* an identity each.
TotalsAddUp(ans, got) ==
  ans.kind = "insights" /\ UniqueIdentities(got) => AllMadeUp(ans.report.findings)
ReportAdds == TotalsAddUp(answer, collected)

\* Which is what the property says.
LEMMA TotalsSay == RowsMakeUpTheTotal <=> ReportAdds
  BY Zenon DEF RowsMakeUpTheTotal, ReportAdds, TotalsAddUp, AllMadeUp, MadeUp

\* A report that is answered adds up.
LEMMA TotalsAnswered ==
  ASSUME CollectInv, NEW req \in Requests, Ask(req)
  PROVE  ReportAdds'
  <1>1. /\ answer' = CASE req.command = "insights" -> insightsAnswer(req)
                        [] req.command = "cost" -> costAnswer(req)
                        [] req.command = "check" -> checkAnswer(req)
                        [] OTHER -> diffAnswer(req)
        /\ collected' = collected
    BY DEF Ask
  <1>2. req.command \in {"insights", "cost", "check", "diff"} BY RequestsAreParsed
  <1> SUFFICES ASSUME answer'.kind = "insights", UniqueIdentities(collected'),
                      NEW f \in ToSet(answer'.report.findings)
               PROVE  MadeUp(f)
    BY DEF ReportAdds, TotalsAddUp, AllMadeUp
  <1> DEFINE books == IF req.cost THEN <<BookOf(req)>> ELSE <<>>
             slice == Slice(req.filter, collected)
             in == NewInput(slice, books, Today)
  <1>3. req.command = "insights" /\ answer' = insightsAnswer(req) BY <1>1, <1>2, Kinds
  <1>4. answer'.report = Run(in, req.only, req.severity, req.budget) /\ \A b \in ToSet(books) : IsBook(b)
    BY <1>3 DEF insightsAnswer, insightsPriced, insightsReported, Refused
  <1>5. books # <<>> => HoldsNumbers(books[1])
    <2>1. ASSUME req.cost PROVE books = <<BookOf(req)>> /\ books[1] \in ToSet(books)
      BY <2>1 DEF ToSet
    <2>2. ~req.cost => books = <<>> OBVIOUS
    <2>3. ASSUME req.cost PROVE HoldsNumbers(books[1])
      <3>1. books[1] = BookOf(req) BY <2>1, <2>3
      <3>2. IsBook(BookOf(req)) BY <1>4, <2>1, <2>3, <3>1
      <3> QED BY <1>3, <3>1, <3>2, NumbersAreRead
    <2> QED BY <2>2, <2>3
  <1>6. slice \in Seq(Collectable) /\ UniqueIdentities(slice)
    <2> DEFINE B == {a \in Collectable : Match(req.filter, a)}
    <2>1. collected \in Seq(Collectable) BY DEF CollectInv
    <2>2. slice = Keep(collected, B) BY <2>1, SliceIs
    <2>3. UniqueIdentities(collected) BY <1>1
    <2> HIDE DEF B, slice
    <2> QED BY <2>1, <2>2, <2>3, KeepElements, UniquePicked DEF Keep
  <1>7. MoneyInput(in)
    <2> HIDE DEF slice, books
    <2> QED BY <1>5, <1>6, InputIsMoney
  <1>8. req.budget \in Nat BY <1>3, RequestsAreParsed
  <1> HIDE DEF in
  <1>9. PICK id \in Ids : f \in ToSet(Findings(id, in))
    <2>1. f \in ToSet(Run(in, req.only, req.severity, req.budget).findings) BY <1>4
    <2> QED BY <1>8, <2>1, ReportedFrom
  <1> QED BY <1>7, <1>9, FindingsMadeUp DEF AllMadeUp

\* In a report over assets with an identity each, the rows under a total make it up, in
\* its currency: no spend is in two rows and none is left out (Totalled, byDimension,
\* byTagFinding, concentration).
THEOREM RowsAddUpToTotals == Spec => []RowsMakeUpTheTotal
  <1>1. Init => CollectInv /\ ReportAdds
    BY CollectStarts DEF Init, NoAnswer, ReportAdds, TotalsAddUp
  <1>2. CollectInv /\ ReportAdds /\ [Next]_vars => (CollectInv /\ ReportAdds)'
    <2> SUFFICES ASSUME CollectInv, ReportAdds, [Next]_vars PROVE ReportAdds'
      BY CollectSteps
    <2>1. ASSUME NEW p \in DOMAIN estate, NEW fails \in BOOLEAN, NEW n \in 0..Len(estate[p]),
                 Collect(p, n, fails)
          PROVE  ReportAdds'
      <3>1. answer'.kind = "none" BY <2>1 DEF Collect, NoAnswer
      <3> QED BY <3>1 DEF ReportAdds, TotalsAddUp
    <2>2. ASSUME NEW req \in Requests, Ask(req) PROVE ReportAdds'
      BY <2>2, TotalsAnswered
    <2>3. CASE UNCHANGED vars
      <3>1. answer' = answer /\ collected' = collected BY <2>3 DEF vars
      <3>2. TotalsAddUp(answer, collected) BY DEF ReportAdds
      <3>3. TotalsAddUp(answer', collected') BY ONLY <3>1, <3>2
      <3> QED BY ONLY <3>3 DEF ReportAdds
    <2> QED BY <2>1, <2>2, <2>3 DEF Next
  <1> QED BY <1>1, <1>2, TotalsSay, PTL DEF Spec
=============================================================================
