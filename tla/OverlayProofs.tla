---------------------------- MODULE OverlayProofs ----------------------------
(***************************************************************************)
(* What a row of the read model shows, proved for any commands, changes of *)
(* other users and fields: an overlay stays in view until it is confirmed, *)
(* overwritten, in conflict or cleared, and the baseline is the server's.  *)
(***************************************************************************)
EXTENDS Overlay, TLAPS, SequenceTheorems, WellFoundedInduction

LEMMA LeastOf ==
  ASSUME NEW S \in SUBSET Nat, S # {}
  PROVE  \E x \in S : \A y \in S : ~(y < x)
<1>1. PICK x \in S : \A y \in S : ~(<<y, x>> \in OpToRel(<, Nat))
  BY NatLessThanWellFounded, WFMin, Zenon
<1>. QED
  BY <1>1 DEF OpToRel

-----------------------------------------------------------------------------
(* The commands run again: the last one issued shows.                      *)

IsShown(F, content, again, n) ==
  F = [i \in 0..n |-> IF i = 0 THEN content
                      ELSE IF issued[i] \in again THEN Put(F[i - 1], issued[i]) ELSE F[i - 1]]

LEMMA ShownUpTo ==
  ASSUME NEW content, NEW again, NEW n \in Nat
  PROVE  \E F : IsShown(F, content, again, n)
<1>. DEFINE S == {q \in Nat : ~\E F : IsShown(F, content, again, q)}
<1>1. SUFFICES ASSUME S # {} PROVE FALSE
  OBVIOUS
<1>2. PICK q \in S : \A y \in S : ~(y < q)
  BY <1>1, LeastOf
<1>3. q # 0
  <2>1. IsShown([i \in 0..0 |-> content], content, again, 0)
    BY DEF IsShown
  <2>. QED
    BY <2>1
<1>4. q - 1 \in Nat /\ q - 1 < q
  BY <1>3
<1>5. PICK F : IsShown(F, content, again, q - 1)
  BY <1>2, <1>4
<1>. DEFINE G == [i \in 0..q |->
                    IF i = q THEN IF issued[i] \in again THEN Put(F[i - 1], issued[i]) ELSE F[i - 1]
                    ELSE F[i]]
<1>6. IsShown(G, content, again, q)
  <2>1. ASSUME NEW i \in 0..q
        PROVE  G[i] = IF i = 0 THEN content
                      ELSE IF issued[i] \in again THEN Put(G[i - 1], issued[i]) ELSE G[i - 1]
    <3>1. CASE i = 0
      BY <1>3, <1>4, <1>5, <3>1 DEF IsShown
    <3>2. CASE i # 0
      <4>1. i - 1 \in 0..(q - 1) /\ i - 1 # q /\ i - 1 \in 0..q
        BY <3>2
      <4>2. G[i - 1] = F[i - 1]
        BY <4>1
      <4>. QED
        BY <1>4, <1>5, <3>2, <4>1, <4>2 DEF IsShown
    <3>. QED
      BY <3>1, <3>2
  <2>. QED
    BY <2>1 DEF IsShown
<1>. QED
  BY <1>6

LEMMA RerunIs ==
  ASSUME NEW content, NEW again, Len(issued) \in Nat
  PROVE  \E F : IsShown(F, content, again, Len(issued)) /\ Rerun(content, again) = F[Len(issued)]
<1>1. \E F : IsShown(F, content, again, Len(issued))
  BY ShownUpTo
<1>. QED
  BY <1>1 DEF Rerun, IsShown

\* A field shows the last of the commands run again that sets it, or what it showed before.
LEMMA RerunShows ==
  ASSUME NEW content \in Content, NEW again, issued \in Seq(Cmd)
  PROVE  /\ Rerun(content, again) \in Content
         /\ \A f \in Field :
              \/ /\ Rerun(content, again)[f] = content[f]
                 /\ \A i \in DOMAIN issued : issued[i] \in again => Writes[issued[i]] # f
              \/ \E j \in DOMAIN issued :
                   /\ issued[j] \in again /\ Writes[issued[j]] = f /\ Rerun(content, again)[f] = issued[j]
                   /\ \A i \in DOMAIN issued : issued[i] \in again /\ Writes[issued[i]] = f => i <= j
<1>1. /\ Len(issued) \in Nat /\ DOMAIN issued = 1..Len(issued)
      /\ \A i \in 1..Len(issued) : issued[i] \in Cmd
  BY LenProperties, ElementOfSeq
<1>2. PICK F : IsShown(F, content, again, Len(issued)) /\ Rerun(content, again) = F[Len(issued)]
  BY <1>1, RerunIs
<1>3. /\ F[0] = content
      /\ \A i \in 1..Len(issued) :
           F[i] = IF issued[i] \in again THEN Put(F[i - 1], issued[i]) ELSE F[i - 1]
  BY <1>1, <1>2 DEF IsShown
<1>. DEFINE Good(k) ==
       /\ F[k] \in Content
       /\ \A f \in Field :
            \/ /\ F[k][f] = content[f]
               /\ \A i \in 1..k : issued[i] \in again => Writes[issued[i]] # f
            \/ \E j \in 1..k :
                 /\ issued[j] \in again /\ Writes[issued[j]] = f /\ F[k][f] = issued[j]
                 /\ \A i \in 1..k : issued[i] \in again /\ Writes[issued[i]] = f => i <= j
            S == {k \in 0..Len(issued) : ~Good(k)}
<1>4. S = {}
  <2>1. SUFFICES ASSUME S # {} PROVE FALSE
    OBVIOUS
  <2>2. S \in SUBSET Nat
    OBVIOUS
  <2>. HIDE DEF Good
  <2>3. PICK k \in S : \A y \in S : ~(y < k)
    BY <2>1, <2>2, LeastOf
  <2>4. k # 0
    <3>1. Good(0)
      BY <1>3 DEF Good
    <3>. QED
      BY <3>1
  <2>5. k \in 1..Len(issued) /\ k - 1 \in 0..Len(issued) /\ Good(k - 1)
    BY <1>1, <2>3, <2>4
  <2>6. Good(k)
    <3>1. CASE issued[k] \notin again
      <4>1. F[k] = F[k - 1] /\ \A i \in 1..k : issued[i] \in again => i \in 1..(k - 1)
        BY <1>1, <1>3, <2>5, <3>1
      <4>2. 1..(k - 1) \subseteq 1..k
        BY <2>5
      <4>. QED
        BY <2>5, <4>1, <4>2 DEF Good
    <3>2. CASE issued[k] \in again
      <4>1. F[k] = [F[k - 1] EXCEPT ![Writes[issued[k]]] = issued[k]] /\ issued[k] \in Author
            /\ F[k - 1] \in Content
        BY <1>1, <1>3, <2>5, <3>2 DEF Put, Author, Good
      <4>2. F[k] \in Content
        BY <4>1 DEF Content
      <4>3. ASSUME NEW f \in Field, f # Writes[issued[k]]
            PROVE  \/ /\ F[k][f] = content[f]
                      /\ \A i \in 1..k : issued[i] \in again => Writes[issued[i]] # f
                   \/ \E j \in 1..k :
                        /\ issued[j] \in again /\ Writes[issued[j]] = f /\ F[k][f] = issued[j]
                        /\ \A i \in 1..k : issued[i] \in again /\ Writes[issued[i]] = f => i <= j
        <5>1. F[k][f] = F[k - 1][f]
          BY <4>1, <4>3 DEF Content
        <5>2. \A i \in 1..k : i \in 1..(k - 1) \/ i = k
          BY <2>5
        <5>3. 1..(k - 1) \subseteq 1..k
          BY <2>5
        <5>. QED
          BY <2>5, <4>3, <5>1, <5>2, <5>3 DEF Good
      <4>4. ASSUME NEW f \in Field, f = Writes[issued[k]]
            PROVE  \E j \in 1..k :
                     /\ issued[j] \in again /\ Writes[issued[j]] = f /\ F[k][f] = issued[j]
                     /\ \A i \in 1..k : issued[i] \in again /\ Writes[issued[i]] = f => i <= j
        <5>1. F[k][f] = issued[k] /\ k \in 1..k /\ \A i \in 1..k : i <= k
          BY <2>5, <4>1, <4>4 DEF Content
        <5>. QED
          BY <3>2, <4>4, <5>1
      <4>. QED
        BY <4>2, <4>3, <4>4 DEF Good
    <3>. QED
      BY <3>1, <3>2
  <2>. QED
    BY <2>3, <2>6
<1>5. Good(Len(issued))
  BY <1>1, <1>4
<1>. QED
  BY <1>1, <1>2, <1>5

-----------------------------------------------------------------------------
(* What the server holds.                                                  *)

\* Truth, of any log.
Writers(l, f, n) == {k \in 1..n : Writes[l[k]] = f}
TruthOf(l, n) ==
  [f \in Field |-> IF Writers(l, f, n) = {} THEN Nobody
                   ELSE l[CHOOSE k \in Writers(l, f, n) : \A j \in Writers(l, f, n) : j <= k]]

LEMMA TruthValue ==
  ASSUME NEW l, NEW n \in Nat, NEW f \in Field
  PROVE  \/ Writers(l, f, n) = {} /\ TruthOf(l, n)[f] = Nobody
         \/ \E k \in Writers(l, f, n) : TruthOf(l, n)[f] = l[k] /\ \A j \in Writers(l, f, n) : j <= k
<1>1. TruthOf(l, n)[f] = IF Writers(l, f, n) = {} THEN Nobody
                    ELSE l[CHOOSE k \in Writers(l, f, n) : \A j \in Writers(l, f, n) : j <= k]
  BY DEF TruthOf
<1>2. ASSUME Writers(l, f, n) # {}
      PROVE  \E k \in Writers(l, f, n) : \A j \in Writers(l, f, n) : j <= k
  <2>. DEFINE T == {n - k : k \in Writers(l, f, n)}
  <2>1. \A k \in Writers(l, f, n) : k \in 1..n /\ n - k \in Nat
    BY DEF Writers
  <2>2. T \in SUBSET Nat /\ T # {}
    BY <1>2, <2>1
  <2>3. PICK x \in T : \A y \in T : ~(y < x)
    BY <2>2, LeastOf
  <2>4. PICK k \in Writers(l, f, n) : x = n - k
    OBVIOUS
  <2>5. ASSUME NEW j \in Writers(l, f, n) PROVE j <= k
    <3>1. ~(n - j < n - k)
      BY <2>3, <2>4
    <3>. QED
      BY <2>1, <3>1
  <2>. QED
    BY <2>5
<1>. QED
  BY <1>1, <1>2

\* An event sets its field and leaves the others.
LEMMA TruthStep ==
  ASSUME NEW l \in Seq(Author), NEW n \in 1..Len(l)
  PROVE  TruthOf(l, n) = Put(TruthOf(l, n - 1), l[n])
<1>1. n \in Nat /\ n - 1 \in Nat /\ l[n] \in Author /\ Writes[l[n]] \in Field
  BY AuthorAssumption, LenProperties, ElementOfSeq
<1>2. ASSUME NEW f \in Field
      PROVE  TruthOf(l, n)[f] = IF f = Writes[l[n]] THEN l[n] ELSE TruthOf(l, n - 1)[f]
  <2>1. \A k : k \in 1..n <=> k \in 1..(n - 1) \/ k = n
    BY <1>1
  <2>2. CASE f = Writes[l[n]]
    <3>1. n \in Writers(l, f, n) /\ \A k \in Writers(l, f, n) : k \in 1..n
      BY <1>1, <2>2 DEF Writers
    <3>2. PICK k \in Writers(l, f, n) : TruthOf(l, n)[f] = l[k] /\ \A j \in Writers(l, f, n) : j <= k
      BY <1>1, <3>1, TruthValue
    <3>3. k = n
      BY <1>1, <3>1, <3>2
    <3>. QED
      BY <2>2, <3>2, <3>3
  <2>3. CASE f # Writes[l[n]]
    <3>1. Writers(l, f, n) = Writers(l, f, n - 1)
      BY <2>1, <2>3 DEF Writers
    <3>2. \A k, j \in Writers(l, f, n) : k \in Nat /\ j \in Nat
      BY <1>1 DEF Writers
    <3>3. \/ Writers(l, f, n) = {} /\ TruthOf(l, n)[f] = Nobody
          \/ \E k \in Writers(l, f, n) : TruthOf(l, n)[f] = l[k] /\ \A j \in Writers(l, f, n) : j <= k
      BY <1>1, TruthValue
    <3>4. \/ Writers(l, f, n) = {} /\ TruthOf(l, n - 1)[f] = Nobody
          \/ \E k \in Writers(l, f, n) : TruthOf(l, n - 1)[f] = l[k] /\ \A j \in Writers(l, f, n) : j <= k
      BY <1>1, <3>1, TruthValue
    <3>5. TruthOf(l, n)[f] = TruthOf(l, n - 1)[f]
      <4>1. ASSUME NEW k \in Writers(l, f, n), NEW j \in Writers(l, f, n),
                   \A i \in Writers(l, f, n) : i <= k, \A i \in Writers(l, f, n) : i <= j
            PROVE  k = j
        BY <3>2, <4>1
      <4>. QED
        BY <3>3, <3>4, <4>1
    <3>. QED
      BY <2>3, <3>5
  <2>. QED
    BY <2>2, <2>3
<1>3. TruthOf(l, n) = [f \in Field |-> IF f = Writes[l[n]] THEN l[n] ELSE TruthOf(l, n - 1)[f]]
  <2>1. TruthOf(l, n) = [f \in Field |-> TruthOf(l, n)[f]]
    BY DEF TruthOf
  <2>. QED
    BY <1>2, <2>1
<1>4. Put(TruthOf(l, n - 1), l[n]) = [f \in Field |-> IF f = Writes[l[n]] THEN l[n] ELSE TruthOf(l, n - 1)[f]]
  <2>1. TruthOf(l, n - 1) = [f \in Field |-> TruthOf(l, n - 1)[f]]
    BY DEF TruthOf
  <2>. QED
    BY <1>1, <2>1 DEF Put
<1>. QED
  BY <1>3, <1>4

LEMMA TruthType ==
  ASSUME NEW l \in Seq(Author), NEW n \in 0..Len(l)
  PROVE  TruthOf(l, n) \in Content
<1>1. Len(l) \in Nat /\ \A k \in 1..Len(l) : l[k] \in Author
  BY LenProperties, ElementOfSeq
<1>2. ASSUME NEW f \in Field PROVE TruthOf(l, n)[f] \in Author \cup {Nobody}
  BY <1>1, TruthValue DEF Writers
<1>. QED
  BY <1>2 DEF TruthOf, Content

\* The content after n events is that of the first n events.
LEMMA TruthOfFirst ==
  ASSUME NEW l, NEW m, NEW n \in Nat, \A k \in 1..n : m[k] = l[k]
  PROVE  TruthOf(m, n) = TruthOf(l, n)
<1>1. ASSUME NEW f \in Field PROVE TruthOf(m, n)[f] = TruthOf(l, n)[f]
  <2>1. Writers(m, f, n) = Writers(l, f, n) /\ \A k \in Writers(l, f, n) : k \in Nat /\ m[k] = l[k]
    BY DEF Writers
  <2>2. \/ Writers(l, f, n) = {} /\ TruthOf(l, n)[f] = Nobody
        \/ \E k \in Writers(l, f, n) : TruthOf(l, n)[f] = l[k] /\ \A j \in Writers(l, f, n) : j <= k
    BY TruthValue
  <2>3. \/ Writers(l, f, n) = {} /\ TruthOf(m, n)[f] = Nobody
        \/ \E k \in Writers(l, f, n) : TruthOf(m, n)[f] = m[k] /\ \A j \in Writers(l, f, n) : j <= k
    BY <2>1, TruthValue
  <2>4. ASSUME NEW k \in Writers(l, f, n), NEW j \in Writers(l, f, n),
               \A i \in Writers(l, f, n) : i <= k, \A i \in Writers(l, f, n) : i <= j
        PROVE  k = j
    BY <2>1, <2>4
  <2>. QED
    BY <2>1, <2>2, <2>3, <2>4
<1>2. TruthOf(m, n) = [f \in Field |-> TruthOf(m, n)[f]] /\ TruthOf(l, n) = [f \in Field |-> TruthOf(l, n)[f]]
  BY DEF TruthOf
<1>. QED
  BY <1>1, <1>2

\* A new event changes no earlier content.
LEMMA TruthAppend ==
  ASSUME NEW l \in Seq(Author), NEW a \in Author, NEW n \in 0..Len(l)
  PROVE  TruthOf(Append(l, a), n) = TruthOf(l, n)
<1>1. n \in Nat /\ \A k \in 1..n : Append(l, a)[k] = l[k]
  BY LenProperties, AppendProperties
<1>2. \A m : (\A k \in 1..n : m[k] = l[k]) => TruthOf(m, n) = TruthOf(l, n)
  BY <1>1, TruthOfFirst
<1>. QED
  BY <1>1, <1>2

LEMMA TruthIs == \A n : Truth(n) = TruthOf(log, n) /\ Truth(n)' = TruthOf(log', n)
BY DEF Truth, TruthOf, Writers

-----------------------------------------------------------------------------
(* Merging events under an overlay.                                        *)

Clean(r) == ~r.dirty => r.local = r.server

LEMMA MergeServerIs ==
  ASSUME log \in Seq(Author), NEW r \in Row, Clean(r), NEW n \in 1..Len(log)
  PROVE  /\ MergeServer(r, n) \in Row /\ Clean(MergeServer(r, n))
         /\ MergeServer(r, n).revision = n
         /\ MergeServer(r, n).server = Put(r.server, log[n])
         /\ \A f \in Field : MergeServer(r, n).local[f] =
              IF r.local[f] # r.server[f] THEN r.local[f] ELSE Put(r.server, log[n])[f]
<1>. DEFINE new == Put(r.server, log[n])
            changed == IF r.dirty THEN {f \in Field : r.local[f] # r.server[f]} ELSE {}
            s == MergeServer(r, n)
<1>1. /\ r.server \in Content /\ r.local \in Content /\ r.dirty \in BOOLEAN /\ n \in Nat
      /\ log[n] \in Author
  BY LenProperties, ElementOfSeq DEF Row
<1>2. new \in Content
  BY <1>1 DEF Put, Content
<1>3. s = [server |-> new, local |-> [f \in Field |-> IF f \in changed THEN r.local[f] ELSE new[f]],
           dirty |-> changed # {}, revision |-> n]
  BY DEF MergeServer
<1>4. \A f \in Field : f \in changed <=> r.local[f] # r.server[f]
  BY <1>1 DEF Clean
<1>. HIDE DEF new, changed
<1>5. [f \in Field |-> IF f \in changed THEN r.local[f] ELSE new[f]] \in Content
  BY <1>1, <1>2 DEF Content
<1>6. s \in Row
  BY <1>1, <1>2, <1>3, <1>5 DEF Row
<1>7. Clean(s)
  <2>1. changed = {} => [f \in Field |-> IF f \in changed THEN r.local[f] ELSE new[f]] = new
    BY <1>2 DEF Content
  <2>2. /\ s.server = new /\ s.local = [f \in Field |-> IF f \in changed THEN r.local[f] ELSE new[f]]
        /\ s.dirty = (changed # {})
    BY <1>3
  <2>. HIDE DEF s
  <2>. QED
    BY <2>1, <2>2 DEF Clean
<1>. QED
  BY <1>3, <1>4, <1>6, <1>7 DEF new

IsMerged(F, r, m, n) ==
  F = [k \in m..n |-> IF k = m THEN r ELSE MergeServer(F[k - 1], k)]

LEMMA MergedUpTo ==
  ASSUME NEW r, NEW m \in Nat, NEW n \in Nat, m <= n
  PROVE  \E F : IsMerged(F, r, m, n)
<1>. DEFINE S == {q \in Nat : m <= q /\ ~\E F : IsMerged(F, r, m, q)}
<1>1. SUFFICES ASSUME S # {} PROVE FALSE
  OBVIOUS
<1>2. PICK q \in S : \A y \in S : ~(y < q)
  BY <1>1, LeastOf
<1>3. q # m
  <2>1. IsMerged([k \in m..m |-> r], r, m, m)
    BY DEF IsMerged
  <2>. QED
    BY <2>1
<1>4. q - 1 \in Nat /\ q - 1 < q /\ m <= q - 1
  BY <1>3
<1>5. PICK F : IsMerged(F, r, m, q - 1)
  BY <1>2, <1>4
<1>. DEFINE G == [k \in m..q |-> IF k = q THEN MergeServer(F[k - 1], k) ELSE F[k]]
<1>6. IsMerged(G, r, m, q)
  <2>1. ASSUME NEW k \in m..q
        PROVE  G[k] = IF k = m THEN r ELSE MergeServer(G[k - 1], k)
    <3>1. CASE k = m
      BY <1>3, <1>4, <1>5, <3>1 DEF IsMerged
    <3>2. CASE k # m
      <4>1. k - 1 \in m..(q - 1) /\ k - 1 # q /\ k - 1 \in m..q
        BY <3>2
      <4>2. G[k - 1] = F[k - 1]
        BY <4>1
      <4>. QED
        BY <1>4, <1>5, <3>2, <4>1, <4>2 DEF IsMerged
    <3>. QED
      BY <3>1, <3>2
  <2>. QED
    BY <2>1 DEF IsMerged
<1>. QED
  BY <1>6

Merges(F, r, m, n) ==
  /\ MergeAll(r, m, n) = F[n] /\ F[m] = r
  /\ \A k \in (m + 1)..n : F[k] = MergeServer(F[k - 1], k)

LEMMA MergeAllIs ==
  ASSUME NEW r, NEW m \in Nat, NEW n \in Nat, m <= n
  PROVE  \E F : Merges(F, r, m, n)
<1>1. \E F : IsMerged(F, r, m, n)
  BY MergedUpTo
<1>2. PICK F : IsMerged(F, r, m, n) /\ MergeAll(r, m, n) = F[n]
  BY <1>1 DEF MergeAll, IsMerged
<1>3. F[m] = r /\ \A k \in (m + 1)..n : F[k] = MergeServer(F[k - 1], k)
  BY <1>2 DEF IsMerged
<1>. QED
  BY <1>2, <1>3 DEF Merges

LEMMA MergeAllRow ==
  ASSUME log \in Seq(Author), NEW r \in Row, Clean(r), NEW m \in Nat, NEW n \in m..Len(log)
  PROVE  /\ MergeAll(r, m, n) \in Row /\ Clean(MergeAll(r, m, n))
         /\ MergeAll(r, m, n).revision = IF n = m THEN r.revision ELSE n
         /\ r.server = TruthOf(log, m) => MergeAll(r, m, n).server = TruthOf(log, n)
<1>1. Len(log) \in Nat /\ n \in Nat /\ m <= n
  BY LenProperties
<1>a. PICK F : Merges(F, r, m, n)
  BY <1>1, MergeAllIs, Zenon
<1>2. /\ MergeAll(r, m, n) = F[n] /\ F[m] = r
      /\ \A k \in (m + 1)..n : F[k] = MergeServer(F[k - 1], k)
  BY <1>a DEF Merges
<1>. DEFINE Good(k) ==
       /\ F[k] \in Row /\ Clean(F[k])
       /\ F[k].revision = IF k = m THEN r.revision ELSE k
       /\ r.server = TruthOf(log, m) => F[k].server = TruthOf(log, k)
            S == {k \in m..n : ~Good(k)}
<1>3. S = {}
  <2>1. SUFFICES ASSUME S # {} PROVE FALSE
    OBVIOUS
  <2>2. S \in SUBSET Nat
    BY <1>1
  <2>3. PICK k \in S : \A y \in S : ~(y < k)
    BY <2>1, <2>2, LeastOf
  <2>4. k # m
    BY <1>2, <2>3
  <2>. HIDE DEF Good
  <2>5. k \in (m + 1)..n /\ k - 1 \in m..n /\ k \in 1..Len(log) /\ Good(k - 1)
    BY <1>1, <2>3, <2>4
  <2>6. F[k] = MergeServer(F[k - 1], k) /\ F[k - 1] \in Row /\ Clean(F[k - 1])
    BY <1>2, <2>5 DEF Good
  <2>7. /\ F[k] \in Row /\ Clean(F[k]) /\ F[k].revision = k
        /\ F[k].server = Put(F[k - 1].server, log[k])
    BY <2>5, <2>6, MergeServerIs
  <2>8. TruthOf(log, k) = Put(TruthOf(log, k - 1), log[k])
    BY <2>5, TruthStep
  <2>9. Good(k)
    BY <2>4, <2>5, <2>7, <2>8 DEF Good
  <2>. QED
    BY <2>3, <2>9
<1>4. Good(n)
  BY <1>1, <1>3
<1>. QED
  BY <1>2, <1>4

\* Merging replaces what a field shows only when that is the baseline, and the
\* author of what it shows then comes later in the stream.
LEMMA MergeAllShows ==
  ASSUME log \in Seq(Author), NEW r \in Row, Clean(r), NEW m \in Nat, NEW n \in m..Len(log),
         NEW f \in Field
  PROVE  \/ MergeAll(r, m, n).local[f] = r.local[f]
         \/ \E j \in (m + 1)..n :
              /\ MergeAll(r, m, n).local[f] = log[j] /\ Writes[log[j]] = f
              /\ r.local[f] = r.server[f] \/ \E i \in (m + 1)..(j - 1) : r.local[f] = log[i]
<1>1. Len(log) \in Nat /\ n \in Nat /\ m <= n
  BY LenProperties
<1>a. PICK F : Merges(F, r, m, n)
  BY <1>1, MergeAllIs, Zenon
<1>2. /\ MergeAll(r, m, n) = F[n] /\ F[m] = r
      /\ \A k \in (m + 1)..n : F[k] = MergeServer(F[k - 1], k)
  BY <1>a DEF Merges
<1>. DEFINE Kept(k) ==
       /\ F[k].local[f] = r.local[f]
       /\ F[k].server[f] = r.server[f] \/ \E i \in (m + 1)..k : F[k].server[f] = log[i]
            Passed(k) == \E j \in (m + 1)..k :
              /\ F[k].local[f] = log[j] /\ F[k].server[f] = log[j] /\ Writes[log[j]] = f
              /\ r.local[f] = r.server[f] \/ \E i \in (m + 1)..(j - 1) : r.local[f] = log[i]
            Good(k) == F[k] \in Row /\ Clean(F[k]) /\ (Kept(k) \/ Passed(k))
            S == {k \in m..n : ~Good(k)}
<1>3. S = {}
  <2>1. SUFFICES ASSUME S # {} PROVE FALSE
    OBVIOUS
  <2>2. S \in SUBSET Nat
    BY <1>1
  <2>3. PICK k \in S : \A y \in S : ~(y < k)
    BY <2>1, <2>2, LeastOf
  <2>4. k # m
    BY <1>2, <2>3
  <2>. HIDE DEF Good, Kept, Passed
  <2>5. k \in (m + 1)..n /\ k - 1 \in m..n /\ k \in 1..Len(log) /\ Good(k - 1)
    BY <1>1, <2>3, <2>4
  <2>6. F[k] = MergeServer(F[k - 1], k) /\ F[k - 1] \in Row /\ Clean(F[k - 1])
    BY <1>2, <2>5 DEF Good
  <2>7. /\ F[k] \in Row /\ Clean(F[k])
        /\ F[k].server = Put(F[k - 1].server, log[k])
        /\ F[k].local[f] = IF F[k - 1].local[f] # F[k - 1].server[f] THEN F[k - 1].local[f]
                           ELSE Put(F[k - 1].server, log[k])[f]
    BY <2>5, <2>6, MergeServerIs
  <2>8. F[k - 1].server \in Content
    BY <2>6 DEF Row
  <2>9. Put(F[k - 1].server, log[k])[f] = IF Writes[log[k]] = f THEN log[k] ELSE F[k - 1].server[f]
    BY <2>8 DEF Put, Content
  <2>10. /\ \A i \in (m + 1)..(k - 1) : i \in (m + 1)..k
         /\ k - 1 \in Nat /\ k \in Nat
         /\ \A j \in (m + 1)..(k - 1) : \A i \in (m + 1)..(j - 1) : i \in (m + 1)..(k - 1)
    BY <1>1, <2>5
  <2>11. CASE Writes[log[k]] # f
    <3>1. F[k].local[f] = F[k - 1].local[f] /\ F[k].server[f] = F[k - 1].server[f]
      BY <2>7, <2>9, <2>11
    <3>2. Kept(k - 1) => Kept(k)
      BY <2>10, <3>1 DEF Kept
    <3>3. Passed(k - 1) => Passed(k)
      BY <2>10, <3>1 DEF Passed
    <3>4. Good(k)
      BY <2>5, <2>7, <3>2, <3>3 DEF Good
    <3>. QED
      BY <2>3, <3>4
  <2>12. CASE Writes[log[k]] = f
    <3>1. F[k].server[f] = log[k]
      BY <2>7, <2>9, <2>12
    <3>2. CASE F[k - 1].local[f] # F[k - 1].server[f]
      <4>1. F[k].local[f] = F[k - 1].local[f]
        BY <2>7, <3>2
      <4>2. Kept(k - 1)
        BY <2>5, <3>2 DEF Good, Passed
      <4>3. Kept(k)
        BY <2>5, <3>1, <4>1, <4>2 DEF Kept
      <4>. QED
        BY <2>3, <2>7, <4>3 DEF Good
    <3>3. CASE F[k - 1].local[f] = F[k - 1].server[f]
      <4>1. F[k].local[f] = log[k]
        BY <2>7, <2>9, <2>12, <3>3
      <4>2. Kept(k - 1) => r.local[f] = r.server[f] \/ \E i \in (m + 1)..(k - 1) : r.local[f] = log[i]
        BY <3>3 DEF Kept
      <4>3. Passed(k - 1) => r.local[f] = r.server[f] \/ \E i \in (m + 1)..(k - 1) : r.local[f] = log[i]
        BY <2>10 DEF Passed
      <4>4. r.local[f] = r.server[f] \/ \E i \in (m + 1)..(k - 1) : r.local[f] = log[i]
        BY <2>5, <4>2, <4>3 DEF Good
      <4>5. Passed(k)
        BY <2>5, <2>12, <3>1, <4>1, <4>4 DEF Passed
      <4>. QED
        BY <2>3, <2>7, <4>5 DEF Good
    <3>. QED
      BY <3>2, <3>3
  <2>. QED
    BY <2>11, <2>12
<1>4. Good(n)
  BY <1>1, <1>3
<1>. QED
  BY <1>2, <1>4

-----------------------------------------------------------------------------
(* The inductive invariant.                                                *)

States == {"none"} \cup Outstanding \cup Ended
Op == [kind : {"drain"}] \cup [kind : {"anticipate"}, cmd : Cmd]
Cleanup == [kind : {"none", "begun", "done", "overtaken"}] \cup [kind : {"read"}, row : Row]
Drain == [kind : {"drain"}, upto : Nat, after : Nat, shown : Seq(Content),
          conflicts : SUBSET Cmd, covered : SUBSET Cmd]
Running ==
  [kind : {"none"}] \cup [kind : {"anticipate"}, cmd : Cmd, row : Row]
  \cup [kind : {"track"}, cmd : Cmd] \cup Drain
  \cup [kind : {"commit"}, row : Row, drain : Drain]
  \cup [kind : {"confirm"}, drain : Drain] \cup [kind : {"ending"}, failed : SUBSET Cmd]

Types ==
  /\ log \in Seq(Author) /\ received \in Nat /\ known \in Nat
  /\ known <= received /\ received <= Len(log)
  /\ row \in Row
  /\ issued \in Seq(Cmd) /\ status \in [Cmd -> States]
  /\ tracked \in SUBSET Cmd /\ conflicted \in SUBSET Cmd /\ checking \in SUBSET Cmd
  /\ clearing \in [Cmd -> Cleanup]
  /\ ops \in Seq(Op)
  /\ running \in Running

\* A row read or stored has no more events than the server, and shows what
\* differs from its baseline only when it is marked.
RowOK(r) == r.revision <= Len(log) /\ Clean(r)
Rows ==
  /\ RowOK(row)
  /\ \A c \in Cmd : clearing[c].kind = "read" => RowOK(clearing[c].row)
  /\ running.kind \in {"anticipate", "commit"} => RowOK(running.row)

\* Commands and events in their orders: a command is sent after those before
\* it have ended, so their events are in the order they were issued.
Before(c, d) == \E i, j \in DOMAIN issued : i < j /\ issued[i] = c /\ issued[j] = d
Orders ==
  /\ \A i, j \in DOMAIN issued : issued[i] = issued[j] => i = j
  /\ \A c \in Cmd : status[c] # "none" <=> \E i \in DOMAIN issued : issued[i] = c
  /\ \A m, n \in DOMAIN log : log[m] = log[n] => m = n
  /\ \A c \in Cmd : Accepted(c) => status[c] \notin {"none", "pending"}
  /\ \A c \in Cmd : status[c] \in {"succeeded", "applied"} => Accepted(c)
  /\ \A c, d \in Cmd : Before(c, d) /\ (status[d] \in {"sending", "succeeded", "applied"} \/ Accepted(d))
                         => status[c] \in Ended
  /\ \A c, d \in Cmd : Before(c, d) /\ Accepted(c) /\ Accepted(d) => Revision(c) < Revision(d)
  /\ \A c \in Cmd : clearing[c].kind # "none" => status[c] = "failed"
  /\ \A c \in checking : status[c] \in {"succeeded", "applied"}

\* What a running drain has loaded.
Current(d) ==
  /\ d.after <= d.upto /\ d.upto = known
  /\ \A c \in d.covered : /\ status[c] \in {"succeeded", "applied"}
                          /\ Accepted(c) /\ Revision(c) <= d.upto
Loaded ==
  /\ running.kind = "drain" => Current(running)
  /\ running.kind \in {"commit", "confirm"} => Current(running.drain)

\* The overlays still to be laid are in the order the commands were issued.
Queued(c) == \E i \in DOMAIN ops : ops[i] = [kind |-> "anticipate", cmd |-> c]
Laying == running.kind \in {"anticipate", "track"}
Queue ==
  /\ \A i, j \in DOMAIN ops :
       i < j /\ ops[i].kind = "anticipate" /\ ops[j].kind = "anticipate" => Before(ops[i].cmd, ops[j].cmd)
  /\ Laying => \A c \in Cmd : Queued(c) => Before(running.cmd, c)
  /\ \A c, d \in Cmd : Before(c, d) /\ Anticipating(c) => Anticipating(d)
  /\ \A c \in Cmd : Anticipating(c) => status[c] # "none"

\* As long as no cleanup has written over a commit.
NotOvertaken == \A c \in Cmd : clearing[c].kind # "overtaken"
Reads == running.kind \in {"anticipate", "commit"}
Baseline ==
  NotOvertaken =>
    /\ row.server = TruthOf(log, row.revision)
    /\ Reads => running.row.server = row.server /\ running.row.revision = row.revision
    /\ \A c \in Cmd : clearing[c].kind = "read" =>
         clearing[c].row.server = TruthOf(log, clearing[c].row.revision)
    /\ running.kind \notin {"drain", "commit"} => row.revision = known
    /\ running.kind = "drain" => row.revision = running.after
    /\ running.kind = "commit" => row.revision = running.drain.after
    /\ \A c \in Cmd : status[c] = "applied" => Revision(c) <= row.revision

\* As long as no cleanup has written the row at all.
Shows(content, c) == content[Writes[c]] \in {c} \cup Successors(c)
Laid(c) ==
  status[c] \in {"pending", "sending", "succeeded"} /\ c \notin conflicted /\ ~Anticipating(c)
Views ==
  ~Cleared =>
    /\ Reads => running.row = row
    /\ running.kind = "track" => row.local[Writes[running.cmd]] = running.cmd
    /\ \A c \in Cmd : Laid(c) => Shows(row.local, c)
    /\ running.kind = "drain" /\ running.shown # <<>> =>
         \A c \in Cmd : Laid(c) => Shows(running.shown[1], c)
    /\ running.kind = "commit" /\ running.drain.shown # <<>> =>
         \A c \in Cmd : Laid(c) => Shows(running.drain.shown[1], c)

OverlayInv == Types /\ Rows /\ Orders /\ Loaded /\ Queue /\ Baseline /\ Views

-----------------------------------------------------------------------------
(* Shapes.                                                                 *)

LEMMA RunningShapes ==
  ASSUME NEW r \in Running
  PROVE  /\ r.kind \in {"none", "anticipate", "track", "drain", "commit", "confirm", "ending"}
         /\ r.kind = "none" <=> r = Idle
         /\ r.kind = "anticipate" => r.cmd \in Cmd /\ r.row \in Row
         /\ r.kind = "track" => r.cmd \in Cmd
         /\ r.kind = "drain" => r \in Drain
         /\ r.kind = "commit" => r.row \in Row /\ r.drain \in Drain
         /\ r.kind = "confirm" => r.drain \in Drain
         /\ r.kind = "ending" => r.failed \in SUBSET Cmd
<1>1. CASE r \in [kind : {"none"}]
  BY <1>1 DEF Idle
<1>2. CASE r \in [kind : {"anticipate"}, cmd : Cmd, row : Row]
  BY <1>2 DEF Idle
<1>3. CASE r \in [kind : {"track"}, cmd : Cmd]
  BY <1>3 DEF Idle
<1>4. CASE r \in Drain
  <2>1. r.kind = "drain"
    BY <1>4 DEF Drain
  <2>. QED
    BY <1>4, <2>1 DEF Idle
<1>5. CASE r \in [kind : {"commit"}, row : Row, drain : Drain]
  BY <1>5 DEF Idle
<1>6. CASE r \in [kind : {"confirm"}, drain : Drain]
  BY <1>6 DEF Idle
<1>7. CASE r \in [kind : {"ending"}, failed : SUBSET Cmd]
  BY <1>7 DEF Idle
<1>. QED
  BY <1>1, <1>2, <1>3, <1>4, <1>5, <1>6, <1>7 DEF Running

LEMMA CleanupShapes ==
  ASSUME NEW r \in Cleanup
  PROVE  /\ r.kind \in {"none", "begun", "read", "done", "overtaken"}
         /\ r.kind = "read" => r.row \in Row
BY DEF Cleanup

LEMMA OpShapes ==
  ASSUME NEW o \in Op
  PROVE  /\ o.kind \in {"anticipate", "drain"}
         /\ o.kind = "anticipate" => o.cmd \in Cmd /\ o = [kind |-> "anticipate", cmd |-> o.cmd]
<1>1. CASE o \in [kind : {"drain"}]
  BY <1>1
<1>2. CASE o \in [kind : {"anticipate"}, cmd : Cmd]
  BY <1>2
<1>. QED
  BY <1>1, <1>2 DEF Op

LEMMA DrainShapes ==
  ASSUME NEW d \in Drain
  PROVE  /\ d.upto \in Nat /\ d.after \in Nat /\ d.shown \in Seq(Content)
         /\ d.conflicts \in SUBSET Cmd /\ d.covered \in SUBSET Cmd
         /\ d.shown # <<>> => d.shown[1] \in Content
<1>1. /\ d.upto \in Nat /\ d.after \in Nat /\ d.shown \in Seq(Content)
      /\ d.conflicts \in SUBSET Cmd /\ d.covered \in SUBSET Cmd
  BY DEF Drain
<1>2. ASSUME NEW s \in Seq(Content), s # <<>> PROVE s[1] \in Content
  BY <1>2, EmptySeq, LenProperties, ElementOfSeq
<1>. QED
  BY <1>1, <1>2

LEMMA RowShape ==
  ASSUME NEW r \in Row
  PROVE  /\ r.server \in Content /\ r.local \in Content /\ r.dirty \in BOOLEAN /\ r.revision \in Nat
         /\ r = [server |-> r.server, local |-> r.local, dirty |-> r.dirty, revision |-> r.revision]
BY DEF Row

LEMMA PutContent ==
  ASSUME NEW x \in Content, NEW a \in Author
  PROVE  /\ Put(x, a) \in Content /\ Put(x, a)[Writes[a]] = a
         /\ \A f \in Field : f # Writes[a] => Put(x, a)[f] = x[f]
<1>1. Writes[a] \in Field
  BY AuthorAssumption
<1>. QED
  BY <1>1 DEF Put, Content

LEMMA ApplyLocalRow ==
  ASSUME NEW r \in Row, NEW c \in Cmd
  PROVE  /\ ApplyLocal(r, c) \in Row /\ Clean(ApplyLocal(r, c))
         /\ ApplyLocal(r, c).server = r.server /\ ApplyLocal(r, c).revision = r.revision
         /\ ApplyLocal(r, c).local = Put(r.local, c)
<1>1. r.local \in Content
  BY RowShape
<1>2. Put(r.local, c) \in Content
  BY <1>1, PutContent DEF Author
<1>3. ApplyLocal(r, c) = [r EXCEPT !.local = Put(r.local, c), !.dirty = TRUE]
  BY DEF ApplyLocal
<1>4. ApplyLocal(r, c) = [server |-> r.server, local |-> Put(r.local, c), dirty |-> TRUE, revision |-> r.revision]
  BY <1>3 DEF Row
<1>. QED
  BY <1>2, <1>4, RowShape DEF Row, Clean

LEMMA SetLocalRow ==
  ASSUME NEW r \in Row, NEW x \in Content
  PROVE  /\ SetLocal(r, x) \in Row /\ Clean(SetLocal(r, x))
         /\ SetLocal(r, x).server = r.server /\ SetLocal(r, x).revision = r.revision
         /\ SetLocal(r, x).local = x
<1>a. SetLocal(r, x) = [r EXCEPT !.local = x, !.dirty = TRUE]
  BY DEF SetLocal
<1>1. SetLocal(r, x) = [server |-> r.server, local |-> x, dirty |-> TRUE, revision |-> r.revision]
  BY <1>a DEF Row
<1>. QED
  BY <1>1, RowShape DEF Row, Clean

\* What a commit writes.
LEMMA FoldRow ==
  ASSUME Types, NEW r \in Row, RowOK(r), NEW d \in Drain, Current(d)
  PROVE  /\ Fold(r, d) \in Row /\ RowOK(Fold(r, d))
         /\ Fold(r, d).revision = IF d.upto = d.after THEN r.revision ELSE d.upto
         /\ r.server = TruthOf(log, d.after) => Fold(r, d).server = TruthOf(log, d.upto)
         /\ d.shown # <<>> => Fold(r, d).local = d.shown[1]
         /\ d.shown = <<>> => Fold(r, d).local = MergeAll(r, d.after, d.upto).local
<1>. DEFINE s == MergeAll(r, d.after, d.upto)
<1>1. /\ log \in Seq(Author) /\ Len(log) \in Nat /\ Clean(r) /\ r.revision <= Len(log)
      /\ d.after \in Nat /\ d.upto \in d.after..Len(log) /\ d.upto \in Nat
  BY DrainShapes, LenProperties DEF Types, RowOK, Current
<1>2. /\ s \in Row /\ Clean(s) /\ s.revision = IF d.upto = d.after THEN r.revision ELSE d.upto
      /\ r.server = TruthOf(log, d.after) => s.server = TruthOf(log, d.upto)
  BY <1>1, MergeAllRow
<1>3. s.revision <= Len(log)
  BY <1>1, <1>2
<1>4. Fold(r, d) = IF d.shown = <<>> THEN s ELSE SetLocal(s, d.shown[1])
  BY DEF Fold
<1>. HIDE DEF s
<1>5. CASE d.shown = <<>>
  BY <1>2, <1>3, <1>4, <1>5 DEF RowOK, s
<1>6. CASE d.shown # <<>>
  <2>1. d.shown[1] \in Content
    BY <1>6, DrainShapes
  <2>2. /\ SetLocal(s, d.shown[1]) \in Row /\ Clean(SetLocal(s, d.shown[1]))
        /\ SetLocal(s, d.shown[1]).server = s.server /\ SetLocal(s, d.shown[1]).revision = s.revision
        /\ SetLocal(s, d.shown[1]).local = d.shown[1]
    BY <1>2, <2>1, SetLocalRow
  <2>. QED
    BY <1>2, <1>3, <1>4, <1>6, <2>2 DEF RowOK
<1>. QED
  BY <1>5, <1>6

-----------------------------------------------------------------------------
(* What steps do to the log and the issued commands.                       *)

LEMMA RevisionOf ==
  ASSUME NEW a, Accepted(a)
  PROVE  Revision(a) \in DOMAIN log /\ log[Revision(a)] = a
BY DEF Accepted, Revision

LEMMA RevisionIs ==
  ASSUME Orders, NEW n \in DOMAIN log
  PROVE  Accepted(log[n]) /\ Revision(log[n]) = n
<1>1. Accepted(log[n])
  BY DEF Accepted
<1>2. Revision(log[n]) \in DOMAIN log /\ log[Revision(log[n])] = log[n]
  BY <1>1, RevisionOf
<1>. QED
  BY <1>1, <1>2 DEF Orders

LEMMA LogSteps ==
  ASSUME [Next]_vars
  PROVE  log' = log \/ \E a \in Author : Publish(a)
<1>1. CASE UNCHANGED vars
  BY <1>1 DEF vars, server
<1>2. CASE Next
  BY <1>2 DEF Next, Enqueue, Send, Succeed, CheckApplied, Fail, ClearReads, ClearWrites,
              AnticipateReads, AnticipateWrites, AnticipateEnds, Capture, DrainLoads, DrainReads,
              DrainWrites, DrainConfirms, DrainEnds, server
<1>. QED
  BY <1>1, <1>2

LEMMA IssuedSteps ==
  ASSUME [Next]_vars
  PROVE  issued' = issued \/ \E c \in Cmd : Enqueue(c)
<1>1. CASE UNCHANGED vars
  BY <1>1 DEF vars, commands
<1>2. CASE Next
  BY <1>2 DEF Next, Publish, Send, Succeed, CheckApplied, Fail, ClearReads, ClearWrites,
              AnticipateReads, AnticipateWrites, AnticipateEnds, Capture, DrainLoads, DrainReads,
              DrainWrites, DrainConfirms, DrainEnds, commands
<1>. QED
  BY <1>1, <1>2

LEMMA PublishAppends ==
  ASSUME Types, Orders, NEW a \in Author, Publish(a)
  PROVE  /\ log' \in Seq(Author) /\ Len(log') = Len(log) + 1 /\ log'[Len(log) + 1] = a
         /\ \A n \in DOMAIN log : n \in DOMAIN log' /\ log'[n] = log[n]
         /\ DOMAIN log' = 1..(Len(log) + 1) /\ DOMAIN log = 1..Len(log) /\ Len(log) \in Nat
         /\ \A m, n \in DOMAIN log' : log'[m] = log'[n] => m = n
<1>1. log \in Seq(Author) /\ log' = Append(log, a) /\ Len(log) \in Nat /\ DOMAIN log = 1..Len(log)
  BY LenProperties DEF Types, Publish
<1>2. /\ log' \in Seq(Author) /\ Len(log') = Len(log) + 1 /\ log'[Len(log) + 1] = a
      /\ \A n \in 1..Len(log) : log'[n] = log[n]
  BY <1>1, AppendProperties
<1>3. DOMAIN log' = 1..(Len(log) + 1)
  BY <1>2, LenProperties
<1>4. \A n \in DOMAIN log : log[n] # a
  BY DEF Publish, Accepted
<1>5. \A m, n \in DOMAIN log : log[m] = log[n] => m = n
  BY DEF Orders
<1>6. \A n \in DOMAIN log' : n \in DOMAIN log \/ n = Len(log) + 1
  BY <1>1, <1>3
<1>7. ASSUME NEW m \in DOMAIN log', NEW n \in DOMAIN log', log'[m] = log'[n] PROVE m = n
  BY <1>1, <1>2, <1>4, <1>5, <1>6, <1>7
<1>. QED
  BY <1>1, <1>2, <1>3, <1>7

LEMMA Published ==
  ASSUME Types, Orders, NEW a \in Author, Publish(a)
  PROVE  /\ Accepted(a)' /\ Revision(a)' = Len(log) + 1
         /\ \A b : Accepted(b) => Accepted(b)' /\ Revision(b)' = Revision(b) /\ Revision(b) <= Len(log)
         /\ \A b : Accepted(b)' => Accepted(b) \/ b = a
<1>1. /\ Len(log') = Len(log) + 1 /\ log'[Len(log) + 1] = a
      /\ \A n \in DOMAIN log : n \in DOMAIN log' /\ log'[n] = log[n]
      /\ DOMAIN log' = 1..(Len(log) + 1) /\ DOMAIN log = 1..Len(log) /\ Len(log) \in Nat
      /\ \A m, n \in DOMAIN log' : log'[m] = log'[n] => m = n
  BY PublishAppends
<1>2. Len(log) + 1 \in DOMAIN log'
  BY <1>1
<1>3. ASSUME NEW b, NEW n \in DOMAIN log', log'[n] = b
      PROVE  Accepted(b)' /\ Revision(b)' = n
  <2>1. \E m \in DOMAIN log' : log'[m] = b
    BY <1>3
  <2>2. Revision(b)' = CHOOSE m \in DOMAIN log' : log'[m] = b
    BY DEF Revision
  <2>3. Revision(b)' \in DOMAIN log' /\ log'[Revision(b)'] = b
    BY <2>1, <2>2
  <2>. QED
    BY <1>1, <1>3, <2>1, <2>3 DEF Accepted
<1>4. Accepted(a)' /\ Revision(a)' = Len(log) + 1
  BY <1>1, <1>2, <1>3
<1>5. ASSUME NEW b, Accepted(b)
      PROVE  Accepted(b)' /\ Revision(b)' = Revision(b) /\ Revision(b) <= Len(log)
  <2>1. Revision(b) \in DOMAIN log /\ log[Revision(b)] = b
    BY <1>5, RevisionOf
  <2>. QED
    BY <1>1, <1>3, <2>1
<1>6. ASSUME NEW b, Accepted(b)' PROVE Accepted(b) \/ b = a
  <2>1. PICK n \in DOMAIN log' : log'[n] = b
    BY <1>6 DEF Accepted
  <2>2. n \in DOMAIN log \/ n = Len(log) + 1
    BY <1>1
  <2>. QED
    BY <1>1, <2>1, <2>2 DEF Accepted
<1>. QED
  BY <1>4, <1>5, <1>6

LEMMA EnqueueAppends ==
  ASSUME Types, NEW c \in Cmd, Enqueue(c)
  PROVE  /\ issued' \in Seq(Cmd) /\ Len(issued') = Len(issued) + 1 /\ issued'[Len(issued) + 1] = c
         /\ \A n \in DOMAIN issued : n \in DOMAIN issued' /\ issued'[n] = issued[n]
         /\ DOMAIN issued' = 1..(Len(issued) + 1) /\ DOMAIN issued = 1..Len(issued) /\ Len(issued) \in Nat
<1>1. /\ issued \in Seq(Cmd) /\ issued' = Append(issued, c) /\ Len(issued) \in Nat
      /\ DOMAIN issued = 1..Len(issued)
  BY LenProperties DEF Types, Enqueue
<1>2. /\ issued' \in Seq(Cmd) /\ Len(issued') = Len(issued) + 1 /\ issued'[Len(issued) + 1] = c
      /\ \A n \in 1..Len(issued) : issued'[n] = issued[n]
  BY <1>1, AppendProperties
<1>3. DOMAIN issued' = 1..(Len(issued) + 1)
  BY <1>2, LenProperties
<1>. QED
  BY <1>1, <1>2, <1>3

\* A new command comes after all those issued, and changes no other order.
LEMMA Enqueued ==
  ASSUME Types, Orders, NEW c \in Cmd, Enqueue(c)
  PROVE  /\ \A b, d : Before(b, d) => Before(b, d)'
         /\ \A b, d : Before(b, d)' => Before(b, d) \/ (d = c /\ b # c)
         /\ \A b \in Cmd : status[b] # "none" => Before(b, c)'
         /\ \A b : ~Before(c, b)'
         /\ \A i, j \in DOMAIN issued' : issued'[i] = issued'[j] => i = j
<1>1. /\ issued'[Len(issued) + 1] = c
      /\ \A n \in DOMAIN issued : n \in DOMAIN issued' /\ issued'[n] = issued[n]
      /\ DOMAIN issued' = 1..(Len(issued) + 1) /\ DOMAIN issued = 1..Len(issued) /\ Len(issued) \in Nat
  BY EnqueueAppends
<1>2. \A n \in DOMAIN issued : issued[n] # c
  BY DEF Enqueue, Orders
<1>3. \A i, j \in DOMAIN issued : issued[i] = issued[j] => i = j
  BY DEF Orders
<1>4. \A n \in DOMAIN issued' : n \in DOMAIN issued \/ n = Len(issued) + 1
  BY <1>1
<1>5. Len(issued) + 1 \in DOMAIN issued' /\ \A n \in DOMAIN issued : n < Len(issued) + 1
  BY <1>1
<1>6. ASSUME NEW b, NEW d, Before(b, d) PROVE Before(b, d)'
  BY <1>1, <1>6 DEF Before
<1>7. ASSUME NEW b, NEW d, Before(b, d)' PROVE Before(b, d) \/ (d = c /\ b # c)
  <2>1. PICK i, j \in DOMAIN issued' : i < j /\ issued'[i] = b /\ issued'[j] = d
    BY <1>7 DEF Before
  <2>2. i \in DOMAIN issued
    BY <1>1, <2>1
  <2>. QED
    BY <1>1, <1>2, <1>4, <2>1, <2>2 DEF Before
<1>8. ASSUME NEW b \in Cmd, status[b] # "none" PROVE Before(b, c)'
  <2>1. PICK i \in DOMAIN issued : issued[i] = b
    BY <1>8 DEF Orders
  <2>. QED
    BY <1>1, <1>5, <2>1 DEF Before
<1>9. ASSUME NEW b, Before(c, b)' PROVE FALSE
  <2>1. PICK i, j \in DOMAIN issued' : i < j /\ issued'[i] = c /\ issued'[j] = b
    BY <1>9 DEF Before
  <2>2. i \in DOMAIN issued
    BY <1>1, <2>1
  <2>. QED
    BY <1>1, <1>2, <2>1, <2>2
<1>10. ASSUME NEW i \in DOMAIN issued', NEW j \in DOMAIN issued', issued'[i] = issued'[j] PROVE i = j
  BY <1>1, <1>2, <1>3, <1>4, <1>10
<1>. QED
  BY <1>6, <1>7, <1>8, <1>9, <1>10

\* Issued commands are totally ordered.
LEMMA BeforeOrder ==
  ASSUME Types, Orders, NEW c \in Cmd, NEW d \in Cmd
  PROVE  /\ Before(c, d) => ~Before(d, c)
         /\ Before(c, d) => c # d /\ status[c] # "none" /\ status[d] # "none"
         /\ status[c] # "none" /\ status[d] # "none" /\ c # d => Before(c, d) \/ Before(d, c)
<1>1. DOMAIN issued = 1..Len(issued) /\ Len(issued) \in Nat
  BY LenProperties DEF Types
<1>2. /\ \A i, j \in DOMAIN issued : issued[i] = issued[j] => i = j
      /\ \A b \in Cmd : status[b] # "none" <=> \E i \in DOMAIN issued : issued[i] = b
  BY DEF Orders
<1>3. Before(c, d) => ~Before(d, c) /\ c # d
  BY <1>1, <1>2 DEF Before
<1>4. Before(c, d) => status[c] # "none" /\ status[d] # "none"
  BY <1>2 DEF Before
<1>5. status[c] # "none" /\ status[d] # "none" /\ c # d => Before(c, d) \/ Before(d, c)
  <2>1. SUFFICES ASSUME status[c] # "none", status[d] # "none", c # d PROVE Before(c, d) \/ Before(d, c)
    OBVIOUS
  <2>2. PICK i \in DOMAIN issued : issued[i] = c
    BY <1>2, <2>1
  <2>3. PICK j \in DOMAIN issued : issued[j] = d
    BY <1>2, <2>1
  <2>4. i < j \/ j < i
    BY <1>1, <2>1, <2>2, <2>3
  <2>. QED
    BY <2>2, <2>3, <2>4 DEF Before
<1>. QED
  BY <1>3, <1>4, <1>5

LEMMA SuccessorsAre ==
  ASSUME NEW c, NEW d
  PROVE  /\ d \in Successors(c) <=>
              /\ d \in Author /\ Writes[d] = Writes[c]
              /\ Before(c, d) \/ (Accepted(c) /\ Accepted(d) /\ Revision(c) < Revision(d))
         /\ d \in Successors(c)' <=>
              /\ d \in Author /\ Writes[d] = Writes[c]
              /\ Before(c, d)' \/ (Accepted(c)' /\ Accepted(d)' /\ Revision(c)' < Revision(d)')
<1>1. d \in Successors(c) <=>
              /\ d \in Author /\ Writes[d] = Writes[c]
              /\ Before(c, d) \/ (Accepted(c) /\ Accepted(d) /\ Revision(c) < Revision(d))
  BY DEF Successors, Before
<1>2. d \in Successors(c)' <=>
              /\ d \in Author /\ Writes[d] = Writes[c]
              /\ Before(c, d)' \/ (Accepted(c)' /\ Accepted(d)' /\ Revision(c)' < Revision(d)')
  BY DEF Successors, Before
<1>. QED
  BY <1>1, <1>2

\* Nothing is taken back.
LEMMA Grows ==
  ASSUME Types, Orders, [Next]_vars
  PROVE  /\ \A a : Accepted(a) => Accepted(a)' /\ Revision(a)' = Revision(a)
         /\ \A c, d : Before(c, d) => Before(c, d)'
         /\ \A n \in 0..Len(log) : TruthOf(log', n) = TruthOf(log, n)
         /\ Len(log) <= Len(log')
<1>1. log \in Seq(Author) /\ Len(log) \in Nat
  BY LenProperties DEF Types
<1>2. CASE log' = log
  <2>1. \A a : Accepted(a) => Accepted(a)' /\ Revision(a)' = Revision(a)
    BY <1>2 DEF Accepted, Revision
  <2>2. CASE issued' = issued
    BY <1>1, <1>2, <2>1, <2>2 DEF Before
  <2>3. CASE issued' # issued
    BY <1>1, <1>2, <2>1, <2>3, IssuedSteps, Enqueued
  <2>. QED
    BY <2>2, <2>3
<1>3. CASE log' # log
  <2>1. PICK a \in Author : Publish(a)
    BY <1>3, LogSteps
  <2>2. issued' = issued /\ log' = Append(log, a)
    BY <2>1 DEF Publish, commands
  <2>3. \A c, d : Before(c, d) => Before(c, d)'
    BY <2>2 DEF Before
  <2>. QED
    BY <1>1, <2>1, <2>2, <2>3, Published, PublishAppends, TruthAppend
<1>. QED
  BY <1>2, <1>3

LEMMA AcceptedSteps ==
  ASSUME Types, Orders, [Next]_vars, NEW a, Accepted(a)'
  PROVE  Accepted(a) \/ (a \in Author /\ Publish(a))
<1>1. CASE log' = log
  BY <1>1 DEF Accepted
<1>2. ASSUME NEW b \in Author, Publish(b) PROVE Accepted(a) \/ (a \in Author /\ Publish(a))
  BY <1>2, Published
<1>. QED
  BY <1>1, <1>2, LogSteps

LEMMA BeforeSteps ==
  ASSUME Types, Orders, [Next]_vars, NEW c \in Cmd, NEW d \in Cmd, Before(c, d)'
  PROVE  Before(c, d) \/ Enqueue(d)
<1>1. CASE issued' = issued
  BY <1>1 DEF Before
<1>2. ASSUME NEW b \in Cmd, Enqueue(b) PROVE Before(c, d) \/ Enqueue(d)
  BY <1>2, Enqueued
<1>. QED
  BY <1>1, <1>2, IssuedSteps

LEMMA SuccessorsGrow ==
  ASSUME Types, Orders, [Next]_vars, NEW c
  PROVE  Successors(c) \subseteq Successors(c)'
<1>1. /\ \A a : Accepted(a) => Accepted(a)' /\ Revision(a)' = Revision(a)
      /\ \A d : Before(c, d) => Before(c, d)'
  BY Grows
<1>2. ASSUME NEW d \in Successors(c) PROVE d \in Successors(c)'
  BY <1>1, SuccessorsAre
<1>. QED
  BY <1>2

-----------------------------------------------------------------------------
(* Types.                                                                  *)

LEMMA TypesInit == Init => Types
<1>1. ASSUME Init PROVE Types
  <2>1. <<>> \in Seq(Author) /\ <<>> \in Seq(Cmd) /\ <<>> \in Seq(Op) /\ Len(<<>>) = 0
    BY EmptySeq
  <2>2. Seeded \in Content
    BY DEF Seeded, Content
  <2>3. row \in Row
    BY <1>1, <2>2 DEF Init, SeededRow, Row
  <2>4. Idle \in Cleanup /\ Idle \in Running
    BY DEF Idle, Cleanup, Running
  <2>. QED
    BY <1>1, <2>1, <2>3, <2>4 DEF Init, Types, States
<1>. QED
  BY <1>1

LEMMA RunningIs ==
  ASSUME Types
  PROVE  /\ running.kind \in {"none", "anticipate", "track", "drain", "commit", "confirm", "ending"}
         /\ running.kind = "none" <=> running = Idle
         /\ running.kind = "anticipate" => running.cmd \in Cmd /\ running.row \in Row
         /\ running.kind = "track" => running.cmd \in Cmd
         /\ running.kind = "drain" => running \in Drain
         /\ running.kind = "commit" => running.row \in Row /\ running.drain \in Drain
         /\ running.kind = "confirm" => running.drain \in Drain
         /\ running.kind = "ending" => running.failed \in SUBSET Cmd
<1>1. running \in Running
  BY DEF Types
<1>. QED
  BY <1>1, RunningShapes

LEMMA HeadTail ==
  ASSUME NEW S, NEW s \in Seq(S), s # <<>>
  PROVE  /\ Head(s) \in S /\ Tail(s) \in Seq(S) /\ Head(s) = s[1] /\ 1 \in DOMAIN s
         /\ Len(s) \in Nat /\ DOMAIN s = 1..Len(s) /\ DOMAIN Tail(s) = 1..(Len(s) - 1)
         /\ \A i \in DOMAIN Tail(s) : i + 1 \in DOMAIN s /\ Tail(s)[i] = s[i + 1]
<1>1. Len(s) \in Nat /\ DOMAIN s = 1..Len(s) /\ Len(s) # 0
  BY LenProperties, EmptySeq
<1>2. /\ Head(s) = s[1] /\ Tail(s) \in Seq(S) /\ Len(Tail(s)) = Len(s) - 1
      /\ \A i \in 1..Len(Tail(s)) : Tail(s)[i] = s[i + 1]
  BY <1>1, HeadTailProperties
<1>3. DOMAIN Tail(s) = 1..(Len(s) - 1)
  BY <1>2, LenProperties
<1>. QED
  BY <1>1, <1>2, <1>3, ElementOfSeq

LEMMA TypesStep ==
  ASSUME Types, Rows, Loaded, [Next]_vars
  PROVE  Types'
<1>. USE DEF server, commands
<1>1. CASE UNCHANGED vars
  BY <1>1 DEF vars, Types
<1>2. ASSUME NEW c \in Cmd, Enqueue(c) PROVE Types'
  <2>1. ops' \in Seq(Op)
    <3>1. [kind |-> "anticipate", cmd |-> c] \in Op
      BY DEF Op
    <3>. QED
      BY <1>2, <3>1, AppendProperties DEF Enqueue, Types
  <2>2. issued' \in Seq(Cmd)
    BY <1>2, EnqueueAppends
  <2>3. status' \in [Cmd -> States]
    BY <1>2 DEF Enqueue, Types, States, Outstanding
  <2>. QED
    BY <1>2, <2>1, <2>2, <2>3 DEF Enqueue, Types
<1>3. ASSUME NEW c \in Cmd, Send(c) PROVE Types'
  <2>1. status' \in [Cmd -> States]
    BY <1>3 DEF Send, Types, States, Outstanding
  <2>. QED
    BY <1>3, <2>1 DEF Send, Types
<1>4. ASSUME NEW c \in Cmd, Succeed(c) PROVE Types'
  <2>1. status' \in [Cmd -> States]
    BY <1>4 DEF Succeed, Types, States, Ended
  <2>. QED
    BY <1>4, <2>1 DEF Succeed, Types
<1>5. ASSUME NEW c \in Cmd, CheckApplied(c) PROVE Types'
  <2>1. status' \in [Cmd -> States]
    BY <1>5 DEF CheckApplied, Apply, Types, States, Ended
  <2>. QED
    BY <1>5, <2>1 DEF CheckApplied, Types
<1>6. ASSUME NEW c \in Cmd, Fail(c) PROVE Types'
  <2>1. status' \in [Cmd -> States]
    BY <1>6 DEF Fail, Types, States, Ended
  <2>2. [kind |-> "begun"] \in Cleanup
    BY DEF Cleanup
  <2>. QED
    BY <1>6, <2>1, <2>2 DEF Fail, Types
<1>7. ASSUME NEW c \in Cmd, ClearReads(c) PROVE Types'
  <2>1. [kind |-> "read", row |-> row] \in Cleanup /\ Idle \in Cleanup
    BY DEF Cleanup, Types, Idle
  <2>. QED
    BY <1>7, <2>1 DEF ClearReads, Types
<1>8. ASSUME NEW c \in Cmd, ClearWrites(c) PROVE Types'
  <2>1. clearing' \in [Cmd -> Cleanup]
    <3>1. \A b \in BOOLEAN : [kind |-> IF b THEN "done" ELSE "overtaken"] \in Cleanup
      BY DEF Cleanup
    <3>2. \E b \in BOOLEAN : clearing' = [clearing EXCEPT ![c] = [kind |-> IF b THEN "done" ELSE "overtaken"]]
      BY <1>8 DEF ClearWrites
    <3>. QED
      BY <3>1, <3>2 DEF Types
  <2>2. row' \in Row
    <3>. DEFINE r == clearing[c].row
    <3>1. r \in Row
      BY <1>8, CleanupShapes DEF ClearWrites, Types
    <3>2. row' = IF r.dirty THEN [r EXCEPT !.local = r.server, !.dirty = FALSE] ELSE row
      BY <1>8 DEF ClearWrites
    <3>. HIDE DEF r
    <3>. QED
      BY <3>1, <3>2 DEF Types, Row
  <2>. QED
    BY <1>8, <2>1, <2>2 DEF ClearWrites, Types
<1>9. ASSUME NEW a \in Author, Publish(a) PROVE Types'
  <2>1. log' = Append(log, a) /\ log' \in Seq(Author) /\ Len(log') = Len(log) + 1 /\ Len(log) \in Nat
    BY <1>9, AppendProperties, LenProperties DEF Publish, Types
  <2>. QED
    BY <1>9, <2>1 DEF Publish, Types
<1>10. CASE AnticipateReads
  <2>1. Head(ops) \in Op /\ Tail(ops) \in Seq(Op) /\ Head(ops).kind = "anticipate"
    BY <1>10, HeadTail DEF AnticipateReads, Takes, Types
  <2>2. Head(ops).cmd \in Cmd
    BY <2>1, OpShapes
  <2>3. running' \in Running
    BY <1>10, <2>2 DEF AnticipateReads, Running, Types
  <2>. QED
    BY <1>10, <2>1, <2>3 DEF AnticipateReads, Types
<1>11. CASE AnticipateWrites
  <2>1. running.cmd \in Cmd /\ running.row \in Row
    BY <1>11, RunningIs DEF AnticipateWrites
  <2>2. ApplyLocal(running.row, running.cmd) \in Row
    BY <2>1, ApplyLocalRow
  <2>3. row' \in Row
    BY <1>11, <2>2 DEF AnticipateWrites, Types
  <2>4. running' \in Running
    <3>1. Idle \in Running /\ [kind |-> "track", cmd |-> running.cmd] \in Running
      BY <2>1 DEF Idle, Running
    <3>. QED
      BY <1>11, <3>1 DEF AnticipateWrites
  <2>. QED
    BY <1>11, <2>3, <2>4 DEF AnticipateWrites, Types
<1>12. CASE AnticipateEnds
  <2>1. running.cmd \in Cmd
    BY <1>12, RunningIs DEF AnticipateEnds
  <2>2. Idle \in Running
    BY DEF Idle, Running
  <2>. QED
    BY <1>12, <2>1, <2>2 DEF AnticipateEnds, Types
<1>13. CASE Capture
  <2>1. [kind |-> "drain"] \in Op
    BY DEF Op
  <2>2. ops' \in Seq(Op)
    BY <1>13, <2>1, AppendProperties DEF Capture, Types
  <2>3. Len(log) \in Nat
    BY LenProperties DEF Types
  <2>. QED
    BY <1>13, <2>2, <2>3 DEF Capture, Types
<1>14. ASSUME NEW conflicts \in SUBSET Fallible, DrainLoads(conflicts) PROVE Types'
  <2>. DEFINE again == With(Outstanding) \ conflicts
              shown == IF again = {} THEN <<>> ELSE <<Rerun(row.local, again)>>
              covered == {c \in With({"succeeded"}) : Revision(c) <= received}
  <2>1. /\ running' = [kind |-> "drain", upto |-> received, after |-> known, shown |-> shown,
                       conflicts |-> conflicts, covered |-> covered]
        /\ tracked' = tracked \cup again /\ conflicted' = conflicted \cup conflicts
        /\ ops' = Tail(ops) /\ known' = received
    BY <1>14 DEF DrainLoads
  <2>2. Rerun(row.local, again) \in Content
    <3>1. row.local \in Content /\ issued \in Seq(Cmd)
      BY RowShape DEF Types
    <3>. HIDE DEF again
    <3>. QED
      BY <3>1, RerunShows
  <2>3. shown \in Seq(Content)
    <3>1. \A x \in Content : <<x>> \in Seq(Content)
      OBVIOUS
    <3>. HIDE DEF again
    <3>. QED
      BY <2>2, <3>1, EmptySeq
  <2>4. again \in SUBSET Cmd /\ conflicts \in SUBSET Cmd /\ covered \in SUBSET Cmd
    BY FallibleAssumption DEF With
  <2>5. Tail(ops) \in Seq(Op)
    BY <1>14, HeadTail DEF DrainLoads, Takes, Types
  <2>. HIDE DEF again, shown, covered
  <2>6. running' \in Running
    BY <2>1, <2>3, <2>4 DEF Running, Drain, Types
  <2>7. tracked' \in SUBSET Cmd /\ conflicted' \in SUBSET Cmd /\ ops' \in Seq(Op)
    BY <2>1, <2>4, <2>5 DEF Types
  <2>. QED
    BY <1>14, <2>1, <2>6, <2>7 DEF DrainLoads, Types
<1>15. CASE DrainReads
  <2>1. running \in Drain
    BY <1>15, RunningIs DEF DrainReads
  <2>2. running' \in Running
    BY <1>15, <2>1 DEF DrainReads, Running, Types
  <2>. QED
    BY <1>15, <2>2 DEF DrainReads, Types
<1>16. CASE DrainWrites
  <2>1. running.row \in Row /\ running.drain \in Drain
    BY <1>16, RunningIs DEF DrainWrites
  <2>2. row' \in Row
    BY <1>16, <2>1, FoldRow DEF DrainWrites, Rows, Loaded
  <2>3. running' \in Running
    BY <1>16, <2>1 DEF DrainWrites, Running
  <2>. QED
    BY <1>16, <2>2, <2>3 DEF DrainWrites, Types
<1>17. CASE DrainConfirms
  <2>. DEFINE d == running.drain
              failed == {c \in d.conflicts : status[c] \in Outstanding}
  <2>1. d \in Drain /\ d.conflicts \in SUBSET Cmd
    BY <1>17, RunningIs, DrainShapes DEF DrainConfirms
  <2>2. failed \in SUBSET Cmd
    BY <2>1
  <2>3. /\ status' = [c \in Cmd |-> IF c \in failed THEN "failed" ELSE Apply(d.covered)[c]]
        /\ tracked' = tracked \ d.covered
        /\ clearing' = [c \in Cmd |-> IF c \in failed THEN [kind |-> "begun"] ELSE clearing[c]]
        /\ running' = [kind |-> "ending", failed |-> failed]
    BY <1>17 DEF DrainConfirms
  <2>. HIDE DEF d, failed
  <2>4. status' \in [Cmd -> States]
    BY <2>3 DEF Apply, States, Ended, Types
  <2>5. clearing' \in [Cmd -> Cleanup]
    <3>1. [kind |-> "begun"] \in Cleanup
      BY DEF Cleanup
    <3>. QED
      BY <2>3, <3>1 DEF Types
  <2>6. running' \in Running
    BY <2>2, <2>3 DEF Running
  <2>7. tracked' \in SUBSET Cmd
    BY <2>3 DEF Types
  <2>. QED
    BY <1>17, <2>4, <2>5, <2>6, <2>7 DEF DrainConfirms, Types
<1>18. CASE DrainEnds
  <2>1. Idle \in Running
    BY DEF Idle, Running
  <2>. QED
    BY <1>18, <2>1 DEF DrainEnds, Types
<1>. QED
  BY <1>1, <1>2, <1>3, <1>4, <1>5, <1>6, <1>7, <1>8, <1>9, <1>10, <1>11, <1>12, <1>13, <1>14,
     <1>15, <1>16, <1>17, <1>18 DEF Next

-----------------------------------------------------------------------------
(* Which steps change what.                                                *)

LEMMA RowSteps ==
  ASSUME [Next]_vars
  PROVE  \/ row' = row
         \/ \E c \in Cmd : ClearWrites(c)
         \/ AnticipateWrites
         \/ DrainWrites
<1>1. CASE UNCHANGED vars
  BY <1>1 DEF vars, server, commands
<1>2. CASE Next
  BY <1>2 DEF Next, Enqueue, Send, Succeed, CheckApplied, Fail, ClearReads, Publish,
              AnticipateReads, AnticipateEnds, Capture, DrainLoads, DrainReads, DrainConfirms,
              DrainEnds, server, commands
<1>. QED
  BY <1>1, <1>2

LEMMA ClearingSteps ==
  ASSUME [Next]_vars
  PROVE  \/ clearing' = clearing
         \/ \E c \in Cmd : Fail(c) \/ ClearReads(c) \/ ClearWrites(c)
         \/ DrainConfirms
<1>1. CASE UNCHANGED vars
  BY <1>1 DEF vars, server, commands
<1>2. CASE Next
  BY <1>2 DEF Next, Enqueue, Send, Succeed, CheckApplied, Publish, AnticipateReads,
              AnticipateWrites, AnticipateEnds, Capture, DrainLoads, DrainReads, DrainWrites,
              DrainEnds, server, commands
<1>. QED
  BY <1>1, <1>2

LEMMA StatusSteps ==
  ASSUME [Next]_vars
  PROVE  \/ status' = status
         \/ \E c \in Cmd : Enqueue(c) \/ Send(c) \/ Succeed(c) \/ CheckApplied(c) \/ Fail(c)
         \/ DrainConfirms
<1>1. CASE UNCHANGED vars
  BY <1>1 DEF vars, server, commands
<1>2. CASE Next
  BY <1>2 DEF Next, ClearReads, ClearWrites, Publish, AnticipateReads, AnticipateWrites,
              AnticipateEnds, Capture, DrainLoads, DrainReads, DrainWrites, DrainEnds, server,
              commands
<1>. QED
  BY <1>1, <1>2

LEMMA OpsSteps ==
  ASSUME [Next]_vars
  PROVE  \/ ops' = ops
         \/ \E c \in Cmd : Enqueue(c)
         \/ AnticipateReads
         \/ Capture
         \/ \E s \in SUBSET Fallible : DrainLoads(s)
<1>1. CASE UNCHANGED vars
  BY <1>1 DEF vars, server, commands
<1>2. CASE Next
  BY <1>2 DEF Next, Send, Succeed, CheckApplied, Fail, ClearReads, ClearWrites, Publish,
              AnticipateWrites, AnticipateEnds, DrainReads, DrainWrites, DrainConfirms, DrainEnds,
              server, commands
<1>. QED
  BY <1>1, <1>2

LEMMA RunningSteps ==
  ASSUME [Next]_vars
  PROVE  \/ running' = running
         \/ AnticipateReads
         \/ AnticipateWrites
         \/ AnticipateEnds
         \/ \E s \in SUBSET Fallible : DrainLoads(s)
         \/ DrainReads
         \/ DrainWrites
         \/ DrainConfirms
         \/ DrainEnds
<1>1. CASE UNCHANGED vars
  BY <1>1 DEF vars, server, commands
<1>2. CASE Next
  BY <1>2 DEF Next, Enqueue, Send, Succeed, CheckApplied, Fail, ClearReads, ClearWrites, Publish,
              Capture, server, commands
<1>. QED
  BY <1>1, <1>2

LEMMA KnownSteps ==
  ASSUME [Next]_vars
  PROVE  \/ known' = known
         \/ \E s \in SUBSET Fallible : DrainLoads(s)
<1>1. CASE UNCHANGED vars
  BY <1>1 DEF vars, server, commands
<1>2. CASE Next
  BY <1>2 DEF Next, Enqueue, Send, Succeed, CheckApplied, Fail, ClearReads, ClearWrites, Publish,
              AnticipateReads, AnticipateWrites, AnticipateEnds, Capture, DrainReads, DrainWrites,
              DrainConfirms, DrainEnds, server, commands
<1>. QED
  BY <1>1, <1>2

LEMMA ConflictedSteps ==
  ASSUME [Next]_vars
  PROVE  \/ conflicted' = conflicted
         \/ \E s \in SUBSET Fallible : DrainLoads(s)
<1>1. CASE UNCHANGED vars
  BY <1>1 DEF vars, server, commands
<1>2. CASE Next
  BY <1>2 DEF Next, Enqueue, Send, Succeed, CheckApplied, Fail, ClearReads, ClearWrites, Publish,
              AnticipateReads, AnticipateWrites, AnticipateEnds, Capture, DrainReads, DrainWrites,
              DrainConfirms, DrainEnds, server, commands
<1>. QED
  BY <1>1, <1>2

LEMMA CheckingSteps ==
  ASSUME [Next]_vars
  PROVE  \/ checking' = checking
         \/ \E c \in Cmd : Succeed(c) \/ CheckApplied(c)
<1>1. CASE UNCHANGED vars
  BY <1>1 DEF vars, server, commands
<1>2. CASE Next
  BY <1>2 DEF Next, Enqueue, Send, Fail, ClearReads, ClearWrites, Publish, AnticipateReads,
              AnticipateWrites, AnticipateEnds, Capture, DrainLoads, DrainReads, DrainWrites,
              DrainConfirms, DrainEnds, server, commands
<1>. QED
  BY <1>1, <1>2

-----------------------------------------------------------------------------
(* Rows and what a drain has loaded.                                       *)

LEMMA RowsInit == Init => Rows /\ Loaded
<1>1. ASSUME Init PROVE Rows /\ Loaded
  <2>1. row = SeededRow /\ running = Idle /\ clearing = [c \in Cmd |-> Idle] /\ Len(log) = 0
    BY <1>1, EmptySeq DEF Init
  <2>2. RowOK(row)
    BY <2>1 DEF RowOK, Clean, SeededRow
  <2>. QED
    BY <2>1, <2>2 DEF Rows, Loaded, Idle
<1>. QED
  BY <1>1

LEMMA DrainLoaded ==
  ASSUME NEW s, DrainLoads(s)
  PROVE  /\ running = Idle /\ running.kind = "none" /\ running'.kind = "drain"
         /\ running'.upto = received /\ running'.after = known
         /\ running'.conflicts = s
         /\ running'.covered = {c \in With({"succeeded"}) : Revision(c) <= received}
         /\ running'.shown = IF With(Outstanding) \ s = {} THEN <<>>
                            ELSE <<Rerun(row.local, With(Outstanding) \ s)>>
<1>. DEFINE again == With(Outstanding) \ s
            shown == IF again = {} THEN <<>> ELSE <<Rerun(row.local, again)>>
            covered == {c \in With({"succeeded"}) : Revision(c) <= received}
<1>1. running' = [kind |-> "drain", upto |-> received, after |-> known, shown |-> shown,
                  conflicts |-> s, covered |-> covered]
  BY DEF DrainLoads
<1>2. running = Idle
  BY DEF DrainLoads, Takes
<1>. HIDE DEF shown, covered
<1>3. /\ running'.kind = "drain" /\ running'.upto = received /\ running'.after = known
      /\ running'.conflicts = s /\ running'.covered = covered /\ running'.shown = shown
  BY <1>1
<1>. QED
  BY <1>2, <1>3 DEF shown, covered, Idle

LEMMA ClearedRow ==
  ASSUME NEW r \in Row, NEW s, s = [r EXCEPT !.local = r.server, !.dirty = FALSE]
  PROVE  s = [server |-> r.server, local |-> r.server, dirty |-> FALSE, revision |-> r.revision]
BY DEF Row

LEMMA KindSteps ==
  /\ AnticipateReads => /\ running.kind = "none" /\ running'.kind = "anticipate"
                        /\ running'.row = row /\ running'.cmd = Head(ops).cmd
  /\ AnticipateWrites => /\ running.kind = "anticipate"
                         /\ \/ running' = Idle /\ running'.kind = "none"
                            \/ running'.kind = "track" /\ running'.cmd = running.cmd
  /\ AnticipateEnds => running.kind = "track" /\ running'.kind = "none"
  /\ DrainReads => /\ running.kind = "drain" /\ running'.kind = "commit"
                   /\ running'.row = row /\ running'.drain = running
  /\ DrainWrites => /\ running.kind = "commit" /\ running'.kind = "confirm"
                    /\ running'.drain = running.drain
  /\ DrainConfirms => running.kind = "confirm" /\ running'.kind = "ending"
  /\ DrainEnds => running.kind = "ending" /\ running'.kind = "none"
<1>1. AnticipateReads => /\ running.kind = "none" /\ running'.kind = "anticipate"
                         /\ running'.row = row /\ running'.cmd = Head(ops).cmd
  BY DEF AnticipateReads, Takes, Idle
<1>2. AnticipateWrites => /\ running.kind = "anticipate"
                          /\ \/ running' = Idle /\ running'.kind = "none"
                             \/ running'.kind = "track" /\ running'.cmd = running.cmd
  BY DEF AnticipateWrites, Idle
<1>3. AnticipateEnds => running.kind = "track" /\ running'.kind = "none"
  BY DEF AnticipateEnds, Idle
<1>4. DrainReads => /\ running.kind = "drain" /\ running'.kind = "commit"
                    /\ running'.row = row /\ running'.drain = running
  BY DEF DrainReads
<1>5. DrainWrites => /\ running.kind = "commit" /\ running'.kind = "confirm"
                     /\ running'.drain = running.drain
  BY DEF DrainWrites
<1>6. DrainConfirms => running.kind = "confirm" /\ running'.kind = "ending"
  BY DEF DrainConfirms
<1>7. DrainEnds => running.kind = "ending" /\ running'.kind = "none"
  BY DEF DrainEnds, Idle
<1>. QED
  BY <1>1, <1>2, <1>3, <1>4, <1>5, <1>6, <1>7

LEMMA Cleaned ==
  ASSUME Types, Rows, NEW c \in Cmd, ClearWrites(c)
  PROVE  /\ clearing[c].kind = "read" /\ clearing[c].row \in Row /\ RowOK(clearing[c].row)
         /\ clearing[c].row.dirty =>
              /\ row'.server = clearing[c].row.server /\ row'.revision = clearing[c].row.revision
              /\ row'.local = row'.server
         /\ ~clearing[c].row.dirty => row' = row
         /\ clearing'[c].kind = IF row.revision = clearing[c].row.revision THEN "done" ELSE "overtaken"
         /\ \A b \in Cmd : b # c => clearing'[b] = clearing[b]
<1>. DEFINE r == clearing[c].row
<1>1. clearing[c].kind = "read" /\ r \in Row /\ RowOK(r)
  BY CleanupShapes DEF ClearWrites, Types, Rows
<1>2. row' = IF r.dirty THEN [r EXCEPT !.local = r.server, !.dirty = FALSE] ELSE row
  BY DEF ClearWrites
<1>3. /\ clearing'[c].kind = IF row.revision = r.revision THEN "done" ELSE "overtaken"
      /\ \A b \in Cmd : b # c => clearing'[b] = clearing[b]
  BY DEF ClearWrites, Types
<1>. HIDE DEF r
<1>4. r.dirty => row' = [server |-> r.server, local |-> r.server, dirty |-> FALSE, revision |-> r.revision]
  BY <1>1, <1>2, ClearedRow
<1>. QED
  BY <1>1, <1>2, <1>3, <1>4 DEF r

LEMMA RowsStep ==
  ASSUME Types, Types', Rows, Orders, Loaded, [Next]_vars
  PROVE  Rows'
<1>1. Len(log) \in Nat /\ Len(log') \in Nat /\ Len(log) <= Len(log')
  BY Grows, LenProperties DEF Types
<1>2. \A r \in Row : RowOK(r) => RowOK(r)'
  BY <1>1 DEF RowOK, Row
<1>3. RowOK(row)'
  <2>1. CASE row' = row
    BY <1>1, <2>1 DEF Rows, RowOK, Types, Row
  <2>2. ASSUME NEW c \in Cmd, ClearWrites(c) PROVE RowOK(row)'
    <3>1. log' = log
      BY <2>2 DEF ClearWrites, server
    <3>. QED
      BY <2>2, <3>1, Cleaned DEF RowOK, Clean, Rows
  <2>3. CASE AnticipateWrites
    <3>1. running.cmd \in Cmd /\ running.row \in Row /\ RowOK(running.row) /\ log' = log
      BY <2>3, RunningIs DEF AnticipateWrites, Rows, server
    <3>2. RowOK(ApplyLocal(running.row, running.cmd))
      BY <3>1, ApplyLocalRow DEF RowOK
    <3>3. row' = row \/ row' = ApplyLocal(running.row, running.cmd)
      BY <2>3 DEF AnticipateWrites
    <3>. QED
      BY <3>1, <3>2, <3>3 DEF RowOK, Rows
  <2>4. CASE DrainWrites
    <3>1. /\ running.row \in Row /\ running.drain \in Drain /\ RowOK(running.row)
          /\ Current(running.drain) /\ log' = log /\ row' = Fold(running.row, running.drain)
      BY <2>4, RunningIs DEF DrainWrites, Rows, Loaded, server
    <3>2. RowOK(Fold(running.row, running.drain))
      BY <3>1, FoldRow
    <3>. QED
      BY <3>1, <3>2 DEF RowOK
  <2>. QED
    BY <2>1, <2>2, <2>3, <2>4, RowSteps
<1>4. ASSUME NEW b \in Cmd, clearing'[b].kind = "read" PROVE RowOK(clearing[b].row)'
  <2>1. clearing[b] \in Cleanup /\ clearing \in [Cmd -> Cleanup]
    BY DEF Types
  <2>2. CASE clearing'[b] = clearing[b]
    <3>1. clearing[b].row \in Row /\ RowOK(clearing[b].row)
      BY <1>4, <2>1, <2>2, CleanupShapes DEF Rows
    <3>. QED
      BY <1>1, <2>2, <3>1 DEF RowOK, Row
  <2>3. ASSUME NEW c \in Cmd, Fail(c) PROVE clearing'[b] = clearing[b]
    BY <1>4, <2>1, <2>3 DEF Fail
  <2>4. ASSUME NEW c \in Cmd, ClearReads(c)
        PROVE  clearing'[b] = clearing[b] \/ (clearing'[b].row = row /\ log' = log)
    BY <1>4, <2>1, <2>4 DEF ClearReads, server, Idle
  <2>5. ASSUME NEW c \in Cmd, ClearWrites(c) PROVE clearing'[b] = clearing[b]
    BY <1>4, <2>1, <2>5 DEF ClearWrites
  <2>6. ASSUME DrainConfirms PROVE clearing'[b] = clearing[b]
    BY <1>4, <2>1, <2>6 DEF DrainConfirms
  <2>7. clearing'[b] = clearing[b] \/ (clearing'[b].row = row /\ log' = log)
    BY <2>3, <2>4, <2>5, <2>6, ClearingSteps
  <2>8. CASE clearing'[b].row = row /\ log' = log
    BY <2>8 DEF Rows, RowOK
  <2>. QED
    BY <2>2, <2>7, <2>8
<1>5. ASSUME running'.kind \in {"anticipate", "commit"} PROVE RowOK(running.row)'
  <2>1. CASE running' = running
    <3>1. running.row \in Row /\ RowOK(running.row)
      BY <1>5, <2>1, RunningIs DEF Rows
    <3>. QED
      BY <1>1, <2>1, <3>1 DEF RowOK, Row
  <2>2. CASE AnticipateReads \/ DrainReads
    <3>1. running'.row = row /\ log' = log
      BY <2>2 DEF AnticipateReads, DrainReads, server
    <3>. QED
      BY <3>1 DEF Rows, RowOK
  <2>3. running' = running \/ AnticipateReads \/ DrainReads
    BY <1>5, RunningSteps, DrainLoaded, KindSteps
  <2>. QED
    BY <2>1, <2>2, <2>3
<1>. QED
  BY <1>3, <1>4, <1>5 DEF Rows

LEMMA LoadedStep ==
  ASSUME Types, Types', Rows, Orders, Orders', Loaded, [Next]_vars
  PROVE  Loaded'
<1>1. \A a : Accepted(a) => Accepted(a)' /\ Revision(a)' = Revision(a)
  BY Grows
<1>2. ASSUME NEW c \in Cmd, status[c] \in {"succeeded", "applied"}
      PROVE  status'[c] \in {"succeeded", "applied"}
  <2>1. status \in [Cmd -> States]
    BY DEF Types
  <2>. QED
    BY <1>2, <2>1, StatusSteps DEF Enqueue, Send, Succeed, CheckApplied, Fail, DrainConfirms, Apply,
       Outstanding
<1>3. ASSUME NEW d \in Drain, Current(d), known' = known PROVE Current(d)'
  <2>1. d.covered \in SUBSET Cmd
    BY DrainShapes
  <2>2. ASSUME NEW c \in d.covered
        PROVE  status'[c] \in {"succeeded", "applied"} /\ Accepted(c)' /\ Revision(c)' <= d.upto
    BY <1>1, <1>2, <1>3, <2>1 DEF Current
  <2>. QED
    BY <1>3, <2>2 DEF Current
<1>4. ASSUME NEW s \in SUBSET Fallible, DrainLoads(s) PROVE Loaded'
  <2>. DEFINE covered == {c \in With({"succeeded"}) : Revision(c) <= received}
  <2>1. known' = received /\ status' = status /\ log' = log
    BY <1>4 DEF DrainLoads, server
  <2>2. ASSUME NEW c \in covered
        PROVE  status'[c] \in {"succeeded", "applied"} /\ Accepted(c)' /\ Revision(c)' <= received
    <3>1. c \in Cmd /\ status[c] = "succeeded" /\ Revision(c) <= received
      BY DEF With
    <3>2. Accepted(c)
      BY <3>1 DEF Orders
    <3>. QED
      BY <1>1, <2>1, <3>1, <3>2
  <2>3. known <= received
    BY DEF Types
  <2>. HIDE DEF covered
  <2>4. /\ running'.kind = "drain" /\ running'.after = known /\ running'.upto = received
        /\ running'.covered = covered
    BY <1>4, DrainLoaded DEF covered
  <2>. QED
    BY <2>1, <2>2, <2>3, <2>4 DEF Loaded, Current
<1>5. ASSUME known' = known, ~\E s \in SUBSET Fallible : DrainLoads(s) PROVE Loaded'
  <2>1. /\ running'.kind = "drain" => running' = running
        /\ running'.kind \in {"commit", "confirm"} =>
             \/ running' = running
             \/ running'.drain = running /\ running.kind = "drain"
             \/ running'.drain = running.drain /\ running.kind = "commit"
    BY <1>5, RunningSteps, KindSteps
  <2>2. running.kind = "drain" => running \in Drain
    BY RunningIs
  <2>3. running.kind \in {"commit", "confirm"} => running.drain \in Drain
    BY RunningIs
  <2>4. running'.kind = "drain" => Current(running)'
    <3>1. SUFFICES ASSUME running'.kind = "drain" PROVE Current(running)'
      OBVIOUS
    <3>2. running' = running /\ running \in Drain /\ Current(running)
      BY <2>1, <2>2, <3>1 DEF Loaded
    <3>. QED
      BY <1>3, <1>5, <3>2 DEF Current
  <2>. QED
    BY <1>3, <1>5, <2>1, <2>2, <2>3, <2>4 DEF Loaded
<1>. QED
  BY <1>4, <1>5, KnownSteps, Zenon

-----------------------------------------------------------------------------
(* The orders.                                                             *)

LEMMA OrdersInit == Init => Orders
<1>1. ASSUME Init PROVE Orders
  <2>1. /\ issued = <<>> /\ log = <<>> /\ status = [c \in Cmd |-> "none"]
        /\ clearing = [c \in Cmd |-> Idle] /\ checking = {}
    BY <1>1 DEF Init
  <2>2. DOMAIN issued = {} /\ DOMAIN log = {}
    BY <2>1, EmptySeq, LenProperties
  <2>. QED
    BY <2>1, <2>2 DEF Orders, Before, Accepted, Idle
<1>. QED
  BY <1>1

\* How the status of a command may change.
LEMMA StatusMoves ==
  ASSUME Types, Orders, Loaded, [Next]_vars, NEW b \in Cmd
  PROVE  /\ status[b] \in Ended => status'[b] \in Ended
         /\ status[b] = "failed" => status'[b] = "failed"
         /\ status[b] \in {"succeeded", "applied"} => status'[b] \in {"succeeded", "applied"}
         /\ status[b] # "none" => status'[b] # "none"
         /\ status'[b] \in {"sending", "succeeded", "applied"} =>
              status[b] \in {"sending", "succeeded", "applied"} \/ Send(b)
         /\ status'[b] = "pending" => status[b] \in {"none", "pending"}
         /\ status[b] = "none" => status'[b] = "none" \/ Enqueue(b)
         /\ status'[b] \in {"succeeded", "applied"} => status[b] \in {"succeeded", "applied"} \/ Succeed(b)
         /\ status'[b] = "applied" =>
              \/ status[b] = "applied"
              \/ CheckApplied(b) /\ row.revision >= Revision(b)
              \/ DrainConfirms /\ b \in running.drain.covered
         /\ status'[b] \in Outstanding \cup {"succeeded"} =>
              status[b] \in Outstanding \cup {"succeeded"} \/ Enqueue(b)
<1>1. status \in [Cmd -> States] /\ checking \in SUBSET Cmd
  BY DEF Types
<1>. USE DEF States, Outstanding, Ended
<1>2. CASE status' = status
  BY <1>1, <1>2
<1>3. ASSUME NEW c \in Cmd, Enqueue(c) PROVE status[c] = "none" /\ status' = [status EXCEPT ![c] = "pending"]
  BY <1>3 DEF Enqueue
<1>4. ASSUME NEW c \in Cmd, Send(c) PROVE status[c] = "pending" /\ status' = [status EXCEPT ![c] = "sending"]
  BY <1>4 DEF Send
<1>5. ASSUME NEW c \in Cmd, Succeed(c)
      PROVE  status[c] = "sending" /\ status' = [status EXCEPT ![c] = "succeeded"]
  BY <1>5 DEF Succeed
<1>6. ASSUME NEW c \in Cmd, CheckApplied(c)
      PROVE  /\ status[c] \in {"succeeded", "applied"}
             /\ status' = status \/ (status' = [status EXCEPT ![c] = "applied"] /\ row.revision >= Revision(c))
  <2>1. status[c] \in {"succeeded", "applied"}
    BY <1>6 DEF CheckApplied, Orders
  <2>2. Apply({c}) = [status EXCEPT ![c] = "applied"]
    BY <1>1 DEF Apply
  <2>. QED
    BY <1>6, <2>1, <2>2 DEF CheckApplied
<1>7. ASSUME NEW c \in Cmd, Fail(c)
      PROVE  status[c] \in {"pending", "sending"} /\ status' = [status EXCEPT ![c] = "failed"]
  BY <1>7 DEF Fail
<1>8. CASE DrainConfirms
  <2>1. /\ status'[b] = IF b \in running.drain.conflicts /\ status[b] \in Outstanding THEN "failed"
                        ELSE IF b \in running.drain.covered THEN "applied" ELSE status[b]
        /\ b \in running.drain.covered => status[b] \in {"succeeded", "applied"}
    BY <1>8 DEF DrainConfirms, Apply, Loaded, Current
  <2>. QED
    BY <1>1, <1>8, <2>1
<1>9. CASE \E c \in Cmd : Enqueue(c)
  BY <1>1, <1>3, <1>9
<1>10. CASE \E c \in Cmd : Send(c)
  BY <1>1, <1>4, <1>10
<1>11. CASE \E c \in Cmd : Succeed(c)
  BY <1>1, <1>5, <1>11
<1>12. CASE \E c \in Cmd : CheckApplied(c)
  BY <1>1, <1>6, <1>12
<1>13. CASE \E c \in Cmd : Fail(c)
  BY <1>1, <1>7, <1>13
<1>. QED
  BY <1>2, <1>8, <1>9, <1>10, <1>11, <1>12, <1>13, StatusSteps

LEMMA OrdersStep ==
  ASSUME Types, Orders, Loaded, [Next]_vars
  PROVE  Orders'
<1>1. \A i, j \in DOMAIN issued' : issued'[i] = issued'[j] => i = j
  BY IssuedSteps, Enqueued DEF Orders
<1>2. ASSUME NEW c \in Cmd PROVE status'[c] # "none" <=> \E i \in DOMAIN issued' : issued'[i] = c
  <2>1. status[c] # "none" <=> \E i \in DOMAIN issued : issued[i] = c
    BY DEF Orders
  <2>2. CASE issued' = issued
    <3>1. ~Enqueue(c)
      <4>1. SUFFICES ASSUME Enqueue(c) PROVE FALSE
        OBVIOUS
      <4>2. Len(issued') = Len(issued) + 1 /\ Len(issued) \in Nat
        BY <4>1, EnqueueAppends
      <4>. QED
        BY <2>2, <4>2
    <3>. QED
      BY <2>1, <2>2, <3>1, StatusMoves
  <2>3. ASSUME NEW b \in Cmd, Enqueue(b) PROVE status'[c] # "none" <=> \E i \in DOMAIN issued' : issued'[i] = c
    <3>1. /\ issued'[Len(issued) + 1] = b
          /\ \A n \in DOMAIN issued : n \in DOMAIN issued' /\ issued'[n] = issued[n]
          /\ DOMAIN issued' = 1..(Len(issued) + 1) /\ DOMAIN issued = 1..Len(issued) /\ Len(issued) \in Nat
      BY <2>3, EnqueueAppends
    <3>2. Len(issued) + 1 \in DOMAIN issued' /\ \A n \in DOMAIN issued' : n \in DOMAIN issued \/ n = Len(issued) + 1
      BY <3>1
    <3>3. status' = [status EXCEPT ![b] = "pending"] /\ status \in [Cmd -> States]
      BY <2>3 DEF Enqueue, Types
    <3>4. CASE c = b
      BY <3>1, <3>2, <3>3, <3>4
    <3>5. CASE c # b
      <4>1. status'[c] = status[c]
        BY <3>3, <3>5
      <4>2. (\E i \in DOMAIN issued' : issued'[i] = c) <=> \E i \in DOMAIN issued : issued[i] = c
        BY <3>1, <3>2, <3>5
      <4>. QED
        BY <2>1, <4>1, <4>2
    <3>. QED
      BY <3>4, <3>5
  <2>. QED
    BY <2>2, <2>3, IssuedSteps
<1>3. \A m, n \in DOMAIN log' : log'[m] = log'[n] => m = n
  BY LogSteps, PublishAppends DEF Orders
<1>4. /\ \A a : Accepted(a) => Accepted(a)' /\ Revision(a)' = Revision(a)
      /\ \A c, d : Before(c, d) => Before(c, d)'
  BY Grows
<1>5. \A a : Accepted(a)' => Accepted(a) \/ (a \in Author /\ Publish(a))
  BY AcceptedSteps
<1>6. \A c, d \in Cmd : Before(c, d)' => Before(c, d) \/ Enqueue(d)
  BY BeforeSteps
<1>7. ASSUME NEW c \in Cmd, Publish(c) PROVE status[c] = "sending" /\ status' = status /\ issued' = issued
  BY <1>7 DEF Publish, commands
<1>8. ASSUME NEW c \in Cmd, Enqueue(c)
      PROVE  /\ status[c] = "none" /\ status'[c] = "pending" /\ ~Accepted(c)' /\ ~Accepted(c)
  <2>1. status[c] = "none" /\ status'[c] = "pending" /\ log' = log
    BY <1>8 DEF Enqueue, server, Types
  <2>2. ~Accepted(c)
    BY <2>1 DEF Orders
  <2>. QED
    BY <2>1, <2>2 DEF Accepted
<1>9. ASSUME NEW c \in Cmd, Accepted(c)' PROVE status'[c] \notin {"none", "pending"}
  <2>1. CASE Accepted(c)
    <3>1. status[c] \notin {"none", "pending"}
      BY <2>1 DEF Orders
    <3>. QED
      BY <3>1, StatusMoves
  <2>2. CASE ~Accepted(c)
    BY <1>5, <1>7, <1>9, <2>2
  <2>. QED
    BY <2>1, <2>2
<1>10. ASSUME NEW c \in Cmd, status'[c] \in {"succeeded", "applied"} PROVE Accepted(c)'
  <2>1. status[c] \in {"succeeded", "applied"} \/ Succeed(c)
    BY <1>10, StatusMoves
  <2>2. Accepted(c)
    BY <2>1 DEF Orders, Succeed
  <2>. QED
    BY <1>4, <2>2
<1>11. ASSUME NEW c \in Cmd, NEW d \in Cmd, Before(c, d)',
              status'[d] \in {"sending", "succeeded", "applied"} \/ Accepted(d)'
       PROVE  status'[c] \in Ended
  <2>1. Before(c, d)
    BY <1>6, <1>8, <1>11
  <2>2. CASE status[d] \in {"sending", "succeeded", "applied"} \/ Accepted(d)
    <3>1. status[c] \in Ended
      BY <2>1, <2>2 DEF Orders
    <3>. QED
      BY <3>1, StatusMoves
  <2>3. CASE ~(status[d] \in {"sending", "succeeded", "applied"} \/ Accepted(d))
    <3>1. ~Accepted(d)'
      BY <1>5, <1>7, <2>3
    <3>2. Send(d)
      BY <1>11, <2>3, <3>1, StatusMoves
    <3>3. status[c] \in Ended
      BY <2>1, <3>2 DEF Before, Send
    <3>. QED
      BY <3>3, StatusMoves
  <2>. QED
    BY <2>2, <2>3
<1>12. ASSUME NEW c \in Cmd, NEW d \in Cmd, Before(c, d)', Accepted(c)', Accepted(d)'
       PROVE  Revision(c)' < Revision(d)'
  <2>1. Before(c, d)
    BY <1>6, <1>8, <1>12
  <2>2. CASE Accepted(c) /\ Accepted(d)
    <3>1. Revision(c) < Revision(d)
      BY <2>1, <2>2 DEF Orders
    <3>. QED
      BY <1>4, <2>2, <3>1
  <2>3. CASE ~Accepted(d)
    <3>1. Publish(d) /\ c # d
      BY <1>5, <1>12, <2>1, <2>3, BeforeOrder
    <3>2. /\ Revision(d)' = Len(log) + 1 /\ Accepted(c)
          /\ Revision(c)' = Revision(c) /\ Revision(c) <= Len(log)
      BY <1>12, <3>1, Published DEF Author
    <3>3. Len(log) \in Nat /\ Revision(c) \in Nat
      <4>1. Revision(c) \in DOMAIN log
        BY <3>2, RevisionOf
      <4>. QED
        BY <4>1, LenProperties DEF Types
    <3>. QED
      BY <3>2, <3>3
  <2>4. CASE Accepted(d) /\ ~Accepted(c)
    <3>1. status[c] = "sending"
      BY <1>5, <1>7, <1>12, <2>4
    <3>2. status[c] \in Ended
      BY <2>1, <2>4 DEF Orders
    <3>. QED
      BY <3>1, <3>2 DEF Ended
  <2>. QED
    BY <2>2, <2>3, <2>4
<1>13. ASSUME NEW c \in Cmd, clearing'[c].kind # "none" PROVE status'[c] = "failed"
  <2>1. clearing \in [Cmd -> Cleanup] /\ status \in [Cmd -> States]
    BY DEF Types
  <2>2. CASE clearing[c].kind # "none"
    <3>1. status[c] = "failed"
      BY <2>2 DEF Orders
    <3>. QED
      BY <3>1, StatusMoves
  <2>3. CASE clearing[c].kind = "none"
    <3>1. ASSUME NEW b \in Cmd, Fail(b) PROVE status'[c] = "failed"
      BY <1>13, <2>1, <2>3, <3>1 DEF Fail
    <3>2. ASSUME NEW b \in Cmd, ClearReads(b) PROVE FALSE
      BY <1>13, <2>1, <2>3, <3>2 DEF ClearReads
    <3>3. ASSUME NEW b \in Cmd, ClearWrites(b) PROVE FALSE
      BY <1>13, <2>1, <2>3, <3>3 DEF ClearWrites
    <3>4. ASSUME DrainConfirms PROVE status'[c] = "failed"
      BY <1>13, <2>1, <2>3, <3>4 DEF DrainConfirms
    <3>. QED
      BY <1>13, <2>3, <3>1, <3>2, <3>3, <3>4, ClearingSteps
  <2>. QED
    BY <2>2, <2>3
<1>14. ASSUME NEW c \in checking' PROVE status'[c] \in {"succeeded", "applied"}
  <2>1. c \in checking \/ (c \in Cmd /\ Succeed(c))
    BY CheckingSteps DEF Succeed, CheckApplied
  <2>2. c \in checking => c \in Cmd /\ status[c] \in {"succeeded", "applied"}
    BY DEF Orders, Types
  <2>3. c \in Cmd /\ Succeed(c) => status'[c] = "succeeded"
    BY DEF Succeed, Types
  <2>. QED
    BY <2>1, <2>2, <2>3, StatusMoves
<1>. QED
  BY <1>1, <1>2, <1>3, <1>9, <1>10, <1>11, <1>12, <1>13, <1>14 DEF Orders

-----------------------------------------------------------------------------
(* The queue.                                                              *)

LEMMA QueueInit == Init => Queue
<1>1. ASSUME Init PROVE Queue
  <2>1. ops = <<>> /\ running.kind = "none"
    BY <1>1 DEF Init, Idle
  <2>2. DOMAIN ops = {}
    BY <2>1, EmptySeq, LenProperties
  <2>. QED
    BY <2>1, <2>2 DEF Queue, Laying, Queued, Anticipating
<1>. QED
  BY <1>1

LEMMA AnticipatingIs ==
  ASSUME NEW c
  PROVE  /\ Anticipating(c) <=> Queued(c) \/ (Laying /\ running.cmd = c)
         /\ Anticipating(c)' <=> Queued(c)' \/ (Laying' /\ running'.cmd = c)
BY DEF Anticipating, Queued, Laying

LEMMA QueuedIs ==
  ASSUME Types
  PROVE  /\ \A i \in DOMAIN ops : ops[i].kind = "anticipate" => ops[i].cmd \in Cmd /\ Queued(ops[i].cmd)
         /\ \A c : Queued(c) => \E i \in DOMAIN ops : ops[i].kind = "anticipate" /\ ops[i].cmd = c
<1>1. \A i \in DOMAIN ops : ops[i] \in Op
  BY LenProperties, ElementOfSeq DEF Types
<1>2. ASSUME NEW i \in DOMAIN ops, ops[i].kind = "anticipate"
      PROVE  ops[i].cmd \in Cmd /\ ops[i] = [kind |-> "anticipate", cmd |-> ops[i].cmd]
  BY <1>1, <1>2, OpShapes
<1>. QED
  BY <1>2 DEF Queued

LEMMA OpAppended ==
  ASSUME Types, NEW o \in Op, ops' = Append(ops, o)
  PROVE  /\ DOMAIN ops = 1..Len(ops) /\ DOMAIN ops' = 1..(Len(ops) + 1) /\ Len(ops) \in Nat
         /\ \A i \in DOMAIN ops : i \in DOMAIN ops' /\ ops'[i] = ops[i]
         /\ \A i \in DOMAIN ops' : i \in DOMAIN ops \/ i = Len(ops) + 1
         /\ Len(ops) + 1 \in DOMAIN ops' /\ ops'[Len(ops) + 1] = o
         /\ \A c : Queued(c)' <=> Queued(c) \/ o = [kind |-> "anticipate", cmd |-> c]
<1>1. ops \in Seq(Op) /\ Len(ops) \in Nat /\ DOMAIN ops = 1..Len(ops)
  BY LenProperties DEF Types
<1>2. /\ ops' \in Seq(Op) /\ Len(ops') = Len(ops) + 1 /\ ops'[Len(ops) + 1] = o
      /\ \A i \in 1..Len(ops) : ops'[i] = ops[i]
  BY <1>1, AppendProperties
<1>3. DOMAIN ops' = 1..(Len(ops) + 1)
  BY <1>2, LenProperties
<1>4. /\ \A i \in DOMAIN ops : i \in DOMAIN ops' /\ ops'[i] = ops[i]
      /\ \A i \in DOMAIN ops' : i \in DOMAIN ops \/ i = Len(ops) + 1
      /\ Len(ops) + 1 \in DOMAIN ops'
  BY <1>1, <1>2, <1>3
<1>5. \A c : Queued(c)' <=> Queued(c) \/ o = [kind |-> "anticipate", cmd |-> c]
  BY <1>2, <1>4 DEF Queued
<1>. QED
  BY <1>1, <1>2, <1>3, <1>4, <1>5

LEMMA OpTaken ==
  ASSUME Types, ops # <<>>, ops' = Tail(ops)
  PROVE  /\ 1 \in DOMAIN ops /\ ops[1] = Head(ops)
         /\ \A i \in DOMAIN ops' : i \in Nat /\ 1 < i + 1 /\ i + 1 \in DOMAIN ops /\ ops'[i] = ops[i + 1]
         /\ \A c : Queued(c) <=> Queued(c)' \/ Head(ops) = [kind |-> "anticipate", cmd |-> c]
<1>1. /\ Head(ops) = ops[1] /\ 1 \in DOMAIN ops
      /\ Len(ops) \in Nat /\ DOMAIN ops = 1..Len(ops) /\ DOMAIN ops' = 1..(Len(ops) - 1)
      /\ \A i \in DOMAIN ops' : i + 1 \in DOMAIN ops /\ ops'[i] = ops[i + 1]
  BY HeadTail DEF Types
<1>2. \A i \in DOMAIN ops : i # 1 => i - 1 \in DOMAIN ops' /\ ops[i] = ops'[i - 1]
  <2>1. ASSUME NEW i \in DOMAIN ops, i # 1 PROVE i - 1 \in DOMAIN ops' /\ (i - 1) + 1 = i
    BY <1>1, <2>1
  <2>. QED
    BY <1>1, <2>1
<1>3. ASSUME NEW c PROVE Queued(c) <=> Queued(c)' \/ Head(ops) = [kind |-> "anticipate", cmd |-> c]
  <2>1. Queued(c) => Queued(c)' \/ Head(ops) = [kind |-> "anticipate", cmd |-> c]
    BY <1>1, <1>2 DEF Queued
  <2>2. Queued(c)' => Queued(c)
    BY <1>1 DEF Queued
  <2>3. Head(ops) = [kind |-> "anticipate", cmd |-> c] => Queued(c)
    BY <1>1 DEF Queued
  <2>. QED
    BY <2>1, <2>2, <2>3
<1>. QED
  BY <1>1, <1>3

\* What a step does to the overlays still to be laid.
LEMMA QueuedSteps ==
  ASSUME Types, [Next]_vars
  PROVE  \/ /\ running' = running \/ (~Laying /\ ~Laying') \/ AnticipateWrites \/ AnticipateEnds
            /\ \A c : Queued(c)' <=> Queued(c)
         \/ \E b \in Cmd : /\ Enqueue(b) /\ running' = running
                           /\ \A c : Queued(c)' <=> Queued(c) \/ c = b
         \/ /\ AnticipateReads /\ Laying' /\ ~Laying /\ running'.cmd \in Cmd
            /\ Head(ops) = [kind |-> "anticipate", cmd |-> running'.cmd]
            /\ \A c : Queued(c) <=> Queued(c)' \/ c = running'.cmd
<1>1. running' = running \/ (~Laying /\ ~Laying') \/ AnticipateWrites \/ AnticipateEnds \/ AnticipateReads
  BY RunningSteps, DrainLoaded, KindSteps DEF Laying
<1>2. CASE ops' = ops
  <2>1. \A c : Queued(c)' <=> Queued(c)
    BY <1>2 DEF Queued
  <2>2. ~AnticipateReads
    <3>1. SUFFICES ASSUME AnticipateReads PROVE FALSE
      OBVIOUS
    <3>2. ops # <<>> /\ ops' = Tail(ops) /\ ops \in Seq(Op)
      BY <3>1 DEF AnticipateReads, Takes, Types
    <3>3. Len(Tail(ops)) = Len(ops) - 1 /\ Len(ops) \in Nat
      BY <3>2, HeadTailProperties, LenProperties, EmptySeq
    <3>. QED
      BY <1>2, <3>2, <3>3
  <2>. QED
    BY <1>1, <2>1, <2>2
<1>3. ASSUME NEW b \in Cmd, Enqueue(b) PROVE running' = running /\ \A c : Queued(c)' <=> Queued(c) \/ c = b
  <2>1. ops' = Append(ops, [kind |-> "anticipate", cmd |-> b]) /\ running' = running
    BY <1>3 DEF Enqueue
  <2>2. [kind |-> "anticipate", cmd |-> b] \in Op
    BY DEF Op
  <2>3. \A c : Queued(c)' <=> Queued(c) \/ [kind |-> "anticipate", cmd |-> b] = [kind |-> "anticipate", cmd |-> c]
    BY <2>1, <2>2, OpAppended
  <2>4. \A c : [kind |-> "anticipate", cmd |-> b] = [kind |-> "anticipate", cmd |-> c] <=> c = b
    OBVIOUS
  <2>. QED
    BY <2>1, <2>3, <2>4
<1>4. ASSUME AnticipateReads
      PROVE  /\ Laying' /\ ~Laying /\ running'.cmd \in Cmd
             /\ Head(ops) = [kind |-> "anticipate", cmd |-> running'.cmd]
             /\ \A c : Queued(c) <=> Queued(c)' \/ c = running'.cmd
  <2>1. /\ ops # <<>> /\ ops' = Tail(ops) /\ Head(ops).kind = "anticipate" /\ ops \in Seq(Op)
        /\ running'.cmd = Head(ops).cmd /\ running.kind = "none" /\ running'.kind = "anticipate"
    BY <1>4, KindSteps DEF AnticipateReads, Takes, Types
  <2>2. Head(ops) \in Op
    BY <2>1, HeadTail
  <2>3. running'.cmd \in Cmd /\ Head(ops) = [kind |-> "anticipate", cmd |-> running'.cmd]
    BY <2>1, <2>2, OpShapes
  <2>4. \A c : Queued(c) <=> Queued(c)' \/ Head(ops) = [kind |-> "anticipate", cmd |-> c]
    BY <2>1, OpTaken
  <2>5. \A c : Head(ops) = [kind |-> "anticipate", cmd |-> c] <=> c = running'.cmd
    BY <2>3
  <2>. QED
    BY <2>1, <2>3, <2>4, <2>5 DEF Laying
<1>5. ASSUME Capture PROVE running' = running /\ \A c : Queued(c)' <=> Queued(c)
  <2>1. running' = running /\ (ops' = ops \/ ops' = Append(ops, [kind |-> "drain"]))
    BY <1>5 DEF Capture
  <2>2. [kind |-> "drain"] \in Op
    BY DEF Op
  <2>3. \A c : [kind |-> "drain"] # [kind |-> "anticipate", cmd |-> c]
    OBVIOUS
  <2>4. CASE ops' = Append(ops, [kind |-> "drain"])
    <3>1. \A c : Queued(c)' <=> Queued(c) \/ [kind |-> "drain"] = [kind |-> "anticipate", cmd |-> c]
      BY <2>2, <2>4, OpAppended
    <3>. QED
      BY <2>1, <2>3, <3>1
  <2>5. CASE ops' = ops
    BY <2>1, <2>5 DEF Queued
  <2>. QED
    BY <2>1, <2>4, <2>5
<1>6. ASSUME NEW s, DrainLoads(s) PROVE ~Laying /\ ~Laying' /\ \A c : Queued(c)' <=> Queued(c)
  <2>1. ops # <<>> /\ ops' = Tail(ops) /\ Head(ops).kind = "drain"
    BY <1>6 DEF DrainLoads, Takes
  <2>2. \A c : Queued(c) <=> Queued(c)' \/ Head(ops) = [kind |-> "anticipate", cmd |-> c]
    BY <2>1, OpTaken
  <2>3. \A c : Head(ops) # [kind |-> "anticipate", cmd |-> c]
    BY <2>1
  <2>4. ~Laying /\ ~Laying'
    BY <1>6, DrainLoaded DEF Laying
  <2>. QED
    BY <2>2, <2>3, <2>4
<1>. QED
  BY <1>2, <1>3, <1>4, <1>5, <1>6, OpsSteps

\* Only its own operation ends the laying of an overlay.
LEMMA Anticipations ==
  ASSUME Types, Orders, Queue, [Next]_vars, NEW c \in Cmd
  PROVE  \/ Anticipating(c)' <=> Anticipating(c)
         \/ Enqueue(c) /\ Anticipating(c)'
         \/ /\ Anticipating(c) /\ ~Anticipating(c)' /\ Laying /\ c = running.cmd
            /\ \A b \in Cmd : Queued(b)' <=> Queued(b)
            /\ AnticipateEnds \/ (AnticipateWrites /\ running' = Idle)
<1>1. /\ Anticipating(c) <=> Queued(c) \/ (Laying /\ running.cmd = c)
      /\ Anticipating(c)' <=> Queued(c)' \/ (Laying' /\ running'.cmd = c)
  BY AnticipatingIs
<1>2. Laying /\ running.cmd = c => ~Queued(c)
  <2>1. Queued(c) /\ Laying => Before(running.cmd, c)
    BY DEF Queue
  <2>. QED
    BY <2>1, BeforeOrder
<1>3. CASE (running' = running \/ (~Laying /\ ~Laying')) /\ \A b : Queued(b)' <=> Queued(b)
  BY <1>1, <1>3 DEF Laying
<1>4. CASE (AnticipateWrites \/ AnticipateEnds) /\ \A b : Queued(b)' <=> Queued(b)
  <2>1. /\ Laying
        /\ \/ Laying' /\ running'.cmd = running.cmd
           \/ ~Laying' /\ (AnticipateEnds \/ (AnticipateWrites /\ running' = Idle))
    BY <1>4, KindSteps DEF Laying
  <2>. QED
    BY <1>1, <1>2, <1>4, <2>1
<1>5. ASSUME NEW b \in Cmd, Enqueue(b), running' = running, \A d : Queued(d)' <=> Queued(d) \/ d = b
      PROVE  (Anticipating(c)' <=> Anticipating(c)) \/ (Enqueue(c) /\ Anticipating(c)')
  BY <1>1, <1>5 DEF Laying
<1>6. CASE /\ Laying' /\ ~Laying
           /\ \A b : Queued(b) <=> Queued(b)' \/ b = running'.cmd
  BY <1>1, <1>6
<1>. QED
  BY <1>3, <1>4, <1>5, <1>6, QueuedSteps

\* The order after a step, of commands that are read after it.
Later(c, d) == \E i, j \in DOMAIN issued' : i < j /\ issued'[i] = c /\ issued'[j] = d

LEMMA QueueStep ==
  ASSUME Types, Orders, Orders', Types', Loaded, Queue, [Next]_vars
  PROVE  Queue'
<1>1. /\ \A c, d : Before(c, d) => Later(c, d)
      /\ \A c \in Cmd : status[c] # "none" => status'[c] # "none"
  <2>1. \A c, d : Before(c, d)' <=> Later(c, d)
    BY DEF Before, Later
  <2>. QED
    BY <2>1, Grows, StatusMoves
<1>2. ASSUME NEW c \in Cmd, Enqueue(c)
      PROVE  /\ status[c] = "none" /\ status'[c] # "none" /\ ~Anticipating(c)
             /\ \A d : ~Before(c, d)'
             /\ \A b \in Cmd : status[b] # "none" => Later(b, c)
  <2>1. \A b : Before(b, c)' <=> Later(b, c)
    BY DEF Before, Later
  <2>. QED
    BY <1>2, <2>1, Enqueued DEF Enqueue, Queue, Types
<1>3. ASSUME NEW i \in DOMAIN ops', NEW j \in DOMAIN ops', i < j,
             ops'[i].kind = "anticipate", ops'[j].kind = "anticipate"
      PROVE  Later(ops'[i].cmd, ops'[j].cmd)
  <2>1. \A m, n \in DOMAIN ops :
          m < n /\ ops[m].kind = "anticipate" /\ ops[n].kind = "anticipate" => Before(ops[m].cmd, ops[n].cmd)
    BY DEF Queue
  <2>2. ASSUME NEW m \in DOMAIN ops, ops[m].kind = "anticipate"
        PROVE  ops[m].cmd \in Cmd /\ status[ops[m].cmd] # "none"
    <3>1. ops[m].cmd \in Cmd /\ Queued(ops[m].cmd)
      BY <2>2, QueuedIs
    <3>. QED
      BY <3>1, AnticipatingIs DEF Queue
  <2>3. CASE ops' = ops
    BY <1>1, <1>3, <2>1, <2>3
  <2>4. ASSUME NEW b \in Cmd, Enqueue(b) PROVE Later(ops'[i].cmd, ops'[j].cmd)
    <3>1. ops' = Append(ops, [kind |-> "anticipate", cmd |-> b])
      BY <2>4 DEF Enqueue
    <3>2. [kind |-> "anticipate", cmd |-> b] \in Op
      BY DEF Op
    <3>3. /\ DOMAIN ops = 1..Len(ops) /\ DOMAIN ops' = 1..(Len(ops) + 1) /\ Len(ops) \in Nat
          /\ \A m \in DOMAIN ops : ops'[m] = ops[m]
          /\ \A m \in DOMAIN ops' : m \in DOMAIN ops \/ m = Len(ops) + 1
          /\ ops'[Len(ops) + 1] = [kind |-> "anticipate", cmd |-> b]
      BY <3>1, <3>2, OpAppended
    <3>4. i \in DOMAIN ops
      BY <1>3, <3>3
    <3>5. CASE j \in DOMAIN ops
      BY <1>1, <1>3, <2>1, <3>3, <3>4, <3>5
    <3>6. CASE j = Len(ops) + 1
      <4>1. ops'[j].cmd = b /\ ops'[i] = ops[i] /\ ops[i].cmd \in Cmd /\ status[ops[i].cmd] # "none"
        BY <1>3, <2>2, <3>3, <3>4, <3>6
      <4>. QED
        BY <1>2, <2>4, <4>1
    <3>. QED
      BY <3>3, <3>5, <3>6
  <2>5. CASE ops' = Append(ops, [kind |-> "drain"])
    <3>1. [kind |-> "drain"] \in Op
      BY DEF Op
    <3>2. /\ \A m \in DOMAIN ops : ops'[m] = ops[m]
          /\ \A m \in DOMAIN ops' : m \in DOMAIN ops \/ m = Len(ops) + 1
          /\ ops'[Len(ops) + 1] = [kind |-> "drain"]
      BY <2>5, <3>1, OpAppended
    <3>3. i \in DOMAIN ops /\ j \in DOMAIN ops
      BY <1>3, <3>2
    <3>. QED
      BY <1>1, <1>3, <2>1, <3>2, <3>3
  <2>6. CASE ops # <<>> /\ ops' = Tail(ops)
    <3>1. /\ i + 1 \in DOMAIN ops /\ ops'[i] = ops[i + 1] /\ i \in Nat
          /\ j + 1 \in DOMAIN ops /\ ops'[j] = ops[j + 1] /\ j \in Nat
      BY <2>6, OpTaken
    <3>. QED
      BY <1>1, <1>3, <2>1, <3>1
  <2>7. \/ ops' = ops \/ (\E b \in Cmd : Enqueue(b)) \/ ops' = Append(ops, [kind |-> "drain"])
        \/ (ops # <<>> /\ ops' = Tail(ops))
    <3>1. Capture => ops' = ops \/ ops' = Append(ops, [kind |-> "drain"])
      BY DEF Capture
    <3>2. AnticipateReads => ops # <<>> /\ ops' = Tail(ops)
      BY DEF AnticipateReads, Takes
    <3>3. \A s : DrainLoads(s) => ops # <<>> /\ ops' = Tail(ops)
      BY DEF DrainLoads, Takes
    <3>. QED
      BY <3>1, <3>2, <3>3, OpsSteps
  <2>. QED
    BY <2>3, <2>4, <2>5, <2>6, <2>7
<1>4. ASSUME Laying', NEW c \in Cmd, Queued(c)' PROVE Later(running'.cmd, c)
  <2>1. ASSUME Laying, running'.cmd = running.cmd, Queued(c) PROVE Later(running'.cmd, c)
    BY <1>1, <2>1 DEF Queue
  <2>2. CASE AnticipateReads
    <3>1. ops # <<>> /\ ops' = Tail(ops) /\ running'.cmd = Head(ops).cmd /\ Head(ops).kind = "anticipate"
      BY <2>2, KindSteps DEF AnticipateReads, Takes
    <3>2. PICK i \in DOMAIN ops' : ops'[i] = [kind |-> "anticipate", cmd |-> c]
      BY <1>4 DEF Queued
    <3>3. /\ 1 \in DOMAIN ops /\ ops[1] = Head(ops) /\ 1 < i + 1 /\ i + 1 \in DOMAIN ops
          /\ ops[i + 1].kind = "anticipate" /\ ops[i + 1].cmd = c
      BY <3>1, <3>2, OpTaken
    <3>4. Before(running'.cmd, c)
      BY <3>1, <3>3 DEF Queue
    <3>. QED
      BY <1>1, <3>4
  <2>3. ASSUME NEW b \in Cmd, Enqueue(b), running' = running, \A d : Queued(d)' <=> Queued(d) \/ d = b
        PROVE  Later(running'.cmd, c)
    <3>1. Laying /\ running.cmd \in Cmd
      BY <1>4, <2>3, RunningIs DEF Laying
    <3>2. CASE c = b
      <4>1. Anticipating(running.cmd)
        BY <3>1, AnticipatingIs
      <4>2. status[running.cmd] # "none"
        BY <3>1, <4>1 DEF Queue
      <4>. QED
        BY <1>2, <2>3, <3>1, <3>2, <4>2
    <3>3. CASE c # b
      BY <1>4, <2>1, <2>3, <3>1, <3>3
    <3>. QED
      BY <3>2, <3>3
  <2>4. ASSUME running' = running \/ AnticipateWrites \/ AnticipateEnds, \A d : Queued(d)' <=> Queued(d)
        PROVE  Later(running'.cmd, c)
    <3>1. Laying /\ running'.cmd = running.cmd
      BY <1>4, <2>4, KindSteps DEF Laying
    <3>. QED
      BY <1>4, <2>1, <2>4, <3>1
  <2>. QED
    BY <1>4, <2>2, <2>3, <2>4, QueuedSteps
<1>5. ASSUME NEW c \in Cmd, NEW d \in Cmd, Before(c, d)', Anticipating(c)' PROVE Anticipating(d)'
  <2>1. CASE Enqueue(d)
    <3>1. Queued(d)'
      <4>1. ops' = Append(ops, [kind |-> "anticipate", cmd |-> d])
        BY <2>1 DEF Enqueue
      <4>2. [kind |-> "anticipate", cmd |-> d] \in Op
        BY DEF Op
      <4>. QED
        BY <4>1, <4>2, OpAppended
    <3>. QED
      BY <3>1, AnticipatingIs
  <2>2. CASE ~Enqueue(d)
    <3>1. Before(c, d) /\ ~Enqueue(c)
      BY <1>2, <1>5, <2>2, BeforeSteps
    <3>2. Anticipating(c)
      BY <1>5, <3>1, Anticipations
    <3>3. Anticipating(d)
      BY <3>1, <3>2 DEF Queue
    <3>4. SUFFICES ASSUME ~Anticipating(d)' PROVE FALSE
      OBVIOUS
    <3>5. Laying /\ d = running.cmd /\ c # d
      BY <1>5, <3>3, <3>4, Anticipations
    <3>6. Queued(c)
      BY <3>2, <3>5, AnticipatingIs
    <3>7. Before(d, c)
      BY <3>5, <3>6 DEF Queue
    <3>. QED
      BY <3>1, <3>7, BeforeOrder
  <2>. QED
    BY <2>1, <2>2
<1>6. ASSUME NEW c \in Cmd, Anticipating(c)' PROVE status'[c] # "none"
  <2>1. Anticipating(c) \/ Enqueue(c)
    BY <1>6, Anticipations
  <2>2. Anticipating(c) => status[c] # "none"
    BY DEF Queue
  <2>. QED
    BY <1>1, <1>2, <2>1, <2>2
<1>7. /\ \A i, j \in DOMAIN ops' :
           i < j /\ ops'[i].kind = "anticipate" /\ ops'[j].kind = "anticipate" =>
             Before(ops[i].cmd, ops[j].cmd)'
      /\ Laying' => \A c \in Cmd : Queued(c)' => Before(running.cmd, c)'
  BY <1>3, <1>4 DEF Before, Later
<1>. QED
  BY <1>5, <1>6, <1>7 DEF Queue

-----------------------------------------------------------------------------
(* The baseline.                                                           *)

LEMMA BaselineInit == Init => Baseline
<1>1. ASSUME Init PROVE Baseline
  <2>1. /\ log = <<>> /\ known = 0 /\ row = SeededRow /\ running.kind = "none"
        /\ status = [c \in Cmd |-> "none"] /\ clearing = [c \in Cmd |-> Idle]
    BY <1>1 DEF Init, Idle
  <2>2. TruthOf(log, 0) = Seeded
    BY DEF TruthOf, Writers, Seeded
  <2>3. row.server = Seeded /\ row.revision = 0
    BY <2>1 DEF SeededRow
  <2>. QED
    BY <2>1, <2>2, <2>3 DEF Baseline, Reads, Idle
<1>. QED
  BY <1>1

\* A cleanup that has written the row is over for good.
LEMMA CleanupOver ==
  ASSUME Types, Orders, [Next]_vars, NEW c \in Cmd, clearing[c].kind \in {"done", "overtaken"}
  PROVE  clearing'[c] = clearing[c]
<1>1. clearing \in [Cmd -> Cleanup] /\ status[c] = "failed"
  BY DEF Types, Orders
<1>2. ASSUME NEW b \in Cmd, Fail(b) PROVE clearing'[c] = clearing[c]
  BY <1>1, <1>2 DEF Fail, Outstanding
<1>3. ASSUME NEW b \in Cmd, ClearReads(b) PROVE clearing'[c] = clearing[c]
  BY <1>1, <1>3 DEF ClearReads
<1>4. ASSUME NEW b \in Cmd, ClearWrites(b) PROVE clearing'[c] = clearing[c]
  BY <1>1, <1>4 DEF ClearWrites
<1>5. ASSUME DrainConfirms PROVE clearing'[c] = clearing[c]
  BY <1>1, <1>5 DEF DrainConfirms, Outstanding
<1>. QED
  BY <1>2, <1>3, <1>4, <1>5, ClearingSteps

LEMMA DrainWritten ==
  ASSUME Types, Rows, Loaded, Baseline, NotOvertaken, DrainWrites
  PROVE  /\ row'.revision = known /\ row.revision <= known
         /\ row'.server = TruthOf(log, known)
<1>. DEFINE r == running.row
            d == running.drain
<1>1. /\ running.kind = "commit" /\ r \in Row /\ d \in Drain /\ RowOK(r) /\ Current(d)
      /\ row' = Fold(r, d)
  BY RunningIs, KindSteps DEF DrainWrites, Rows, Loaded
<1>2. /\ r.server = TruthOf(log, d.after) /\ r.revision = row.revision /\ row.revision = d.after
      /\ d.after <= d.upto /\ d.upto = known
  BY <1>1 DEF Reads, Current, Baseline
<1>. HIDE DEF r, d
<1>3. /\ Fold(r, d).revision = IF d.upto = d.after THEN r.revision ELSE d.upto
      /\ Fold(r, d).server = TruthOf(log, d.upto)
  BY <1>1, <1>2, FoldRow
<1>. QED
  BY <1>1, <1>2, <1>3

\* What a step does to the baseline of the row.
LEMMA BaselineMoves ==
  ASSUME Types, Rows, Orders, Loaded, Baseline, NotOvertaken, NotOvertaken', [Next]_vars
  PROVE  \/ row'.server = row.server /\ row'.revision = row.revision
         \/ /\ DrainWrites /\ row'.revision = known /\ row.revision <= known
            /\ row'.server = TruthOf(log, known)
<1>1. /\ row.server = TruthOf(log, row.revision)
      /\ Reads => running.row.server = row.server /\ running.row.revision = row.revision
      /\ \A c \in Cmd : clearing[c].kind = "read" =>
           clearing[c].row.server = TruthOf(log, clearing[c].row.revision)
      /\ running.kind = "commit" => row.revision = running.drain.after
  BY DEF Baseline
<1>2. ASSUME NEW c \in Cmd, ClearWrites(c)
      PROVE  row'.server = row.server /\ row'.revision = row.revision
  <2>1. clearing'[c].kind # "overtaken"
    BY DEF NotOvertaken
  <2>2. row.revision = clearing[c].row.revision /\ clearing[c].kind = "read"
    BY <1>2, <2>1, Cleaned
  <2>3. clearing[c].row.server = row.server
    BY <1>1, <2>2
  <2>. QED
    BY <1>2, <2>2, <2>3, Cleaned
<1>3. ASSUME AnticipateWrites PROVE row'.server = row.server /\ row'.revision = row.revision
  <2>1. running.cmd \in Cmd /\ running.row \in Row /\ running.kind = "anticipate"
    BY <1>3, RunningIs, KindSteps
  <2>2. row' = row \/ row' = ApplyLocal(running.row, running.cmd)
    BY <1>3 DEF AnticipateWrites
  <2>. QED
    BY <1>1, <2>1, <2>2, ApplyLocalRow DEF Reads
<1>. QED
  BY <1>2, <1>3, DrainWritten, RowSteps

LEMMA BaselineStep ==
  ASSUME Types, Types', Rows, Orders, Loaded, Baseline, [Next]_vars
  PROVE  Baseline'
<1>1. SUFFICES ASSUME NotOvertaken' PROVE Baseline'
  BY DEF Baseline
<1>2. NotOvertaken
  BY <1>1, CleanupOver DEF NotOvertaken
<1>3. /\ row.server = TruthOf(log, row.revision)
      /\ Reads => running.row.server = row.server /\ running.row.revision = row.revision
      /\ \A c \in Cmd : clearing[c].kind = "read" =>
           clearing[c].row.server = TruthOf(log, clearing[c].row.revision)
      /\ running.kind \notin {"drain", "commit"} => row.revision = known
      /\ running.kind = "drain" => row.revision = running.after
      /\ running.kind = "commit" => row.revision = running.drain.after
      /\ \A c \in Cmd : status[c] = "applied" => Revision(c) <= row.revision
  BY <1>2 DEF Baseline
<1>4. \/ row'.server = row.server /\ row'.revision = row.revision
      \/ /\ DrainWrites /\ row'.revision = known /\ row.revision <= known
         /\ row'.server = TruthOf(log, known)
  BY <1>1, <1>2, BaselineMoves
<1>5. /\ Len(log) \in Nat /\ row.revision \in 0..Len(log) /\ known \in 0..Len(log)
      /\ row \in Row /\ row.revision \in Nat /\ known \in Nat
  BY LenProperties DEF Types, Rows, RowOK, Row
<1>6. \A n \in 0..Len(log) : TruthOf(log', n) = TruthOf(log, n)
  BY Grows
<1>7. row'.server = TruthOf(log', row'.revision)
  BY <1>3, <1>4, <1>5, <1>6
<1>8. ASSUME Reads' PROVE running'.row.server = row'.server /\ running'.row.revision = row'.revision
  <2>1. CASE running' = running
    <3>1. Reads /\ ~DrainWrites
      BY <1>8, <2>1, KindSteps DEF Reads
    <3>. QED
      BY <1>3, <1>4, <2>1, <3>1
  <2>2. CASE AnticipateReads \/ DrainReads
    <3>1. running'.row = row /\ row' = row
      BY <2>2, KindSteps DEF AnticipateReads, DrainReads
    <3>. QED
      BY <3>1
  <2>. QED
    BY <1>8, <2>1, <2>2, RunningSteps, KindSteps, DrainLoaded DEF Reads
<1>9. ASSUME NEW c \in Cmd, clearing'[c].kind = "read"
      PROVE  clearing'[c].row.server = TruthOf(log', clearing'[c].row.revision)
  <2>1. clearing \in [Cmd -> Cleanup]
    BY DEF Types
  <2>2. CASE clearing'[c] = clearing[c]
    <3>1. clearing[c].row \in Row /\ clearing[c].row.revision \in 0..Len(log)
      BY <1>5, <1>9, <2>1, <2>2, CleanupShapes DEF Rows, RowOK, Row
    <3>. QED
      BY <1>3, <1>6, <1>9, <2>2, <3>1
  <2>3. ASSUME NEW b \in Cmd, Fail(b) PROVE clearing'[c] = clearing[c]
    BY <1>9, <2>1, <2>3 DEF Fail
  <2>4. ASSUME NEW b \in Cmd, ClearReads(b)
        PROVE  clearing'[c] = clearing[c] \/ clearing'[c].row = row
    BY <1>9, <2>1, <2>4 DEF ClearReads, Idle
  <2>5. ASSUME NEW b \in Cmd, ClearWrites(b) PROVE clearing'[c] = clearing[c]
    BY <1>9, <2>1, <2>5 DEF ClearWrites
  <2>6. ASSUME DrainConfirms PROVE clearing'[c] = clearing[c]
    BY <1>9, <2>1, <2>6 DEF DrainConfirms
  <2>7. CASE clearing'[c].row = row
    BY <1>3, <1>5, <1>6, <2>7
  <2>. QED
    BY <2>2, <2>3, <2>4, <2>5, <2>6, <2>7, ClearingSteps
<1>10. /\ running'.kind \notin {"drain", "commit"} => row'.revision = known'
       /\ running'.kind = "drain" => row'.revision = running'.after
       /\ running'.kind = "commit" => row'.revision = running'.drain.after
  <2>1. ASSUME NEW s, DrainLoads(s)
        PROVE  running'.kind = "drain" /\ row'.revision = running'.after
    BY <1>3, <2>1, DrainLoaded DEF DrainLoads
  <2>2. CASE \E s \in SUBSET Fallible : DrainLoads(s)
    BY <2>1, <2>2
  <2>3. CASE ~\E s \in SUBSET Fallible : DrainLoads(s)
    <3>1. known' = known
      BY <2>3, KnownSteps, Zenon
    <3>2. CASE running' = running
      <4>1. ~DrainWrites
        BY <3>2, KindSteps
      <4>. QED
        BY <1>3, <1>4, <3>1, <3>2, <4>1
    <3>3. CASE DrainWrites
      <4>1. running'.kind = "confirm" /\ running.kind = "commit"
        BY <3>3, KindSteps
      <4>2. row'.revision = known
        BY <1>1, <1>2, <3>3, DrainWritten
      <4>. QED
        BY <3>1, <4>1, <4>2
    <3>4. CASE DrainReads
      <4>1. running.kind = "drain" /\ running'.kind = "commit" /\ running'.drain = running /\ row' = row
        BY <3>4, KindSteps DEF DrainReads
      <4>. QED
        BY <1>3, <4>1
    <3>5. CASE AnticipateReads \/ AnticipateWrites \/ AnticipateEnds \/ DrainConfirms \/ DrainEnds
      <4>1. /\ running.kind \notin {"drain", "commit"} /\ running'.kind \notin {"drain", "commit"}
            /\ ~DrainWrites
        BY <3>5, KindSteps
      <4>. QED
        BY <1>3, <1>4, <3>1, <4>1
    <3>. QED
      BY <2>3, <3>2, <3>3, <3>4, <3>5, RunningSteps
  <2>. QED
    BY <2>2, <2>3
<1>11. ASSUME NEW c \in Cmd, status'[c] = "applied" PROVE Revision(c)' <= row'.revision
  <2>1. \/ status[c] = "applied"
        \/ CheckApplied(c) /\ row.revision >= Revision(c)
        \/ DrainConfirms /\ c \in running.drain.covered
    BY <1>11, StatusMoves
  <2>2. status[c] \in {"succeeded", "applied"}
    BY <1>11, <2>1, KindSteps DEF Orders, CheckApplied, Loaded, Current
  <2>3. Revision(c)' = Revision(c) /\ Revision(c) \in Nat
    <3>1. Accepted(c)
      BY <2>2 DEF Orders
    <3>2. Revision(c) \in DOMAIN log /\ DOMAIN log = 1..Len(log)
      BY <3>1, RevisionOf, LenProperties DEF Types
    <3>. QED
      BY <1>5, <3>1, <3>2, Grows
  <2>4. Revision(c) <= row.revision
    <3>1. CASE DrainConfirms /\ c \in running.drain.covered
      <4>1. running.kind = "confirm" /\ Current(running.drain)
        BY <3>1, KindSteps DEF Loaded
      <4>. QED
        BY <1>3, <3>1, <4>1 DEF Current
    <3>2. CASE status[c] = "applied" \/ row.revision >= Revision(c)
      BY <1>3, <1>5, <2>3, <3>2
    <3>. QED
      BY <2>1, <3>1, <3>2
  <2>5. row.revision <= row'.revision
    BY <1>4, <1>5
  <2>6. row'.revision \in Nat
    BY <1>4, <1>5
  <2>. QED
    BY <1>5, <2>3, <2>4, <2>5, <2>6
<1>. QED
  BY <1>7, <1>8, <1>9, <1>10, <1>11 DEF Baseline

-----------------------------------------------------------------------------
(* The views.                                                              *)

LEMMA ViewsInit == Init => Views
<1>1. ASSUME Init PROVE Views
  <2>1. running.kind = "none" /\ status = [c \in Cmd |-> "none"]
    BY <1>1 DEF Init, Idle
  <2>. QED
    BY <2>1 DEF Views, Reads, Laid
<1>. QED
  BY <1>1

Live(c) == status[c] \in {"pending", "sending", "succeeded"}

\* The outstanding commands run again, and one that is outstanding has no
\* successor in the stream nor, if it comes before c, a c that has been sent.
LEMMA RerunKeeps ==
  ASSUME Types, Orders, NEW c \in Cmd, Live(c), NEW s, c \notin s,
         NEW content \in Content, Shows(content, c)
  PROVE  Shows(Rerun(content, With(Outstanding) \ s), c)
<1>. DEFINE again == With(Outstanding) \ s
            f == Writes[c]
            y == Rerun(content, again)[f]
<1>1. f \in Field
  BY AuthorAssumption DEF Author
<1>2. issued \in Seq(Cmd) /\ DOMAIN issued = 1..Len(issued) /\ \A i \in DOMAIN issued : issued[i] \in Cmd
  BY LenProperties, ElementOfSeq DEF Types
<1>3. \A d : d \in again <=> d \in Cmd /\ status[d] \in Outstanding /\ d \notin s
  BY DEF With
<1>. HIDE DEF again
<1>4. \/ y = content[f]
      \/ \E j \in DOMAIN issued :
           /\ issued[j] \in again /\ Writes[issued[j]] = f /\ y = issued[j]
           /\ \A i \in DOMAIN issued : issued[i] \in again /\ Writes[issued[i]] = f => i <= j
  BY <1>1, <1>2, RerunShows
<1>5. CASE y = content[f]
  BY <1>5 DEF Shows, again
<1>6. ASSUME NEW j \in DOMAIN issued, issued[j] \in again, Writes[issued[j]] = f, y = issued[j],
             \A i \in DOMAIN issued : issued[i] \in again /\ Writes[issued[i]] = f => i <= j
      PROVE  y \in {c} \cup Successors(c)
  <2>1. SUFFICES ASSUME y # c PROVE y \in Successors(c)
    OBVIOUS
  <2>2. y \in Cmd /\ status[y] \in Outstanding /\ status[y] # "none"
    BY <1>2, <1>3, <1>6 DEF Outstanding
  <2>3. status[c] # "none"
    BY DEF Live
  <2>4. Before(c, y) \/ Before(y, c)
    BY <2>1, <2>2, <2>3, BeforeOrder
  <2>5. ~Before(y, c)
    <3>1. SUFFICES ASSUME Before(y, c) PROVE FALSE
      OBVIOUS
    <3>2. CASE status[c] = "succeeded"
      <4>1. status[y] \in Ended
        BY <2>2, <3>1, <3>2 DEF Orders
      <4>. QED
        BY <2>2, <4>1 DEF Ended, Outstanding
    <3>3. CASE status[c] # "succeeded"
      <4>1. c \in again
        BY <1>3, <3>3 DEF Live, Outstanding
      <4>2. PICK i \in DOMAIN issued : issued[i] = c
        BY <2>3 DEF Orders
      <4>3. i <= j
        BY <1>6, <4>1, <4>2
      <4>4. PICK k, l \in DOMAIN issued : k < l /\ issued[k] = y /\ issued[l] = c
        BY <3>1 DEF Before
      <4>5. k = j /\ l = i
        BY <1>6, <4>2, <4>4 DEF Orders
      <4>. QED
        BY <1>2, <4>3, <4>4, <4>5
    <3>. QED
      BY <3>2, <3>3
  <2>. QED
    BY <1>6, <2>2, <2>4, <2>5, SuccessorsAre DEF Author
<1>. QED
  BY <1>4, <1>5, <1>6 DEF Shows, again

\* What replaces the overlay of c in a merge follows what the overlay showed
\* in the stream, and so follows c.
LEMMA MergeKeeps ==
  ASSUME Types, Orders, NEW c \in Cmd, Live(c), NEW r \in Row, Clean(r),
         NEW m \in Nat, NEW n \in m..Len(log), r.server = TruthOf(log, m), Shows(r.local, c)
  PROVE  Shows(MergeAll(r, m, n).local, c)
<1>. DEFINE f == Writes[c]
            x == r.local[f]
            y == MergeAll(r, m, n).local[f]
<1>1. f \in Field /\ c \in Author
  BY AuthorAssumption DEF Author
<1>2. log \in Seq(Author) /\ Len(log) \in Nat /\ DOMAIN log = 1..Len(log) /\ \A i \in DOMAIN log : log[i] \in Author
  BY LenProperties, ElementOfSeq DEF Types
<1>3. x \in {c} \cup Successors(c) /\ x \in Author
  BY <1>1 DEF Shows, Successors
<1>4. \/ y = x
      \/ \E j \in (m + 1)..n :
           /\ y = log[j] /\ Writes[log[j]] = f
           /\ x = r.server[f] \/ \E i \in (m + 1)..(j - 1) : x = log[i]
  BY <1>1, <1>2, MergeAllShows
<1>5. CASE y = x
  BY <1>3, <1>5 DEF Shows
<1>6. ASSUME NEW j \in (m + 1)..n, y = log[j], Writes[log[j]] = f,
             x = r.server[f] \/ \E i \in (m + 1)..(j - 1) : x = log[i]
      PROVE  y \in {c} \cup Successors(c)
  <2>1. j \in DOMAIN log /\ j \in Nat
    BY <1>2
  <2>2. \E i \in DOMAIN log : i < j /\ x = log[i]
    <3>1. CASE x = r.server[f]
      <4>1. \/ TruthOf(log, m)[f] = Nobody
            \/ \E k \in Writers(log, f, m) : TruthOf(log, m)[f] = log[k]
        BY <1>1, TruthValue
      <4>2. x # Nobody
        BY <1>3, AuthorAssumption
      <4>3. PICK k \in Writers(log, f, m) : x = log[k]
        BY <3>1, <4>1, <4>2
      <4>4. k \in 1..m
        BY DEF Writers
      <4>5. k \in DOMAIN log /\ k < j
        BY <1>2, <4>4
      <4>. QED
        BY <4>3, <4>5
    <3>2. ASSUME NEW i \in (m + 1)..(j - 1), x = log[i] PROVE \E k \in DOMAIN log : k < j /\ x = log[k]
      <4>1. i \in DOMAIN log /\ i < j
        BY <1>2, <2>1
      <4>. QED
        BY <3>2, <4>1
    <3>. QED
      BY <1>6, <3>1, <3>2
  <2>3. PICK i \in DOMAIN log : i < j /\ x = log[i]
    BY <2>2
  <2>4. Accepted(x) /\ Revision(x) = i /\ Accepted(y) /\ Revision(y) = j
    BY <1>6, <2>1, <2>3, RevisionIs
  <2>5. Accepted(c) /\ Revision(c) < j
    <3>1. CASE x = c
      BY <2>3, <2>4, <3>1
    <3>2. CASE x \in Successors(c) /\ Accepted(c) /\ Revision(c) < Revision(x)
      <4>1. Revision(c) \in DOMAIN log
        BY <3>2, RevisionOf
      <4>. QED
        BY <1>2, <2>1, <2>3, <2>4, <3>2, <4>1
    <3>3. CASE x \in Successors(c) /\ Before(c, x)
      <4>1. x \in Cmd
        <5>1. PICK k \in DOMAIN issued : issued[k] = x
          BY <3>3 DEF Before
        <5>. QED
          BY <5>1, LenProperties, ElementOfSeq DEF Types
      <4>2. status[c] \in Ended
        BY <2>4, <3>3, <4>1 DEF Orders
      <4>3. status[c] = "succeeded"
        BY <4>2 DEF Live, Ended
      <4>4. Accepted(c)
        BY <4>3 DEF Orders
      <4>5. Revision(c) < Revision(x)
        BY <2>4, <3>3, <4>1, <4>4 DEF Orders
      <4>6. Revision(c) \in DOMAIN log
        BY <4>4, RevisionOf
      <4>. QED
        BY <1>2, <2>1, <2>3, <2>4, <4>4, <4>5, <4>6
    <3>. QED
      BY <1>3, <3>1, <3>2, <3>3, SuccessorsAre
  <2>. QED
    BY <1>2, <1>6, <2>1, <2>4, <2>5, SuccessorsAre
<1>. QED
  BY <1>4, <1>5, <1>6 DEF Shows

LEMMA LaidSteps ==
  ASSUME Types, Orders, Loaded, Queue, [Next]_vars, NEW c \in Cmd, Laid(c)'
  PROVE  /\ Live(c) /\ status[c] # "none" /\ c \notin conflicted
         /\ \/ Laid(c)
            \/ /\ Laying /\ c = running.cmd
               /\ AnticipateEnds \/ (AnticipateWrites /\ running' = Idle)
<1>1. status'[c] \in {"pending", "sending", "succeeded"} /\ c \notin conflicted' /\ ~Anticipating(c)'
  BY DEF Laid
<1>2. ~Enqueue(c)
  <2>1. SUFFICES ASSUME Enqueue(c) PROVE FALSE
    OBVIOUS
  <2>2. ops' = Append(ops, [kind |-> "anticipate", cmd |-> c]) /\ [kind |-> "anticipate", cmd |-> c] \in Op
    BY <2>1 DEF Enqueue, Op
  <2>3. Queued(c)'
    BY <2>2, OpAppended
  <2>. QED
    BY <1>1, <2>3, AnticipatingIs
<1>3. Live(c) /\ status[c] # "none"
  BY <1>1, <1>2, StatusMoves DEF Live, Outstanding
<1>4. c \notin conflicted
  BY <1>1, ConflictedSteps DEF DrainLoads
<1>. QED
  BY <1>1, <1>2, <1>3, <1>4, Anticipations DEF Laid, Live

\* An overlay laid later is one of a command issued later.
LEMMA LayingFollows ==
  ASSUME Types, Orders, Queue, Laying, NEW c \in Cmd, Laid(c), Writes[running.cmd] = Writes[c]
  PROVE  running.cmd \in Successors(c)
<1>1. running.cmd \in Cmd /\ Anticipating(running.cmd) /\ ~Anticipating(c)
  BY RunningIs, AnticipatingIs DEF Laying, Laid
<1>2. status[running.cmd] # "none" /\ status[c] # "none" /\ running.cmd # c
  BY <1>1 DEF Queue, Laid
<1>3. ~Before(running.cmd, c)
  BY <1>1 DEF Queue
<1>4. Before(c, running.cmd)
  BY <1>1, <1>2, <1>3, BeforeOrder
<1>. QED
  BY <1>1, <1>4, SuccessorsAre DEF Author

LEMMA ViewsStep ==
  ASSUME Types, Types', Rows, Orders, Loaded, Queue, Baseline, Views, [Next]_vars
  PROVE  Views'
<1>1. SUFFICES ASSUME ~Cleared' PROVE Views'
  BY DEF Views
<1>2. ~Cleared /\ NotOvertaken
  BY <1>1, CleanupOver DEF Cleared, NotOvertaken
<1>3. /\ Reads => running.row = row
      /\ running.kind = "track" => row.local[Writes[running.cmd]] = running.cmd
      /\ \A c \in Cmd : Laid(c) => Shows(row.local, c)
      /\ running.kind = "drain" /\ running.shown # <<>> =>
           \A c \in Cmd : Laid(c) => Shows(running.shown[1], c)
      /\ running.kind = "commit" /\ running.drain.shown # <<>> =>
           \A c \in Cmd : Laid(c) => Shows(running.drain.shown[1], c)
  BY <1>2 DEF Views
<1>4. ASSUME NEW c \in Cmd PROVE ~ClearWrites(c)
  <2>1. SUFFICES ASSUME ClearWrites(c) PROVE FALSE
    OBVIOUS
  <2>2. clearing'[c].kind \in {"done", "overtaken"}
    BY <2>1, Cleaned
  <2>. QED
    BY <1>1, <2>2 DEF Cleared
<1>5. row' = row \/ AnticipateWrites \/ DrainWrites
  BY <1>4, RowSteps
<1>6. row.local \in Content /\ row \in Row
  BY RowShape DEF Types
<1>7. \A c : Successors(c) \subseteq Successors(c)'
  BY SuccessorsGrow
<1>8. Reads' => running'.row = row'
  <2>1. CASE running' = running
    <3>1. ~AnticipateWrites /\ ~DrainWrites
      BY <2>1, KindSteps
    <3>. QED
      BY <1>3, <1>5, <2>1, <3>1 DEF Reads
  <2>2. CASE AnticipateReads \/ DrainReads
    BY <2>2, KindSteps DEF AnticipateReads, DrainReads
  <2>. QED
    BY <2>1, <2>2, RunningSteps, KindSteps, DrainLoaded DEF Reads
<1>9. running'.kind = "track" => row'.local[Writes[running'.cmd]] = running'.cmd
  <2>1. SUFFICES ASSUME running'.kind = "track" PROVE row'.local[Writes[running'.cmd]] = running'.cmd
    OBVIOUS
  <2>2. CASE running' = running
    <3>1. ~AnticipateWrites /\ ~DrainWrites
      BY <2>2, KindSteps
    <3>. QED
      BY <1>3, <1>5, <2>1, <2>2, <3>1
  <2>3. CASE AnticipateWrites
    <3>1. running.cmd \in Cmd /\ running.row \in Row
      BY <2>3, RunningIs, KindSteps
    <3>2. row' = ApplyLocal(running.row, running.cmd) /\ running'.cmd = running.cmd
      BY <2>1, <2>3 DEF AnticipateWrites, Idle
    <3>3. row'.local = Put(running.row.local, running.cmd) /\ running.row.local \in Content
      BY <3>1, <3>2, ApplyLocalRow, RowShape
    <3>. QED
      BY <3>1, <3>2, <3>3, PutContent DEF Author
  <2>. QED
    BY <2>1, <2>2, <2>3, RunningSteps, KindSteps, DrainLoaded
<1>10. ASSUME NEW c \in Cmd, Laid(c)' PROVE row'.local[Writes[c]] \in {c} \cup Successors(c)
  <2>1. /\ Live(c)
        /\ \/ Laid(c)
           \/ /\ Laying /\ c = running.cmd
              /\ AnticipateEnds \/ (AnticipateWrites /\ running' = Idle)
    BY <1>10, LaidSteps
  <2>2. CASE Laid(c)
    <3>1. row.local[Writes[c]] \in {c} \cup Successors(c) /\ Shows(row.local, c)
      BY <1>3, <2>2 DEF Shows
    <3>2. CASE row' = row
      BY <3>1, <3>2
    <3>3. CASE AnticipateWrites
      <4>1. running.cmd \in Cmd /\ Laying /\ running.row = row
        BY <1>3, <3>3, RunningIs, KindSteps DEF Laying, Reads
      <4>2. row' = row \/ row'.local = Put(row.local, running.cmd)
        BY <1>6, <3>3, <4>1, ApplyLocalRow DEF AnticipateWrites
      <4>3. CASE row'.local = Put(row.local, running.cmd)
        <5>1. CASE Writes[running.cmd] = Writes[c]
          <6>1. running.cmd \in Successors(c)
            BY <2>2, <4>1, <5>1, LayingFollows
          <6>. QED
            BY <1>6, <4>1, <4>3, <5>1, <6>1, PutContent DEF Author
        <5>2. CASE Writes[running.cmd] # Writes[c]
          <6>1. Writes[c] \in Field
            BY AuthorAssumption DEF Author
          <6>2. row'.local[Writes[c]] = row.local[Writes[c]]
            BY <1>6, <4>1, <4>3, <5>2, <6>1, PutContent DEF Author
          <6>. QED
            BY <3>1, <6>2
        <5>. QED
          BY <5>1, <5>2
      <4>. QED
        BY <3>1, <4>2, <4>3
    <3>4. CASE DrainWrites
      <4>. DEFINE d == running.drain
      <4>1. /\ running.kind = "commit" /\ d \in Drain /\ Current(d) /\ running.row = row
            /\ row' = Fold(row, d)
        BY <1>3, <3>4, RunningIs, KindSteps DEF DrainWrites, Loaded, Reads
      <4>2. RowOK(row) /\ Clean(row) /\ row.server = TruthOf(log, d.after)
        BY <1>2, <4>1 DEF Rows, RowOK, Baseline
      <4>3. /\ d.shown # <<>> => row'.local = d.shown[1]
            /\ d.shown = <<>> => row'.local = MergeAll(row, d.after, d.upto).local
        BY <1>6, <4>1, <4>2, FoldRow
      <4>4. CASE d.shown # <<>>
        BY <1>3, <2>2, <4>1, <4>3, <4>4 DEF Shows
      <4>5. CASE d.shown = <<>>
        <5>1. d.after \in Nat /\ d.upto \in d.after..Len(log)
          BY <4>1, DrainShapes, LenProperties DEF Current, Types
        <5>2. Shows(MergeAll(row, d.after, d.upto).local, c)
          BY <1>6, <2>1, <3>1, <4>2, <5>1, MergeKeeps
        <5>. QED
          BY <4>3, <4>5, <5>2 DEF Shows
      <4>. QED
        BY <4>4, <4>5
    <3>. QED
      BY <1>5, <3>2, <3>3, <3>4
  <2>3. CASE Laying /\ c = running.cmd /\ AnticipateEnds
    <3>1. running.kind = "track" /\ row' = row
      BY <2>3, KindSteps DEF AnticipateEnds
    <3>. QED
      BY <1>3, <2>3, <3>1
  <2>4. CASE Laying /\ c = running.cmd /\ AnticipateWrites /\ running' = Idle
    <3>1. running.row = row
      BY <1>3, <2>4, KindSteps DEF Reads
    <3>2. ApplyLocal(row, c) = row /\ row' = row
      BY <2>4, <3>1 DEF AnticipateWrites, Idle
    <3>3. row.local = Put(row.local, c)
      BY <1>6, <3>2, ApplyLocalRow
    <3>4. row.local[Writes[c]] = c
      BY <1>6, <3>3, PutContent DEF Author
    <3>. QED
      BY <3>2, <3>4
  <2>. QED
    BY <2>1, <2>2, <2>3, <2>4
<1>11. ASSUME running'.kind = "drain", running'.shown # <<>>, NEW c \in Cmd, Laid(c)'
       PROVE  running'.shown[1][Writes[c]] \in {c} \cup Successors(c)
  <2>1. CASE running' = running
    <3>1. Laid(c)
      BY <1>11, <2>1, LaidSteps DEF Laying
    <3>. QED
      BY <1>3, <1>11, <2>1, <3>1 DEF Shows
  <2>2. ASSUME NEW s, DrainLoads(s) PROVE running'.shown[1][Writes[c]] \in {c} \cup Successors(c)
    <3>. DEFINE again == With(Outstanding) \ s
    <3>1. running.kind = "none" /\ running'.shown = IF again = {} THEN <<>> ELSE <<Rerun(row.local, again)>>
      BY <2>2, DrainLoaded
    <3>2. running'.shown[1] = Rerun(row.local, again)
      <4>. HIDE DEF again
      <4>. QED
        BY <1>11, <3>1
    <3>3. Laid(c) /\ Live(c)
      BY <1>11, <3>1, LaidSteps DEF Laying
    <3>4. c \notin s
      BY <1>11, <2>2 DEF Laid, DrainLoads
    <3>5. Shows(Rerun(row.local, again), c)
      BY <1>3, <1>6, <3>3, <3>4, RerunKeeps
    <3>. QED
      BY <3>2, <3>5 DEF Shows
  <2>. QED
    BY <1>11, <2>1, <2>2, RunningSteps, KindSteps
<1>12. ASSUME running'.kind = "commit", running'.drain.shown # <<>>, NEW c \in Cmd, Laid(c)'
       PROVE  running'.drain.shown[1][Writes[c]] \in {c} \cup Successors(c)
  <2>1. CASE running' = running
    <3>1. Laid(c)
      BY <1>12, <2>1, LaidSteps DEF Laying
    <3>. QED
      BY <1>3, <1>12, <2>1, <3>1 DEF Shows
  <2>2. CASE DrainReads
    <3>1. running.kind = "drain" /\ running'.drain = running
      BY <2>2, KindSteps
    <3>2. Laid(c)
      BY <1>12, <3>1, LaidSteps DEF Laying
    <3>. QED
      BY <1>3, <1>12, <3>1, <3>2 DEF Shows
  <2>. QED
    BY <1>12, <2>1, <2>2, RunningSteps, KindSteps, DrainLoaded
<1>13. ASSUME NEW c \in Cmd, NEW x, x \in {c} \cup Successors(c) PROVE x \in {c} \cup Successors(c)'
  BY <1>7, <1>13
<1>14. /\ \A c \in Cmd : Laid(c)' => row'.local[Writes[c]] \in {c} \cup Successors(c)'
       /\ running'.kind = "drain" /\ running'.shown # <<>> =>
            \A c \in Cmd : Laid(c)' => running'.shown[1][Writes[c]] \in {c} \cup Successors(c)'
       /\ running'.kind = "commit" /\ running'.drain.shown # <<>> =>
            \A c \in Cmd : Laid(c)' => running'.drain.shown[1][Writes[c]] \in {c} \cup Successors(c)'
  BY <1>10, <1>11, <1>12, <1>13
<1>. QED
  BY <1>8, <1>9, <1>14 DEF Views, Shows

-----------------------------------------------------------------------------
(* The theorems.                                                           *)

LEMMA OverlayInvInit == Init => OverlayInv
BY TypesInit, RowsInit, OrdersInit, QueueInit, BaselineInit, ViewsInit DEF OverlayInv

LEMMA OverlayInvStep == OverlayInv /\ [Next]_vars => OverlayInv'
<1>1. SUFFICES ASSUME OverlayInv, [Next]_vars PROVE OverlayInv'
  OBVIOUS
<1>2. Types /\ Rows /\ Orders /\ Loaded /\ Queue /\ Baseline /\ Views
  BY <1>1 DEF OverlayInv
<1>3. Types'
  BY <1>1, <1>2, TypesStep
<1>4. Rows'
  BY <1>1, <1>2, <1>3, RowsStep
<1>5. Orders'
  BY <1>1, <1>2, OrdersStep
<1>6. Loaded'
  BY <1>1, <1>2, <1>3, <1>5, LoadedStep
<1>7. Queue'
  BY <1>1, <1>2, <1>3, <1>5, QueueStep
<1>8. Baseline'
  BY <1>1, <1>2, <1>3, BaselineStep
<1>9. Views'
  BY <1>1, <1>2, <1>3, ViewsStep
<1>. QED
  BY <1>3, <1>4, <1>5, <1>6, <1>7, <1>8, <1>9 DEF OverlayInv

LEMMA OverlayInvariant == Spec => []OverlayInv
BY OverlayInvInit, OverlayInvStep, PTL DEF Spec

LEMMA OverlayImplies == OverlayInv => TypeOK /\ NoFlicker /\ BaselineIsServers
<1>1. SUFFICES ASSUME OverlayInv PROVE TypeOK /\ NoFlicker /\ BaselineIsServers
  OBVIOUS
<1>2. Types /\ Rows /\ Orders /\ Loaded /\ Queue /\ Baseline /\ Views
  BY <1>1 DEF OverlayInv
<1>3. TypeOK
  <2>1. Len(log) \in Nat
    BY <1>2, LenProperties DEF Types
  <2>2. \A c \in Cmd : clearing[c].kind \in {"none", "begun", "read", "done", "overtaken"}
    BY <1>2, CleanupShapes DEF Types
  <2>3. \A i \in DOMAIN ops : ops[i].kind \in {"anticipate", "drain"}
    <3>1. \A i \in DOMAIN ops : ops[i] \in Op
      BY <1>2, LenProperties, ElementOfSeq DEF Types
    <3>. QED
      BY <3>1, OpShapes
  <2>4. running.kind \in {"none", "anticipate", "track", "drain", "commit", "confirm", "ending"}
    BY <1>2, RunningIs
  <2>5. received \in 0..Len(log) /\ known \in 0..received /\ row.revision <= Len(log)
    BY <1>2, <2>1 DEF Types, Rows, RowOK
  <2>6. checking \subseteq With({"succeeded", "applied"})
    BY <1>2 DEF Types, Orders, With
  <2>. QED
    BY <1>2, <2>2, <2>3, <2>4, <2>5, <2>6 DEF Types, TypeOK, States
<1>4. NoFlicker
  BY <1>2 DEF Views, NoFlicker, Laid, Shows, With
<1>5. BaselineIsServers
  <2>1. Truth(row.revision) = TruthOf(log, row.revision)
    BY TruthIs
  <2>. QED
    BY <1>2, <2>1 DEF Baseline, BaselineIsServers, NotOvertaken, With
<1>. QED
  BY <1>3, <1>4, <1>5

\* The state keeps its shape, and the stored row is never at a revision the
\* server has not given to an event of its stream: the revisions that
\* SyncManager.ts commits come from the events it has captured.
THEOREM OverlayTypes == Spec => []TypeOK
BY OverlayInvariant, OverlayImplies, PTL

\* Once the anticipated event of a command has been laid over the row
\* (AnticipatedEventHandler.ts) its effect stays in view while server events are
\* merged under it (ReadModelStore.ts) and the outstanding commands run again
\* (reconcilePendingCommands.ts), until it is applied, overwritten by whoever comes
\* after it, found in conflict or cleared with a failed command.
THEOREM OverlaysDoNotFlicker == Spec => []NoFlicker
BY OverlayInvariant, OverlayImplies, PTL

\* The baseline of the row is the server's content at the revision it states,
\* whatever is laid over it, and holds the event of every applied command, unless
\* clearLocalChanges (ReadModelStore.ts) has written over a commit.
THEOREM BaselineIsTheServers == Spec => []BaselineIsServers
BY OverlayInvariant, OverlayImplies, PTL

=============================================================================
