---------------------------- MODULE Dashboard_proofs ----------------------------
(***************************************************************************)
(* Two theorems about the live dashboard, for any groups and cameras and   *)
(* any number of acts.                                                     *)
(*                                                                         *)
(* CameraGroups: the layout that was arranged is the one that is stored,   *)
(* unless its group was come back to while it was still being read.  The   *)
(* browser's store serves one queue of requests in order.  Kept says of a  *)
(* queue that whoever reads a group in it finds the arrangement, and that  *)
(* the last word about the group is that arrangement or the write of a     *)
(* reader that found it.  The empty layout that a grid writes when it is   *)
(* mounted comes after its own read, which is then still to be answered;   *)
(* GridInv says where that read is and that its answer brings the layout   *)
(* back.  Three parts: the queue alone, the grid and its dialog, and one   *)
(* lemma per action.                                                       *)
(*                                                                         *)
(* DashboardSound: what was muted stays muted.  Governs says which of the  *)
(* groups has the last word about a camera; MutedThere that for a muted    *)
(* camera it is the group in which it was muted, where it is off.          *)
(***************************************************************************)
EXTENDS CameraGroups, DashboardSound, TLAPS

-----------------------------------------------------------------------------
(* The layout that a group was given *)

IsSeq(q) == \E S : q \in Seq(S)
IsGet(r, g) == r.op = "get" /\ r.key = g
IsWrite(r, g) == r.op # "get" /\ r.key = g
IsPut(r, g, a) == r.op = "put" /\ r.key = g /\ r.layout.arr = a

\* No request of q from place i to place j writes the layout of g.
Quiet(q, g, i, j) == \A k \in i..j : ~IsWrite(q[k], g)

\* What is stored when the requests before place i have been served is arrangement a.
Good(q, d, g, a, i) ==
  \/ d[g].arr = a /\ Quiet(q, g, 1, i - 1)
  \/ \E j \in 1..(i-1) : IsPut(q[j], g, a) /\ Quiet(q, g, j + 1, i - 1)

\* Who reads g finds arrangement a, and it is stored in the end: who finds it writes it back.
ReadsKeep(q, d, g, a) == \A i \in 1..Len(q) : IsGet(q[i], g) => Good(q, d, g, a, i)
Kept(q, d, g, a) == ReadsKeep(q, d, g, a) /\ (BeingRead(q, g) \/ Good(q, d, g, a, Len(q) + 1))

-----------------------------------------------------------------------------
LEMMA SeqFacts ==
  ASSUME NEW q, IsSeq(q)
  PROVE  /\ Len(q) \in Nat /\ DOMAIN q = 1..Len(q)
         /\ q = <<>> <=> Len(q) = 0
         /\ q # <<>> => /\ IsSeq(Tail(q)) /\ Len(Tail(q)) = Len(q) - 1 /\ Head(q) = q[1]
                        /\ \A i \in 1..(Len(q)-1) : Tail(q)[i] = q[i+1]
<1>1. PICK S : q \in Seq(S) BY DEF IsSeq
<1>2. q # <<>> => Tail(q) \in Seq(S) BY <1>1
<1> QED BY <1>1, <1>2 DEF IsSeq

LEMMA Appended ==
  ASSUME NEW q, NEW s, IsSeq(q), IsSeq(s), NEW r, r = q \o s
  PROVE  /\ IsSeq(r) /\ Len(r) = Len(q) + Len(s) /\ Len(r) \in Nat /\ Len(q) \in Nat /\ Len(s) \in Nat
         /\ \A i \in 1..Len(q) : r[i] = q[i]
         /\ \A i \in 1..Len(s) : r[Len(q) + i] = s[i]
         /\ \A i \in (Len(q)+1)..Len(r) : i - Len(q) \in 1..Len(s) /\ r[i] = s[i - Len(q)]
<1>1. PICK S : q \in Seq(S) BY DEF IsSeq
<1>2. PICK T : s \in Seq(T) BY DEF IsSeq
<1> DEFINE U == S \cup T
<1>3. q \in Seq(U) /\ s \in Seq(U) BY <1>1, <1>2
<1> HIDE DEF U
<1>4. r \in Seq(U) BY <1>3
<1> QED BY <1>3, <1>4 DEF IsSeq

LEMMA Joined ==
  ASSUME NEW q, NEW s, IsSeq(q), IsSeq(s), NEW r, r = q \o s
  PROVE  IsSeq(r) /\ Len(r) = Len(q) + Len(s)
BY Appended

\* The places of a queue do not move when it grows.
LEMMA GoodStays ==
  ASSUME NEW q, NEW s, IsSeq(q), IsSeq(s), NEW r, r = q \o s, NEW d, NEW g, NEW a,
         NEW i \in 1..(Len(q)+1), Good(q, d, g, a, i)
  PROVE  Good(r, d, g, a, i)
<1>1. Len(q) \in Nat /\ \A k \in 1..Len(q) : r[k] = q[k] BY Appended
<1>2. \A k \in 1..(i-1) : r[k] = q[k] BY <1>1
<1>3. CASE d[g].arr = a /\ Quiet(q, g, 1, i - 1) BY <1>2, <1>3 DEF Good, Quiet
<1>4. ASSUME NEW j \in 1..(i-1), IsPut(q[j], g, a), Quiet(q, g, j + 1, i - 1) PROVE Good(r, d, g, a, i)
  <2>1. IsPut(r[j], g, a) BY <1>2, <1>4
  <2>2. Quiet(r, g, j + 1, i - 1) BY <1>2, <1>4 DEF Quiet
  <2> QED BY <2>1, <2>2 DEF Good
<1> QED BY <1>3, <1>4 DEF Good

\* Requests are made: what reads g reads it before it is written, and finds arrangement a;
\* and in the end it is stored, or what reads it will store it.
LEMMA AppendKeeps ==
  ASSUME NEW q, NEW s, IsSeq(q), IsSeq(s), NEW r, r = q \o s, NEW d, NEW g, NEW a, ReadsKeep(q, d, g, a),
         \A i \in 1..Len(s) : IsGet(s[i], g) => Good(q, d, g, a, Len(q) + 1) /\ Quiet(s, g, 1, i - 1),
         \/ BeingRead(q, g)
         \/ \E i \in 1..Len(s) : IsGet(s[i], g)
         \/ \E i \in 1..Len(s) : IsPut(s[i], g, a) /\ Quiet(s, g, i + 1, Len(s))
         \/ Good(q, d, g, a, Len(q) + 1) /\ Quiet(s, g, 1, Len(s))
  PROVE  Kept(r, d, g, a)
<1>0. /\ IsSeq(r) /\ Len(r) = Len(q) + Len(s) /\ Len(r) \in Nat /\ Len(q) \in Nat /\ Len(s) \in Nat
      /\ \A i \in 1..Len(q) : r[i] = q[i]
      /\ \A i \in 1..Len(s) : r[Len(q) + i] = s[i]
      /\ \A i \in (Len(q)+1)..Len(r) : i - Len(q) \in 1..Len(s) /\ r[i] = s[i - Len(q)]
  <2>1. IsSeq(r) /\ Len(r) = Len(q) + Len(s) /\ Len(r) \in Nat /\ Len(q) \in Nat /\ Len(s) \in Nat BY Appended
  <2>2. \A i \in 1..Len(q) : r[i] = q[i] BY Appended
  <2>3. \A i \in 1..Len(s) : r[Len(q) + i] = s[i] BY Appended
  <2>4. \A i \in (Len(q)+1)..Len(r) : i - Len(q) \in 1..Len(s) /\ r[i] = s[i - Len(q)] BY Appended
  <2> QED BY <2>1, <2>2, <2>3, <2>4
<1>d. DOMAIN r = 1..Len(r) /\ DOMAIN q = 1..Len(q)
  BY <1>0, SeqFacts
<1>1. ASSUME NEW i \in Len(q)..Len(r), Good(q, d, g, a, Len(q) + 1), Quiet(s, g, 1, i - Len(q))
      PROVE  Good(r, d, g, a, i + 1)
  <2>0. Len(q) + 1 \in 1..(Len(q) + 1) BY <1>0
  <2>1. Good(r, d, g, a, Len(q) + 1) BY <1>1, <2>0, GoodStays, Zenon
  <2>2. Quiet(r, g, Len(q) + 1, i)
    <3> SUFFICES ASSUME NEW k \in (Len(q)+1)..i PROVE ~IsWrite(r[k], g) BY DEF Quiet
    <3>1. k \in (Len(q)+1)..Len(r) /\ k - Len(q) \in 1..(i - Len(q)) BY <1>0
    <3> QED BY <1>0, <1>1, <3>1 DEF Quiet
  <2>3. CASE d[g].arr = a /\ Quiet(r, g, 1, Len(q))
    <3>1. Quiet(r, g, 1, i)
      <4> SUFFICES ASSUME NEW k \in 1..i PROVE ~IsWrite(r[k], g) BY DEF Quiet
      <4>1. k \in 1..Len(q) \/ k \in (Len(q)+1)..i BY <1>0
      <4> QED BY <2>2, <2>3, <4>1 DEF Quiet
    <3> QED BY <1>0, <2>3, <3>1 DEF Good
  <2>4. ASSUME NEW j \in 1..Len(q), IsPut(r[j], g, a), Quiet(r, g, j + 1, Len(q)) PROVE Good(r, d, g, a, i + 1)
    <3>1. Quiet(r, g, j + 1, i)
      <4> SUFFICES ASSUME NEW k \in (j+1)..i PROVE ~IsWrite(r[k], g) BY DEF Quiet
      <4>1. k \in (j+1)..Len(q) \/ k \in (Len(q)+1)..i BY <1>0
      <4> QED BY <2>2, <2>4, <4>1 DEF Quiet
    <3>2. j \in 1..(i + 1 - 1) /\ i + 1 - 1 = i BY <1>0
    <3> QED BY <2>4, <3>1, <3>2 DEF Good
  <2>5. Len(q) + 1 - 1 = Len(q) BY <1>0
  <2> QED BY <2>1, <2>3, <2>4, <2>5 DEF Good
<1>2. ReadsKeep(r, d, g, a)
  <2> SUFFICES ASSUME NEW i \in 1..Len(r), IsGet(r[i], g) PROVE Good(r, d, g, a, i)
    BY DEF ReadsKeep
  <2>1. CASE i <= Len(q)
    <3>1. i \in 1..Len(q) /\ i \in 1..(Len(q)+1) BY <1>0, <2>1
    <3>2. Good(q, d, g, a, i) BY <1>0, <3>1 DEF ReadsKeep
    <3> QED BY <3>1, <3>2, GoodStays
  <2>2. CASE ~(i <= Len(q))
    <3>1. i \in (Len(q)+1)..Len(r) BY <1>0, <2>2
    <3>2. IsGet(s[i - Len(q)], g) /\ i - Len(q) \in 1..Len(s) BY <1>0, <3>1
    <3>3. Quiet(s, g, 1, i - Len(q) - 1) BY <3>2
    <3>4. Good(q, d, g, a, Len(q) + 1) BY <3>2
    <3>5. i - 1 \in Len(q)..Len(r) /\ (i - 1) - Len(q) = i - Len(q) - 1 /\ (i - 1) + 1 = i BY <1>0, <3>1
    <3>6. Good(r, d, g, a, (i - 1) + 1) BY <1>1, <3>3, <3>4, <3>5
    <3> QED BY <3>5, <3>6
  <2> QED BY <2>1, <2>2
<1>3. BeingRead(r, g) \/ Good(r, d, g, a, Len(r) + 1)
  <2>1. CASE BeingRead(q, g)
    <3>1. PICK i \in 1..Len(q) : q[i].op = "get" /\ q[i].key = g BY <1>d, <2>1 DEF BeingRead
    <3>2. i \in 1..Len(r) /\ r[i] = q[i] BY <1>0
    <3> QED BY <1>d, <3>1, <3>2 DEF BeingRead
  <2>2. CASE \E i \in 1..Len(s) : IsGet(s[i], g)
    <3>1. PICK i \in 1..Len(s) : IsGet(s[i], g) BY <2>2
    <3>2. Len(q) + i \in 1..Len(r) /\ r[Len(q) + i] = s[i] BY <1>0
    <3> QED BY <1>d, <3>1, <3>2 DEF BeingRead, IsGet
  <2>3. CASE Good(q, d, g, a, Len(q) + 1) /\ Quiet(s, g, 1, Len(s))
    <3>1. Len(r) - Len(q) = Len(s) /\ Len(r) \in Len(q)..Len(r) BY <1>0
    <3> QED BY <1>1, <2>3, <3>1
  <2>4. ASSUME NEW n \in 1..Len(s), IsPut(s[n], g, a), Quiet(s, g, n + 1, Len(s)) PROVE Good(r, d, g, a, Len(r) + 1)
    <3>1. Len(q) + n \in 1..Len(r) /\ r[Len(q) + n] = s[n] BY <1>0
    <3>2. Quiet(r, g, Len(q) + n + 1, Len(r))
      <4> SUFFICES ASSUME NEW k \in (Len(q)+n+1)..Len(r) PROVE ~IsWrite(r[k], g) BY DEF Quiet
      <4>1. k \in (Len(q)+1)..Len(r) /\ k - Len(q) \in (n+1)..Len(s) BY <1>0
      <4> QED BY <1>0, <2>4, <4>1 DEF Quiet
    <3>3. Len(r) + 1 - 1 = Len(r) BY <1>0
    <3>4. \E j \in 1..Len(r) : IsPut(r[j], g, a) /\ Quiet(r, g, j + 1, Len(r)) BY <2>4, <3>1, <3>2
    <3> QED BY <3>3, <3>4 DEF Good
  <2> QED BY <2>1, <2>2, <2>3, <2>4
<1> QED BY <1>2, <1>3 DEF Kept

\* The first request is served: the others find what they would have found.
LEMMA TailKeeps ==
  ASSUME NEW q, IsSeq(q), q # <<>>, NEW d, NEW e, NEW g, NEW a, NEW i \in 2..(Len(q)+1), Good(q, d, g, a, i),
         ~IsWrite(q[1], g) => e[g] = d[g], IsPut(q[1], g, a) => e[g].arr = a
  PROVE  Good(Tail(q), e, g, a, i - 1)
<1>0. Len(q) \in Nat /\ \A k \in 1..(Len(q)-1) : Tail(q)[k] = q[k+1]
  BY SeqFacts
<1>1. ASSUME NEW j \in 1..(i-1), Quiet(q, g, j + 1, i - 1) PROVE Quiet(Tail(q), g, j, i - 1 - 1)
  <2> SUFFICES ASSUME NEW k \in j..(i - 1 - 1) PROVE ~IsWrite(Tail(q)[k], g) BY DEF Quiet
  <2>1. k \in 1..(Len(q)-1) /\ k + 1 \in (j+1)..(i-1) BY <1>0
  <2> QED BY <1>0, <1>1, <2>1 DEF Quiet
<1>2. CASE d[g].arr = a /\ Quiet(q, g, 1, i - 1)
  <2>1. ~IsWrite(q[1], g) /\ Quiet(q, g, 1 + 1, i - 1) /\ 1 \in 1..(i-1) BY <1>2 DEF Quiet
  <2>2. Quiet(Tail(q), g, 1, i - 1 - 1) BY <1>1, <2>1
  <2> QED BY <1>2, <2>1, <2>2 DEF Good
<1>3. ASSUME NEW j \in 1..(i-1), IsPut(q[j], g, a), Quiet(q, g, j + 1, i - 1)
      PROVE  Good(Tail(q), e, g, a, i - 1)
  <2>1. Quiet(Tail(q), g, j, i - 1 - 1) BY <1>1, <1>3
  <2>2. CASE j = 1 BY <1>3, <2>1, <2>2 DEF Good
  <2>3. CASE j # 1
    <3>1. j - 1 \in 1..(i - 1 - 1) /\ j - 1 \in 1..(Len(q)-1) /\ (j - 1) + 1 = j BY <1>0, <2>3
    <3>2. Tail(q)[j - 1] = q[(j - 1) + 1] BY <1>0, <3>1
    <3>3. IsPut(Tail(q)[j - 1], g, a) BY <1>3, <3>1, <3>2
    <3>4. Quiet(Tail(q), g, (j - 1) + 1, i - 1 - 1) BY <2>1, <3>1
    <3> QED BY <3>1, <3>3, <3>4 DEF Good
  <2> QED BY <2>2, <2>3
<1> QED BY <1>2, <1>3 DEF Good

LEMMA TailReads ==
  ASSUME NEW q, IsSeq(q), q # <<>>, NEW d, NEW e, NEW g, NEW a, ReadsKeep(q, d, g, a),
         ~IsWrite(q[1], g) => e[g] = d[g], IsPut(q[1], g, a) => e[g].arr = a
  PROVE  ReadsKeep(Tail(q), e, g, a)
<1>0. /\ Len(q) \in Nat /\ Len(Tail(q)) = Len(q) - 1 /\ \A k \in 1..(Len(q)-1) : Tail(q)[k] = q[k+1]
  BY SeqFacts
<1> SUFFICES ASSUME NEW i \in 1..Len(Tail(q)), IsGet(Tail(q)[i], g) PROVE Good(Tail(q), e, g, a, i)
  BY DEF ReadsKeep
<1>1. i + 1 \in 1..Len(q) /\ i + 1 \in 2..(Len(q)+1) /\ (i + 1) - 1 = i /\ IsGet(q[i + 1], g) BY <1>0
<1>2. Good(q, d, g, a, i + 1) BY <1>1 DEF ReadsKeep
<1>3. Good(Tail(q), e, g, a, (i + 1) - 1) BY <1>1, <1>2, TailKeeps
<1> QED BY <1>1, <1>3

-----------------------------------------------------------------------------
(* What a grid asks for *)

Own(r, m) == r.op = "get" /\ r.who = m
Whos(q, m) == \A i \in 1..Len(q) : q[i].op = "get" => q[i].who \in 0..m
LastIs(q, m, g) == \A i \in 1..Len(q) : Own(q[i], m) => \E j \in i..Len(q) : Own(q[j], m) /\ q[j].key = g
Reading(q, m) == \E i \in 1..Len(q) : Own(q[i], m)

LEMMA OwnTail ==
  ASSUME NEW q, IsSeq(q), q # <<>>, NEW m
  PROVE  /\ Reading(q, m) => Own(q[1], m) \/ Reading(Tail(q), m)
         /\ \A g : LastIs(q, m, g) => LastIs(Tail(q), m, g) /\ (Own(q[1], m) /\ q[1].key # g => Reading(Tail(q), m))
         /\ Whos(q, m) => Whos(Tail(q), m)
<1>0. /\ Len(q) \in Nat /\ Len(q) >= 1 /\ Len(Tail(q)) = Len(q) - 1
      /\ \A k \in 1..(Len(q)-1) : Tail(q)[k] = q[k+1] /\ k + 1 \in 1..Len(q)
      /\ \A k \in 1..Len(q) : k # 1 => k - 1 \in 1..(Len(q)-1) /\ Tail(q)[k-1] = q[k]
  <2>1. /\ Len(q) \in Nat /\ Len(q) >= 1 /\ Len(Tail(q)) = Len(q) - 1
        /\ \A k \in 1..(Len(q)-1) : Tail(q)[k] = q[k+1]
    BY SeqFacts
  <2>2. ASSUME NEW k \in 1..Len(q), k # 1 PROVE k - 1 \in 1..(Len(q)-1) /\ Tail(q)[k-1] = q[k]
    <3>1. k - 1 \in 1..(Len(q)-1) /\ (k - 1) + 1 = k BY <2>1, <2>2
    <3>2. Tail(q)[k-1] = q[(k-1)+1] BY <2>1, <3>1
    <3> QED BY <3>1, <3>2
  <2> QED BY <2>1, <2>2
<1>1. Reading(q, m) => Own(q[1], m) \/ Reading(Tail(q), m)
  BY <1>0 DEF Reading
<1>2. ASSUME NEW g, LastIs(q, m, g) PROVE LastIs(Tail(q), m, g)
  <2> SUFFICES ASSUME NEW i \in 1..(Len(q)-1), Own(Tail(q)[i], m)
               PROVE  \E j \in i..(Len(q)-1) : Own(Tail(q)[j], m) /\ Tail(q)[j].key = g
    BY <1>0 DEF LastIs
  <2>1. i + 1 \in 1..Len(q) /\ Own(q[i+1], m) BY <1>0
  <2>2. PICK j \in (i+1)..Len(q) : Own(q[j], m) /\ q[j].key = g BY <1>2, <2>1 DEF LastIs
  <2>3. j - 1 \in i..(Len(q)-1) /\ j # 1 /\ j \in 1..Len(q) BY <1>0
  <2>4. Tail(q)[j-1] = q[j] BY <1>0, <2>3
  <2> QED BY <2>2, <2>3, <2>4
<1>3. ASSUME NEW g, LastIs(q, m, g), Own(q[1], m), q[1].key # g PROVE Reading(Tail(q), m)
  <2>1. PICK j \in 1..Len(q) : Own(q[j], m) /\ q[j].key = g BY <1>0, <1>3 DEF LastIs
  <2>2. j # 1 BY <1>3, <2>1
  <2>3. j - 1 \in 1..(Len(q)-1) /\ Tail(q)[j-1] = q[j] BY <1>0, <2>2
  <2> QED BY <1>0, <2>1, <2>3 DEF Reading
<1>4. Whos(q, m) => Whos(Tail(q), m)
  BY <1>0 DEF Whos
<1> QED BY <1>1, <1>2, <1>3, <1>4

LEMMA OwnSame ==
  ASSUME NEW q, NEW s, IsSeq(q), IsSeq(s), NEW r, r = q \o s, NEW m, NEW g,
         \A i \in 1..Len(s) : ~Own(s[i], m)
  PROVE  /\ Reading(q, m) <=> Reading(r, m)
         /\ LastIs(q, m, g) => LastIs(r, m, g)
<1>1. Len(r) = Len(q) + Len(s) /\ Len(r) \in Nat /\ Len(q) \in Nat /\ Len(s) \in Nat BY Appended
<1>2. \A i \in 1..Len(q) : r[i] = q[i] /\ i \in 1..Len(r) BY <1>1, Appended
<1>3. \A i \in (Len(q)+1)..Len(r) : i - Len(q) \in 1..Len(s) /\ r[i] = s[i - Len(q)] BY Appended
<1>4. \A i \in 1..Len(r) : Own(r[i], m) => i \in 1..Len(q) /\ Own(q[i], m)
  <2> SUFFICES ASSUME NEW i \in 1..Len(r), Own(r[i], m) PROVE i \in 1..Len(q) /\ Own(q[i], m)
    OBVIOUS
  <2>1. i \in 1..Len(q) \/ i \in (Len(q)+1)..Len(r) BY <1>1
  <2> QED BY <1>2, <1>3, <2>1
<1>5. Reading(q, m) <=> Reading(r, m) BY <1>2, <1>4 DEF Reading
<1>6. ASSUME LastIs(q, m, g) PROVE LastIs(r, m, g)
  <2> SUFFICES ASSUME NEW i \in 1..Len(r), Own(r[i], m) PROVE \E j \in i..Len(r) : Own(r[j], m) /\ r[j].key = g
    BY DEF LastIs
  <2>1. i \in 1..Len(q) /\ Own(q[i], m) BY <1>4
  <2>2. PICK j \in i..Len(q) : Own(q[j], m) /\ q[j].key = g BY <1>6, <2>1 DEF LastIs
  <2>3. j \in 1..Len(q) /\ j \in i..Len(r) BY <1>1, <2>1
  <2> QED BY <1>2, <2>2, <2>3
<1> QED BY <1>5, <1>6

LEMMA OwnNew ==
  ASSUME NEW q, NEW s, IsSeq(q), IsSeq(s), NEW r, r = q \o s, NEW m, NEW g,
         NEW n \in 1..Len(s), Own(s[n], m), s[n].key = g, \A i \in 1..Len(s) : Own(s[i], m) => i = n
  PROVE  Reading(r, m) /\ LastIs(r, m, g)
<1>1. Len(r) = Len(q) + Len(s) /\ Len(r) \in Nat /\ Len(q) \in Nat /\ Len(s) \in Nat BY Appended
<1>2. Len(q) + n \in 1..Len(r) /\ r[Len(q) + n] = s[n] BY <1>1, Appended
<1>3. \A i \in (Len(q)+1)..Len(r) : i - Len(q) \in 1..Len(s) /\ r[i] = s[i - Len(q)] BY Appended
<1>4. \A i \in 1..Len(r) : Own(r[i], m) => Len(q) + n \in i..Len(r)
  <2> SUFFICES ASSUME NEW i \in 1..Len(r), Own(r[i], m) PROVE i <= Len(q) + n
    BY <1>1, <1>2
  <2>1. CASE i <= Len(q) BY <1>1, <2>1
  <2>2. CASE ~(i <= Len(q))
    <3>1. i \in (Len(q)+1)..Len(r) BY <1>1, <2>2
    <3>2. i - Len(q) = n BY <1>3, <3>1
    <3> QED BY <1>1, <3>2
  <2> QED BY <2>1, <2>2
<1>5. Reading(r, m) BY <1>2 DEF Reading
<1>6. LastIs(r, m, g) BY <1>2, <1>4 DEF LastIs
<1> QED BY <1>5, <1>6

LEMMA WhosAppended ==
  ASSUME NEW q, NEW s, IsSeq(q), IsSeq(s), NEW r, r = q \o s, NEW m \in Nat, NEW n \in Nat, n >= m, Whos(q, m),
         \A i \in 1..Len(s) : s[i].op = "get" => s[i].who \in 0..n
  PROVE  /\ Whos(r, n)
         /\ n > m => \A i \in 1..Len(q) : ~Own(q[i], n)
<1>1. Len(r) = Len(q) + Len(s) /\ Len(r) \in Nat /\ Len(q) \in Nat /\ Len(s) \in Nat BY Appended
<1>2. \A i \in 1..Len(q) : r[i] = q[i] BY Appended
<1>3. \A i \in (Len(q)+1)..Len(r) : i - Len(q) \in 1..Len(s) /\ r[i] = s[i - Len(q)] BY Appended
<1>4. ASSUME NEW i \in 1..Len(r), r[i].op = "get" PROVE r[i].who \in 0..n
  <2>1. CASE i <= Len(q)
    <3>1. i \in 1..Len(q) /\ q[i].who \in 0..m BY <1>1, <1>2, <1>4, <2>1 DEF Whos
    <3>2. 0..m \subseteq 0..n OBVIOUS
    <3> QED BY <1>2, <3>1, <3>2
  <2>2. CASE ~(i <= Len(q))
    <3>1. i \in (Len(q)+1)..Len(r) BY <1>1, <2>2
    <3> QED BY <1>3, <1>4, <3>1
  <2> QED BY <2>1, <2>2
<1>5. n > m => \A i \in 1..Len(q) : ~Own(q[i], n)
  BY DEF Whos, Own
<1> QED BY <1>4, <1>5 DEF Whos

\* Up to three requests, each made or not.
LEMMA Single ==
  ASSUME NEW a, NEW A, A = <<>> \/ A = <<a>>
  PROVE  IsSeq(A) /\ (A = <<>> => Len(A) = 0) /\ (A = <<a>> => Len(A) = 1 /\ A[1] = a)
<1>1. CASE A = <<>>
  <2>1. A \in Seq({}) BY <1>1
  <2> QED BY <1>1, <2>1 DEF IsSeq
<1>2. CASE A = <<a>>
  <2>1. A \in Seq({a}) BY <1>2
  <2> QED BY <1>2, <2>1 DEF IsSeq
<1> QED BY <1>1, <1>2

LEMMA Pieces ==
  ASSUME NEW a, NEW b, NEW c, NEW A, NEW B, NEW C, NEW s, s = A \o B \o C,
         A = <<>> \/ A = <<a>>, B = <<>> \/ B = <<b>>, C = <<>> \/ C = <<c>>
  PROVE  /\ IsSeq(s) /\ Len(s) = Len(A) + Len(B) + Len(C)
         /\ Len(A) \in 0..1 /\ Len(B) \in 0..1 /\ Len(C) \in 0..1
         /\ (A = <<a>> <=> Len(A) = 1) /\ (B = <<b>> <=> Len(B) = 1) /\ (C = <<c>> <=> Len(C) = 1)
         /\ Len(A) = 1 => s[1] = a
         /\ Len(B) = 1 => s[Len(A) + 1] = b
         /\ Len(C) = 1 => s[Len(A) + Len(B) + 1] = c
<1>1. IsSeq(A) /\ (A = <<>> => Len(A) = 0) /\ (A = <<a>> => Len(A) = 1 /\ A[1] = a) BY Single
<1>2. IsSeq(B) /\ (B = <<>> => Len(B) = 0) /\ (B = <<b>> => Len(B) = 1 /\ B[1] = b) BY Single
<1>3. IsSeq(C) /\ (C = <<>> => Len(C) = 0) /\ (C = <<c>> => Len(C) = 1 /\ C[1] = c) BY Single
<1>0. PICK t : t = A \o B OBVIOUS
<1>4. /\ IsSeq(t) /\ Len(t) = Len(A) + Len(B)
      /\ \A i \in 1..Len(A) : t[i] = A[i]
      /\ \A i \in 1..Len(B) : t[Len(A) + i] = B[i]
  <2>0. IsSeq(A) /\ IsSeq(B) /\ t = A \o B BY <1>0, <1>1, <1>2
  <2>1. IsSeq(t) /\ Len(t) = Len(A) + Len(B) BY <2>0, Joined
  <2>2. \A i \in 1..Len(A) : t[i] = A[i] BY <2>0, Appended
  <2>3. \A i \in 1..Len(B) : t[Len(A) + i] = B[i] BY <2>0, Appended
  <2> QED BY <2>1, <2>2, <2>3
<1>5. s = t \o C BY <1>0
<1>6. /\ IsSeq(s) /\ Len(s) = Len(t) + Len(C)
      /\ \A i \in 1..Len(t) : s[i] = t[i]
      /\ \A i \in 1..Len(C) : s[Len(t) + i] = C[i]
  <2>0. IsSeq(t) /\ IsSeq(C) /\ s = t \o C BY <1>3, <1>4, <1>5
  <2>1. IsSeq(s) /\ Len(s) = Len(t) + Len(C) BY <2>0, Joined
  <2>2. \A i \in 1..Len(t) : s[i] = t[i] BY <2>0, Appended
  <2>3. \A i \in 1..Len(C) : s[Len(t) + i] = C[i] BY <2>0, Appended
  <2> QED BY <2>1, <2>2, <2>3
<1>7. Len(A) \in 0..1 /\ Len(B) \in 0..1 /\ Len(C) \in 0..1
  BY <1>1, <1>2, <1>3
<1>8. (A = <<a>> <=> Len(A) = 1) /\ (B = <<b>> <=> Len(B) = 1) /\ (C = <<c>> <=> Len(C) = 1)
  BY <1>1, <1>2, <1>3
<1>9. Len(A) = 1 => s[1] = a
  BY <1>1, <1>4, <1>6, <1>7, <1>8
<1>10. Len(B) = 1 => s[Len(A) + 1] = b
  BY <1>2, <1>4, <1>6, <1>7, <1>8
<1>11. Len(C) = 1 => s[Len(A) + Len(B) + 1] = c
  BY <1>3, <1>4, <1>6, <1>7, <1>8
<1> QED BY <1>4, <1>6, <1>7, <1>8, <1>9, <1>10, <1>11

-----------------------------------------------------------------------------
(* The invariant *)

GroupShapes ==
  /\ IsSeq(idb) /\ mounts \in Nat /\ gridActs \in Nat
  /\ arranged \in [GroupNames -> Nat] /\ DOMAIN disk = GroupNames
  /\ DOMAIN srvGroups \subseteq GroupNames /\ DOMAIN cfgGroups \subseteq GroupNames
  /\ selectedGroup \in GroupNames \cup {"", "default"} /\ remembered \in GroupNames \cup {"", "default"}
  /\ param \in GroupNames \cup {""}
  /\ groupRequest.kind = "save" => groupRequest.name \in GroupNames

\* What was arranged is what the requests under way read and leave.
KeptInv == \A g \in GroupNames : arranged[g] # 0 => Kept(idb, disk, g, arranged[g])

\* The grid shows what was arranged, or is still reading, its own group last.
GridInv ==
  /\ Whos(idb, mounts)
  /\ GridOn => /\ mounts > 0
               /\ LastIs(idb, mounts, GroupShown)
               /\ \/ Reading(idb, mounts)
                  \/ /\ gridLoaded
                     /\ arranged[GroupShown] # 0 => currentGridLayout.arr = arranged[GroupShown]

LayoutInv == GroupShapes /\ KeptInv /\ GridInv

-----------------------------------------------------------------------------
LEMMA GroupShownIs == ASSUME GroupShapes
               PROVE  /\ GroupShown \in GroupNames \cup {"default"}
                      /\ GridOn => GroupShown \in GroupNames
BY GroupsAssumption DEF GroupShapes, GroupShown, GridOn, GridMounted

LEMMA MadeIs ==
  ASSUME NEW ready, NEW current, NEW cams, NEW a \in Nat, ready, current.arr = a
  PROVE  /\ GenerateLayout(ready, current, cams).arr = a
         /\ GenerateLayout(ready, current, cams) # None
<1>1. None.arr = -1 BY DEF None
<1>2. current # None BY <1>1
<1>3. GenerateLayout(ready, current, cams) = [arr |-> current.arr, cams |-> cams]
  BY <1>2 DEF GenerateLayout
<1>4. PICK made : made = GenerateLayout(ready, current, cams)
  OBVIOUS
<1>5. made.arr = current.arr
  BY <1>3, <1>4
<1>6. made # None
  BY <1>1, <1>5
<1> QED BY <1>4, <1>5, <1>6

\* At which place each of the requests is.
LEMMA PlacesAre ==
  ASSUME NEW s, NEW la \in 0..1, NEW lb \in 0..1, NEW lc \in 0..1, Len(s) = la + lb + lc, NEW a, NEW b, NEW c,
         la = 1 => s[1] = a, lb = 1 => s[la + 1] = b, lc = 1 => s[la + lb + 1] = c,
         NEW i \in 1..Len(s)
  PROVE  \/ i = 1 /\ la = 1 /\ s[i] = a
         \/ i = la + 1 /\ lb = 1 /\ s[i] = b
         \/ i = la + lb + 1 /\ i = Len(s) /\ lc = 1 /\ s[i] = c
OBVIOUS

\* The requests of a render: s, with grid m.
Asks(s, is, new, g, m, made) ==
  /\ \A x : x # g => Quiet(s, x, 1, Len(s)) /\ \A i \in 1..Len(s) : ~IsGet(s[i], x)
  /\ \A i \in 1..Len(s) : s[i].op = "get" => new /\ s[i].who \in {0, m} /\ Quiet(s, g, 1, i - 1)
  /\ new /\ g # "default" => \E i \in 1..Len(s) : IsGet(s[i], g)
  /\ new /\ is => \E n \in 1..Len(s) : /\ Own(s[n], m) /\ s[n].key = g
                                       /\ \A i \in 1..Len(s) : Own(s[i], m) => i = n
  /\ ~new => \/ Len(s) = 0
             \/ is /\ Len(s) = 1 /\ s[1] = [op |-> "put", key |-> g, layout |-> made]

LEMMA ThreeAsk ==
  ASSUME NEW is \in BOOLEAN, NEW new \in BOOLEAN, NEW other \in BOOLEAN, NEW rewrite \in BOOLEAN, NEW g, NEW m,
         NEW layout, NEW made, NEW A, NEW B, NEW C, NEW s, s = A \o B \o C,
         A = IF other /\ g # "default" THEN <<[op |-> "get", who |-> 0, key |-> g]>> ELSE <<>>,
         B = IF is /\ new THEN <<[op |-> "get", who |-> m, key |-> g]>> ELSE <<>>,
         C = IF rewrite THEN <<[op |-> "put", key |-> g, layout |-> layout]>> ELSE <<>>,
         other => new, new => is \/ other, rewrite => is, is => m # 0, is /\ ~new => layout = made
  PROVE  IsSeq(s) /\ Asks(s, is, new, g, m, made)
<1> DEFINE a == [op |-> "get", who |-> 0, key |-> g]
           b == [op |-> "get", who |-> m, key |-> g]
           c == [op |-> "put", key |-> g, layout |-> layout]
<1>6. /\ a.op = "get" /\ a.key = g /\ a.who = 0
      /\ b.op = "get" /\ b.key = g /\ b.who = m
      /\ c.op = "put" /\ c.key = g /\ c.layout = layout
  OBVIOUS
<1>3. /\ A = IF other /\ g # "default" THEN <<a>> ELSE <<>>
      /\ B = IF is /\ new THEN <<b>> ELSE <<>>
      /\ C = IF rewrite THEN <<c>> ELSE <<>>
  OBVIOUS
<1>10. is /\ ~new => c = [op |-> "put", key |-> g, layout |-> made] OBVIOUS
<1> HIDE DEF a, b, c
<1>8. /\ A = <<>> \/ A = <<a>>
      /\ B = <<>> \/ B = <<b>>
      /\ C = <<>> \/ C = <<c>>
  BY <1>3
<1>9. /\ A = <<a>> => other /\ g # "default"
      /\ B = <<b>> => is /\ new
      /\ C = <<c>> => is /\ rewrite
      /\ other /\ g # "default" => A = <<a>>
      /\ is /\ new => B = <<b>>
  <2>1. <<a>> # <<>> /\ <<b>> # <<>> /\ <<c>> # <<>> OBVIOUS
  <2> QED BY <1>3, <2>1
<1>11. /\ IsSeq(s) /\ Len(s) = Len(A) + Len(B) + Len(C)
       /\ Len(A) \in 0..1 /\ Len(B) \in 0..1 /\ Len(C) \in 0..1
       /\ (A = <<a>> <=> Len(A) = 1) /\ (B = <<b>> <=> Len(B) = 1) /\ (C = <<c>> <=> Len(C) = 1)
       /\ Len(A) = 1 => s[1] = a
       /\ Len(B) = 1 => s[Len(A) + 1] = b
       /\ Len(C) = 1 => s[Len(A) + Len(B) + 1] = c
  <2>1. IsSeq(s)
    <3>1. IsSeq(A) /\ IsSeq(B) /\ IsSeq(C) BY <1>8, Single
    <3>2. PICK t : t = A \o B OBVIOUS
    <3>3. IsSeq(t) BY <3>1, <3>2, Joined
    <3>4. s = t \o C BY <3>2
    <3> QED BY <3>1, <3>3, <3>4, Joined
  <2>2. Len(s) = Len(A) + Len(B) + Len(C) BY <1>8, Pieces
  <2>3. Len(A) \in 0..1 /\ Len(B) \in 0..1 /\ Len(C) \in 0..1 BY <1>8, Pieces
  <2>4. (A = <<a>> <=> Len(A) = 1) /\ (B = <<b>> <=> Len(B) = 1) /\ (C = <<c>> <=> Len(C) = 1)
    BY <1>8, Pieces
  <2>5. Len(A) = 1 => s[1] = a BY <1>8, Pieces
  <2>6. Len(B) = 1 => s[Len(A) + 1] = b BY <1>8, Pieces
  <2>7. Len(C) = 1 => s[Len(A) + Len(B) + 1] = c BY <1>8, Pieces, SMTT(30)
  <2> QED BY <2>1, <2>2, <2>3, <2>4, <2>5, <2>6, <2>7
<1>12. \A i \in 1..Len(s) :
         \/ i = 1 /\ Len(A) = 1 /\ s[i] = a
         \/ i = Len(A) + 1 /\ Len(B) = 1 /\ s[i] = b
         \/ i = Len(A) + Len(B) + 1 /\ i = Len(s) /\ Len(C) = 1 /\ s[i] = c
  BY <1>11, PlacesAre
<1>13. \A x : x # g => Quiet(s, x, 1, Len(s)) /\ \A i \in 1..Len(s) : ~IsGet(s[i], x)
  BY <1>6, <1>12 DEF Quiet, IsWrite, IsGet
<1>14. ASSUME NEW i \in 1..Len(s), s[i].op = "get"
       PROVE  new /\ s[i].who \in {0, m} /\ Quiet(s, g, 1, i - 1)
  <2>1. (i = 1 /\ Len(A) = 1 /\ s[i] = a) \/ (i = Len(A) + 1 /\ Len(B) = 1 /\ s[i] = b)
    BY <1>6, <1>12, <1>14
  <2>2. new /\ s[i].who \in {0, m}
    BY <1>6, <1>9, <1>11, <2>1
  <2>3. \A k \in 1..(i-1) : k \in 1..Len(s) /\ k # Len(A) + Len(B) + 1
    BY <1>11, <2>1
  <2>4. Quiet(s, g, 1, i - 1)
    BY <1>6, <1>12, <2>3 DEF Quiet, IsWrite
  <2> QED BY <2>2, <2>4
<1>15. new /\ g # "default" => \E i \in 1..Len(s) : IsGet(s[i], g)
  <2>1. new /\ g # "default" => Len(A) = 1 \/ Len(B) = 1
    BY <1>9, <1>11
  <2>2. Len(A) = 1 => 1 \in 1..Len(s) /\ IsGet(s[1], g)
    BY <1>6, <1>11 DEF IsGet
  <2>3. Len(B) = 1 => Len(A) + 1 \in 1..Len(s) /\ IsGet(s[Len(A) + 1], g)
    BY <1>6, <1>11 DEF IsGet
  <2> QED BY <2>1, <2>2, <2>3
<1>16. ASSUME new, is
       PROVE  \E n \in 1..Len(s) : /\ Own(s[n], m) /\ s[n].key = g
                                   /\ \A i \in 1..Len(s) : Own(s[i], m) => i = n
  <2>1. Len(B) = 1 /\ Len(A) + 1 \in 1..Len(s) /\ s[Len(A) + 1] = b
    BY <1>9, <1>11, <1>16
  <2>2. \A i \in 1..Len(s) : Own(s[i], m) => i = Len(A) + 1
    BY <1>6, <1>12, <1>16 DEF Own
  <2> QED BY <1>6, <2>1, <2>2 DEF Own
<1>17. ~new => \/ Len(s) = 0
               \/ is /\ Len(s) = 1 /\ s[1] = c
  <2>1. ~new => Len(A) = 0 /\ Len(B) = 0
    <3>1. ~new => A # <<a>> /\ B # <<b>>
      BY <1>9
    <3> QED BY <1>11, <3>1
  <2> QED BY <1>9, <1>11, <2>1
<1>18. ~new => \/ Len(s) = 0
               \/ is /\ Len(s) = 1 /\ s[1] = [op |-> "put", key |-> g, layout |-> made]
  BY <1>10, <1>17
<1> QED BY <1>11, <1>13, <1>14, <1>15, <1>16, <1>18 DEF Asks

LEMMA EffectsAsk ==
  ASSUME GroupShapes, GridInv, NEW groups, NEW h, NEW g \in GroupNames \cup {"default"}, GridEffects(groups, h, g),
         NEW is \in BOOLEAN, is = GridMounted(h, groups, g),
         NEW new \in BOOLEAN, new = (g # GroupShown \/ (is /\ ~GridOn))
  PROVE  \E s : /\ IsSeq(s) /\ idb' = idb \o s
               /\ Asks(s, is, new, g, mounts', GenerateLayout(gridLoaded, currentGridLayout, CamerasOf(groups, g)))
<1> DEFINE fresh == is /\ ~GridOn
           other == g # GroupShown
           cams == CamerasOf(groups, g)
           rewrite == is /\ (fresh \/ cams # currentCameras)
           made == GenerateLayout(gridLoaded, currentGridLayout, cams)
           layout == IF fresh THEN None ELSE made
           A == IF other THEN Get(DialogInstance, g) ELSE <<>>
           B == IF is /\ (fresh \/ other) THEN Get(mounts', g) ELSE <<>>
           C == IF rewrite THEN PutLayout(g, layout) ELSE <<>>
<1>1. /\ idb' = idb \o (A \o B \o C)
      /\ mounts' = IF fresh THEN mounts + 1 ELSE mounts
  BY Zenon DEF GridEffects
<1>2. is => g # "default"
  BY DEF GridMounted
<1>3. /\ A = IF other /\ g # "default" THEN <<[op |-> "get", who |-> 0, key |-> g]>> ELSE <<>>
      /\ B = IF is /\ new THEN <<[op |-> "get", who |-> mounts', key |-> g]>> ELSE <<>>
      /\ C = IF rewrite THEN <<[op |-> "put", key |-> g, layout |-> layout]>> ELSE <<>>
  BY <1>2 DEF Get, PutLayout, DialogInstance
<1>4. PICK s : s = A \o B \o C
  OBVIOUS
<1>5. is => mounts' # 0
  <2>1. PICK n \in Nat : n = mounts BY Zenon DEF GroupShapes
  <2>2. CASE fresh
    <3>1. mounts' = n + 1 BY <1>1, <2>1, <2>2
    <3> QED BY <3>1
  <2>3. CASE ~fresh
    <3>1. is => mounts > 0 BY <2>3 DEF GridInv
    <3>2. mounts' = n BY <1>1, <2>1, <2>3
    <3> QED BY <2>1, <3>1, <3>2
  <2> QED BY <2>2, <2>3
<1>6. /\ other \in BOOLEAN /\ rewrite \in BOOLEAN /\ (other => new) /\ (new => is \/ other) /\ (rewrite => is)
      /\ (is /\ ~new => layout = made)
  OBVIOUS
<1> HIDE DEF A, B, C, layout, rewrite, other, fresh, made, cams
<1>7. IsSeq(s) /\ Asks(s, is, new, g, mounts', made)
  <2>1. PICK p, r, l, m, n, X, Y, Z :
          /\ p \in BOOLEAN /\ r \in BOOLEAN /\ p = other /\ r = rewrite /\ l = layout /\ m = mounts' /\ n = made /\ X = A /\ Y = B /\ Z = C
    BY <1>6
  <2>2. s = X \o Y \o Z
    BY <1>4, <2>1
  <2>3. /\ X = IF p /\ g # "default" THEN <<[op |-> "get", who |-> 0, key |-> g]>> ELSE <<>>
        /\ Y = IF is /\ new THEN <<[op |-> "get", who |-> m, key |-> g]>> ELSE <<>>
        /\ Z = IF r THEN <<[op |-> "put", key |-> g, layout |-> l]>> ELSE <<>>
    BY <1>3, <2>1
  <2>4. (p => new) /\ (new => is \/ p) /\ (r => is) /\ (is => m # 0) /\ (is /\ ~new => l = n)
    BY <1>5, <1>6, <2>1
  <2>5. Asks(s, is, new, g, m, n)
    BY <2>2, <2>3, <2>4, ThreeAsk
  <2>6. IsSeq(s)
    <3>1. IsSeq(X) /\ IsSeq(Y) /\ IsSeq(Z) BY <2>3, Single
    <3>2. PICK t : t = X \o Y OBVIOUS
    <3>3. IsSeq(t) BY <3>1, <3>2, Joined
    <3>4. s = t \o Z BY <2>2, <3>2
    <3> QED BY <3>1, <3>3, <3>4, Joined
  <2> QED BY <2>1, <2>5, <2>6
<1> QED BY <1>1, <1>4, <1>7 DEF made, cams

-----------------------------------------------------------------------------
(* The effects of a render *)

\* Requests that are appended keep what was arranged.
LEMMA EffectsKept ==
  ASSUME LayoutInv, NEW groups, NEW h, NEW g \in GroupNames \cup {"default"}, GridEffects(groups, h, g), disk' = disk,
         arranged' = IF (g # GroupShown \/ ~GridOn) /\ BeingRead(idb, g) THEN [arranged EXCEPT ![g] = 0] ELSE arranged,
         NEW x \in GroupNames, arranged'[x] # 0
  PROVE  Kept(idb', disk', x, arranged'[x]) /\ arranged'[x] = arranged[x]
<1> DEFINE a == arranged[x]
<1>a. PICK is \in BOOLEAN, new \in BOOLEAN : is = GridMounted(h, groups, g) /\ new = (g # GroupShown \/ (is /\ ~GridOn))
  BY DEF GridMounted
<1>0. GroupShapes /\ GridInv /\ IsSeq(idb)
  BY DEF LayoutInv, GroupShapes
<1>b. PICK s : /\ IsSeq(s) /\ idb' = idb \o s
               /\ Asks(s, is, new, g, mounts', GenerateLayout(gridLoaded, currentGridLayout, CamerasOf(groups, g)))
  BY <1>0, <1>a, EffectsAsk
<1>1.
           /\ IsSeq(s) /\ idb' = idb \o s
           /\ \A y : y # g => Quiet(s, y, 1, Len(s)) /\ \A i \in 1..Len(s) : ~IsGet(s[i], y)
           /\ \A i \in 1..Len(s) : s[i].op = "get" => new /\ s[i].who \in {0, mounts'} /\ Quiet(s, g, 1, i - 1)
           /\ new /\ g # "default" => \E i \in 1..Len(s) : IsGet(s[i], g)
           /\ new /\ is => \E n \in 1..Len(s) : /\ Own(s[n], mounts') /\ s[n].key = g
                                                /\ \A i \in 1..Len(s) : Own(s[i], mounts') => i = n
           /\ ~new => \/ Len(s) = 0
                      \/ /\ is /\ Len(s) = 1
                         /\ s[1] = [op |-> "put", key |-> g,
                                    layout |-> GenerateLayout(gridLoaded, currentGridLayout, CamerasOf(groups, g))]
  BY <1>b DEF Asks
<1>2. a \in Nat /\ a # 0 /\ arranged'[x] = a /\ (x = g /\ (g # GroupShown \/ ~GridOn) => ~BeingRead(idb, g))
  BY <1>0 DEF GroupShapes
<1>3. ReadsKeep(idb, disk, x, a) /\ (BeingRead(idb, x) \/ Good(idb, disk, x, a, Len(idb) + 1))
  BY <1>2 DEF LayoutInv, KeptInv, Kept
<1>4. CASE x # g
  <2>1. Quiet(s, x, 1, Len(s)) /\ \A i \in 1..Len(s) : ~IsGet(s[i], x)
    BY <1>1, <1>4
  <2>2. Kept(idb', disk, x, a)
    BY <1>0, <1>1, <1>3, <2>1, AppendKeeps
  <2> QED BY <1>2, <2>2
<1>5. CASE x = g /\ new
  <2>1. ~BeingRead(idb, x)
    BY <1>2, <1>5, <1>a
  <2>2. Good(idb, disk, x, a, Len(idb) + 1)
    BY <1>3, <2>1
  <2>3. \A i \in 1..Len(s) : IsGet(s[i], x) => Good(idb, disk, x, a, Len(idb) + 1) /\ Quiet(s, x, 1, i - 1)
    BY <1>1, <1>5, <2>2 DEF IsGet
  <2>4. \E i \in 1..Len(s) : IsGet(s[i], x)
    BY <1>1, <1>5, GroupsAssumption
  <2>5. Kept(idb', disk, x, a)
    BY <1>0, <1>1, <1>3, <2>3, <2>4, AppendKeeps
  <2> QED BY <1>2, <2>5
<1>6. CASE x = g /\ ~new
  <2>1. \A i \in 1..Len(s) : ~IsGet(s[i], x)
    BY <1>1, <1>6 DEF IsGet
  <2>2. \/ BeingRead(idb, x)
        \/ Good(idb, disk, x, a, Len(idb) + 1) /\ Quiet(s, x, 1, Len(s))
        \/ \E i \in 1..Len(s) : IsPut(s[i], x, a) /\ Quiet(s, x, i + 1, Len(s))
    <3>1. CASE Len(s) = 0
      <4>1. Quiet(s, x, 1, Len(s)) BY <3>1 DEF Quiet
      <4> QED BY <1>3, <4>1
    <3>2. CASE ~BeingRead(idb, x) /\ Len(s) # 0
      <4>1. /\ is /\ Len(s) = 1
            /\ s[1] = [op |-> "put", key |-> g,
                       layout |-> GenerateLayout(gridLoaded, currentGridLayout, CamerasOf(groups, g))]
        BY <1>1, <1>6, <3>2
      <4>2. GridOn /\ g = GroupShown
        BY <1>6, <4>1, <1>a
      <4>3. ~Reading(idb, mounts)
        <5> SUFFICES ASSUME Reading(idb, mounts) PROVE FALSE
          OBVIOUS
        <5>1. PICK i \in 1..Len(idb) : Own(idb[i], mounts)
          BY DEF Reading
        <5>2. LastIs(idb, mounts, g)
          BY <1>0, <4>2 DEF GridInv
        <5>3. PICK j \in i..Len(idb) : Own(idb[j], mounts) /\ idb[j].key = g
          BY <5>1, <5>2 DEF LastIs
        <5>4. Len(idb) \in Nat /\ DOMAIN idb = 1..Len(idb)
          BY <1>0, SeqFacts
        <5>5. j \in DOMAIN idb /\ idb[j].op = "get" /\ idb[j].key = x
          BY <1>6, <5>3, <5>4 DEF Own
        <5> QED BY <3>2, <5>5 DEF BeingRead
      <4>4. gridLoaded /\ currentGridLayout.arr = a
        BY <1>0, <1>2, <1>6, <4>2, <4>3 DEF GridInv
      <4>5. GenerateLayout(gridLoaded, currentGridLayout, CamerasOf(groups, g)).arr = a
        BY <1>2, <4>4, MadeIs
      <4>6. 1 \in 1..Len(s) /\ IsPut(s[1], x, a) /\ Quiet(s, x, 1 + 1, Len(s))
        <5>1. PICK made : made = GenerateLayout(gridLoaded, currentGridLayout, CamerasOf(groups, g)) OBVIOUS
        <5>2. s[1] = [op |-> "put", key |-> g, layout |-> made] BY <4>1, <5>1
        <5>3. s[1].op = "put" /\ s[1].key = g /\ s[1].layout = made BY <5>2
        <5> QED BY <1>6, <4>1, <4>5, <5>1, <5>3 DEF IsPut, Quiet
      <4> QED BY <4>6
    <3> QED BY <3>1, <3>2
  <2>3. Kept(idb', disk, x, a)
    BY <1>0, <1>1, <1>3, <2>1, <2>2, AppendKeeps
  <2> QED BY <1>2, <2>3
<1> QED BY <1>4, <1>5, <1>6

\* And the grid that is shown then has the layout of its group, or is reading it.
LEMMA EffectsGrid ==
  ASSUME LayoutInv, NEW groups, NEW h, NEW g \in GroupNames \cup {"default"}, GridEffects(groups, h, g),
         arranged' = IF (g # GroupShown \/ ~GridOn) /\ BeingRead(idb, g) THEN [arranged EXCEPT ![g] = 0] ELSE arranged,
         GroupShown' = g, GridOn' = GridMounted(h, groups, g)
  PROVE  GridInv' /\ IsSeq(idb') /\ mounts' \in Nat
<1>a. PICK is \in BOOLEAN, new \in BOOLEAN : is = GridMounted(h, groups, g) /\ new = (g # GroupShown \/ (is /\ ~GridOn))
  BY DEF GridMounted
<1>0. GroupShapes /\ GridInv /\ IsSeq(idb)
  BY DEF LayoutInv, GroupShapes
<1>b. PICK s : /\ IsSeq(s) /\ idb' = idb \o s
               /\ Asks(s, is, new, g, mounts', GenerateLayout(gridLoaded, currentGridLayout, CamerasOf(groups, g)))
  BY <1>0, <1>a, EffectsAsk
<1>1.
           /\ IsSeq(s) /\ idb' = idb \o s
           /\ \A y : y # g => Quiet(s, y, 1, Len(s)) /\ \A i \in 1..Len(s) : ~IsGet(s[i], y)
           /\ \A i \in 1..Len(s) : s[i].op = "get" => new /\ s[i].who \in {0, mounts'} /\ Quiet(s, g, 1, i - 1)
           /\ new /\ g # "default" => \E i \in 1..Len(s) : IsGet(s[i], g)
           /\ new /\ is => \E n \in 1..Len(s) : /\ Own(s[n], mounts') /\ s[n].key = g
                                                /\ \A i \in 1..Len(s) : Own(s[i], mounts') => i = n
           /\ ~new => \/ Len(s) = 0
                      \/ /\ is /\ Len(s) = 1
                         /\ s[1] = [op |-> "put", key |-> g,
                                    layout |-> GenerateLayout(gridLoaded, currentGridLayout, CamerasOf(groups, g))]
  BY <1>b DEF Asks
<1>2. PICK m \in Nat, n \in Nat : /\ m = mounts /\ n = mounts' /\ n >= m
                                  /\ (is /\ GridOn => n = m) /\ (is /\ ~GridOn => n > m)
  <2>1. PICK m \in Nat : m = mounts BY <1>0, Zenon DEF GroupShapes
  <2>2. mounts' = IF is /\ ~GridOn THEN mounts + 1 ELSE mounts BY <1>a, Zenon DEF GridEffects
  <2>3. CASE is /\ ~GridOn
    <3>1. mounts' = m + 1 BY <2>1, <2>2, <2>3
    <3> QED BY <2>1, <2>3, <3>1
  <2>4. CASE ~(is /\ ~GridOn) BY <2>1, <2>2, <2>4
  <2> QED BY <2>3, <2>4
<1>3. Whos(idb', n)
  <2>1. \A i \in 1..Len(s) : s[i].op = "get" => s[i].who \in 0..n
    <3>1. \A y \in {0, mounts'} : y \in 0..n BY <1>2
    <3>2. \A i \in 1..Len(s) : s[i].op = "get" => s[i].who \in {0, mounts'} BY <1>1
    <3> QED BY <3>1, <3>2
  <2>2. Whos(idb, m) BY <1>0, <1>2 DEF GridInv
  <2> QED BY <1>0, <1>1, <1>2, <2>1, <2>2, WhosAppended
<1>4. IsSeq(idb')
  BY <1>0, <1>1, Joined
<1>5. CASE is /\ new
  <2>1. PICK k \in 1..Len(s) : /\ Own(s[k], n) /\ s[k].key = g
                               /\ \A i \in 1..Len(s) : Own(s[i], n) => i = k
    BY <1>1, <1>2, <1>5
  <2>2. Reading(idb', n) /\ LastIs(idb', n, g)
    BY <1>0, <1>1, <2>1, OwnNew
  <2>3. n > 0
    <3>1. GridOn => m > 0 BY <1>0, <1>2 DEF GridInv
    <3> QED BY <1>2, <1>5, <3>1
  <2> QED BY <1>2, <1>3, <1>4, <2>2, <2>3 DEF GridInv
<1>6. CASE is /\ ~new
  <2>1. GridOn /\ g = GroupShown /\ n = m
    BY <1>2, <1>6, <1>a
  <2>2. \A i \in 1..Len(s) : ~Own(s[i], n)
    BY <1>1, <1>6 DEF Own
  <2>3. /\ Reading(idb, n) <=> Reading(idb', n)
        /\ LastIs(idb, n, g) => LastIs(idb', n, g)
    BY <1>0, <1>1, <2>2, OwnSame
  <2>4. n > 0 /\ LastIs(idb, n, g)
    BY <1>0, <1>2, <2>1 DEF GridInv
  <2>5. ASSUME ~Reading(idb, n)
        PROVE  gridLoaded' /\ (arranged'[g] # 0 => currentGridLayout'.arr = arranged'[g])
    <3>1. gridLoaded /\ (arranged[g] # 0 => currentGridLayout.arr = arranged[g])
      BY <1>0, <1>2, <2>1, <2>5 DEF GridInv
    <3>2. gridLoaded' /\ arranged' = arranged
      BY <1>6, <1>a, <2>1, <3>1 DEF GridEffects
    <3>3. PICK made : made = GenerateLayout(gridLoaded, currentGridLayout, CamerasOf(groups, g)) OBVIOUS
    <3>4. currentGridLayout' = currentGridLayout \/ (currentGridLayout' = made /\ made # None)
      BY <1>6, <1>a, <2>1, <3>3 DEF GridEffects
    <3>5. ASSUME arranged[g] # 0 PROVE made.arr = arranged[g]
      <4>1. g \in GroupNames BY <1>6, <1>a DEF GridMounted
      <4>2. arranged[g] \in Nat BY <1>0, <4>1 DEF GroupShapes
      <4>3. gridLoaded /\ currentGridLayout.arr = arranged[g] BY <3>1, <3>5
      <4>4. GenerateLayout(gridLoaded, currentGridLayout, CamerasOf(groups, g)).arr = arranged[g]
        BY <4>2, <4>3, MadeIs
      <4> QED BY <3>3, <4>4
    <3> QED BY <3>1, <3>2, <3>4, <3>5
  <2> QED BY <1>2, <1>3, <1>4, <2>3, <2>4, <2>5 DEF GridInv
<1>7. CASE ~is
  BY <1>2, <1>3, <1>4, <1>7, <1>a DEF GridInv
<1> QED BY <1>5, <1>6, <1>7

-----------------------------------------------------------------------------
(* The steps *)

\* Which group is shown, and what is known of groups, is a matter of types.
LEMMA SameQueue ==
  ASSUME LayoutInv, GroupShapes', UNCHANGED <<idb, disk, mounts, arranged, gridLoaded, currentGridLayout>>,
         GridOn' => GridOn /\ GroupShown' = GroupShown
  PROVE  LayoutInv'
<1>1. KeptInv' BY DEF LayoutInv, KeptInv
<1>2. GridInv' BY DEF LayoutInv, GridInv
<1> QED BY <1>1, <1>2 DEF LayoutInv

\* A group is gone to.
LEMMA ComeKeeps ==
  ASSUME LayoutInv, NEW groups, NEW h, NEW g \in GroupNames \cup {"default"}, GoToGroup(groups, h, g),
         disk' = disk, handheld' = handheld, GroupShown' = g, hash' = h, cfgGroups' = groups,
         DOMAIN srvGroups' \subseteq GroupNames, DOMAIN cfgGroups' \subseteq GroupNames, gridActs' \in Nat,
         selectedGroup' \in GroupNames \cup {"", "default"}, remembered' \in GroupNames \cup {"", "default"},
         param' \in GroupNames \cup {""}, groupRequest'.kind = "save" => groupRequest'.name \in GroupNames
  PROVE  LayoutInv'
<1>1. /\ GridEffects(groups, h, g)
      /\ arranged' = IF (g # GroupShown \/ ~GridOn) /\ BeingRead(idb, g) THEN [arranged EXCEPT ![g] = 0] ELSE arranged
  BY DEF GoToGroup
<1>2. GridOn' = GridMounted(h, groups, g)
  BY DEF GridOn, GridMounted, Dashboard
<1>3. GridInv' /\ IsSeq(idb') /\ mounts' \in Nat
  BY <1>1, <1>2, EffectsGrid
<1>4. KeptInv'
  <2> SUFFICES ASSUME NEW x \in GroupNames, arranged'[x] # 0 PROVE Kept(idb', disk', x, arranged'[x])
    BY DEF KeptInv
  <2> QED BY <1>1, EffectsKept
<1>5. GroupShapes'
  <2>1. arranged \in [GroupNames -> Nat] /\ DOMAIN disk = GroupNames BY DEF LayoutInv, GroupShapes
  <2>2. arranged' \in [GroupNames -> Nat] BY <1>1, <2>1
  <2> QED BY <1>3, <2>1, <2>2 DEF GroupShapes
<1> QED BY <1>3, <1>4, <1>5 DEF LayoutInv

LEMMA GoKeeps ==
  ASSUME LayoutInv, ClickGroup \/ GroupParam \/ SelectGridCamera \/ BackToDashboard \/ GroupDeleted \/ GroupsFetched
  PROVE  LayoutInv'
<1>0. /\ GroupShapes /\ GroupShown \in GroupNames \cup {"default"} /\ "" \notin GroupNames
      /\ gridActs \in Nat /\ gridActs + 1 \in Nat
  <2>1. GroupShapes BY DEF LayoutInv
  <2>2. gridActs \in Nat BY <2>1, Zenon DEF GroupShapes
  <2>3. gridActs + 1 \in Nat BY <2>2
  <2>4. GroupShown \in GroupNames \cup {"default"} BY <2>1, GroupShownIs
  <2>5. "" \notin GroupNames BY GroupsAssumption
  <2> QED BY <2>1, <2>2, <2>3, <2>4, <2>5
<1>1. ASSUME NEW g \in GroupNames \cup {"default"}, SetGroup(g)
      PROVE  GroupShown' = g /\ selectedGroup' = g /\ remembered' = g
  <2>1. g # "" BY <1>0
  <2> QED BY <1>1, <2>1 DEF SetGroup, GroupShown
<1>2. CASE ClickGroup
  <2>1. PICK g \in GroupNames \cup {"default"} : SetGroup(g) /\ GoToGroup(cfgGroups, "", g)
    BY <1>0, <1>2 DEF ClickGroup, GroupShapes
  <2>2. GroupShown' = g /\ selectedGroup' = g /\ remembered' = g BY <1>1, <2>1
  <2>3. /\ hash' = "" /\ param' = "" /\ UNCHANGED <<handheld, srvGroups, cfgGroups, disk, groupRequest>>
        /\ gridActs' \in Nat
    BY <1>0, <1>2 DEF ClickGroup, GridAct, groupDialog
  <2> QED BY <1>0, <2>1, <2>2, <2>3, ComeKeeps DEF GroupShapes
<1>3. CASE GroupParam
  <2>1. /\ param' = "" /\ UNCHANGED <<handheld, hash, srvGroups, cfgGroups, disk, groupRequest, gridActs>>
    BY <1>3 DEF GroupParam, groupDialog
  <2>2. CASE param \in DOMAIN cfgGroups
    <3>1. SetGroup(param) /\ GoToGroup(cfgGroups, hash, param) /\ param \in GroupNames \cup {"default"}
      BY <1>0, <1>3, <2>2 DEF GroupParam, GroupShapes
    <3>2. GroupShown' = param /\ selectedGroup' = param /\ remembered' = param BY <1>1, <3>1
    <3> QED BY <1>0, <2>1, <3>1, <3>2, ComeKeeps DEF GroupShapes
  <2>3. CASE param \notin DOMAIN cfgGroups
    <3>1. UNCHANGED <<selectedGroup, remembered, gridState, idb, arranged>>
      BY <1>3, <2>3 DEF GroupParam
    <3>2. GroupShapes' BY <1>0, <2>1, <3>1 DEF GroupShapes, gridState
    <3>3. GridOn' = GridOn /\ GroupShown' = GroupShown BY <2>1, <3>1 DEF GridOn, GridMounted, Dashboard, GroupShown
    <3> QED BY <2>1, <3>1, <3>2, <3>3, SameQueue DEF gridState
  <2> QED BY <2>2, <2>3
<1>4. CASE SelectGridCamera \/ BackToDashboard
  <2>1. PICK h : hash' = h /\ GoToGroup(cfgGroups, h, GroupShown)
    BY <1>4 DEF SelectGridCamera, BackToDashboard
  <2>2. /\ UNCHANGED <<handheld, srvGroups, cfgGroups, selectedGroup, remembered, param, disk, groupRequest>>
        /\ gridActs' \in Nat
    BY <1>0, <1>4 DEF SelectGridCamera, BackToDashboard, GridAct, groupDialog
  <2>3. GroupShown' = GroupShown BY <2>2 DEF GroupShown
  <2> QED BY <1>0, <2>1, <2>2, <2>3, ComeKeeps DEF GroupShapes
<1>5. CASE GroupDeleted
  <2>1. /\ groupRequest' = NoRequest /\ DOMAIN srvGroups' \subseteq GroupNames
        /\ UNCHANGED <<handheld, cfgGroups, param, disk, gridActs>>
    BY <1>0, <1>5 DEF GroupDeleted, GroupShapes
  <2>2. groupRequest'.kind # "save" BY <2>1 DEF NoRequest
  <2>3. CASE groupRequest.active = groupRequest.name
    <3>1. SetGroup("default") /\ GoToGroup(cfgGroups, "", "default") /\ hash' = ""
      BY <1>5, <2>3 DEF GroupDeleted
    <3>2. GroupShown' = "default" /\ selectedGroup' = "default" /\ remembered' = "default" BY <1>1, <3>1
    <3> QED BY <1>0, <2>1, <2>2, <3>1, <3>2, ComeKeeps DEF GroupShapes
  <2>4. CASE groupRequest.active # groupRequest.name
    <3>1. UNCHANGED <<selectedGroup, remembered, gridState, idb, hash, arranged>>
      BY <1>5, <2>4 DEF GroupDeleted
    <3>2. GroupShapes' BY <1>0, <2>1, <2>2, <3>1 DEF GroupShapes, gridState
    <3>3. GridOn' = GridOn /\ GroupShown' = GroupShown BY <2>1, <3>1 DEF GridOn, GridMounted, Dashboard, GroupShown
    <3> QED BY <2>1, <3>1, <3>2, <3>3, SameQueue DEF gridState
  <2> QED BY <2>3, <2>4
<1>6. CASE GroupsFetched
  <2>1. /\ cfgGroups' = srvGroups /\ GoToGroup(srvGroups, hash, GroupShown)
        /\ UNCHANGED <<handheld, hash, srvGroups, selectedGroup, remembered, param, disk, groupRequest, gridActs>>
    BY <1>6 DEF GroupsFetched, groupDialog
  <2>2. GroupShown' = GroupShown BY <2>1 DEF GroupShown
  <2> QED BY <1>0, <2>1, <2>2, ComeKeeps DEF GroupShapes
<1> QED BY <1>2, <1>3, <1>4, <1>5, <1>6

\* The buttons and the dialogs do not come near the layouts.
LEMMA GroupDialogKeeps ==
  ASSUME LayoutInv,
         \/ ClickButton \/ OpenGroups \/ EditGroup \/ FillForm \/ SubmitGroup \/ CancelGroup \/ GroupSaved
         \/ RequestFails \/ UNCHANGED groupVars
  PROVE  LayoutInv'
<1>0. GroupShapes /\ gridActs \in Nat /\ gridActs + 1 \in Nat
  <2>1. GroupShapes BY DEF LayoutInv
  <2>2. gridActs \in Nat BY <2>1, Zenon DEF GroupShapes
  <2> QED BY <2>1, <2>2
<1>1. /\ UNCHANGED <<idb, disk, mounts, arranged, gridLoaded, currentGridLayout, handheld, hash, cfgGroups,
                     selectedGroup, remembered, param>>
      /\ gridActs' \in Nat
  <2>1. CASE ClickButton BY <1>0, <2>1 DEF ClickButton, GridAct, gridState
  <2>2. CASE OpenGroups \/ EditGroup \/ FillForm
    BY <1>0, <2>2 DEF OpenGroups, EditGroup, FillForm, DialogUnchanged, GridAct, gridState, gridView
  <2>3. CASE SubmitGroup \/ CancelGroup \/ RequestFails
    BY <1>0, <2>3 DEF SubmitGroup, CancelGroup, RequestFails, DialogUnchanged, gridState, gridView
  <2>4. CASE GroupSaved
    BY <1>0, <2>4 DEF GroupSaved, gridState, gridView
  <2>5. CASE UNCHANGED groupVars
    BY <1>0, <2>5 DEF groupVars
  <2> QED BY <2>1, <2>2, <2>3, <2>4, <2>5
<1>2. /\ DOMAIN srvGroups' \subseteq GroupNames
      /\ groupRequest'.kind = "save" => groupRequest'.name \in GroupNames
  <2>1. CASE ClickButton BY <1>0, <2>1 DEF ClickButton, GroupShapes
  <2>2. CASE OpenGroups \/ EditGroup \/ FillForm \/ CancelGroup
    BY <1>0, <2>2 DEF OpenGroups, EditGroup, FillForm, CancelGroup, DialogUnchanged, GroupShapes
  <2>3. CASE SubmitGroup
    <3>1. groupForm.name \in GroupNames /\ srvGroups' = srvGroups
      BY <2>3 DEF SubmitGroup, FormValid, DialogUnchanged
    <3>2. PICK old, cams, settings, name :
            /\ groupRequest' = [kind |-> "save", old |-> old, name |-> name, cams |-> cams, settings |-> settings]
            /\ name = groupForm.name
      BY <2>3 DEF SubmitGroup
    <3>3. groupRequest'.name = name BY <3>2
    <3> QED BY <1>0, <3>1, <3>2, <3>3 DEF GroupShapes
  <2>4. CASE GroupSaved
    <3>1. groupRequest.kind = "save" /\ groupRequest' = NoRequest /\ srvGroups' = Saved(groupRequest)
      BY <2>4 DEF GroupSaved
    <3>2. groupRequest'.kind # "save" BY <3>1 DEF NoRequest
    <3>3. DOMAIN srvGroups' = (DOMAIN srvGroups \ {groupRequest.old}) \cup {groupRequest.name}
      BY <3>1 DEF Saved
    <3> QED BY <1>0, <3>1, <3>2, <3>3 DEF GroupShapes
  <2>5. CASE RequestFails
    <3>1. groupRequest' = NoRequest /\ srvGroups' = srvGroups
      BY <2>5 DEF RequestFails, DialogUnchanged
    <3>2. groupRequest'.kind # "save" BY <3>1 DEF NoRequest
    <3> QED BY <1>0, <3>1, <3>2 DEF GroupShapes
  <2>6. CASE UNCHANGED groupVars
    BY <1>0, <2>6 DEF groupVars, GroupShapes
  <2> QED BY <2>1, <2>2, <2>3, <2>4, <2>5, <2>6
<1>3. GroupShapes' BY <1>0, <1>1, <1>2 DEF GroupShapes
<1>4. GridOn' = GridOn /\ GroupShown' = GroupShown BY <1>1 DEF GridOn, GridMounted, Dashboard, GroupShown
<1> QED BY <1>1, <1>3, <1>4, SameQueue

-----------------------------------------------------------------------------
(* The requests of the page *)

\* One write of the layout that the grid has, of the group it is of.
LEMMA OneRequest ==
  ASSUME NEW r
  PROVE  IsSeq(<<r>>) /\ Len(<<r>>) = 1 /\ <<r>>[1] = r
<1>1. <<r>> \in Seq({r}) OBVIOUS
<1> QED BY <1>1 DEF IsSeq

LEMMA TailAsked ==
  ASSUME NEW q, IsSeq(q), q # <<>>, NEW g, BeingRead(q, g), ~IsGet(q[1], g)
  PROVE  BeingRead(Tail(q), g)
<1>1. Len(q) \in Nat /\ DOMAIN q = 1..Len(q) BY SeqFacts
<1>2. PICK i \in 1..Len(q) : IsGet(q[i], g) BY <1>1 DEF BeingRead, IsGet
<1>3. i # 1 BY <1>2
<1>4. /\ IsSeq(Tail(q)) /\ Len(Tail(q)) = Len(q) - 1
      /\ \A k \in 1..(Len(q)-1) : Tail(q)[k] = q[k+1]
  BY SeqFacts
<1>5. i - 1 \in 1..(Len(q)-1) /\ (i - 1) + 1 = i BY <1>1, <1>3
<1>6. Tail(q)[i - 1] = q[(i - 1) + 1] BY <1>4, <1>5
<1>7. i - 1 \in DOMAIN Tail(q) BY <1>4, <1>5, SeqFacts
<1> QED BY <1>2, <1>5, <1>6, <1>7 DEF BeingRead, IsGet

LEMMA ReadsFirst ==
  ASSUME NEW q, IsSeq(q), q # <<>>, NEW d, NEW g, NEW a, ReadsKeep(q, d, g, a), IsGet(q[1], g)
  PROVE  d[g].arr = a
<1>1. 1 \in 1..Len(q) BY SeqFacts
<1>2. Good(q, d, g, a, 1) BY <1>1 DEF ReadsKeep
<1>3. 1..(1-1) = {} OBVIOUS
<1> QED BY <1>2, <1>3 DEF Good

LEMMA ReadingAsked ==
  ASSUME NEW q, IsSeq(q), NEW m, NEW g, Reading(q, m), LastIs(q, m, g)
  PROVE  BeingRead(q, g)
<1>1. Len(q) \in Nat /\ DOMAIN q = 1..Len(q) BY SeqFacts
<1>2. PICK i \in 1..Len(q) : Own(q[i], m) BY DEF Reading
<1>3. PICK j \in i..Len(q) : Own(q[j], m) /\ q[j].key = g BY <1>2 DEF LastIs
<1>4. j \in DOMAIN q BY <1>1
<1> QED BY <1>3, <1>4 DEF BeingRead, Own

LEMMA HandleKeeps == ASSUME LayoutInv, HandleLayoutChange PROVE LayoutInv'
<1>0. GroupShapes /\ GridInv /\ IsSeq(idb) /\ arranged \in [GroupNames -> Nat]
  BY DEF LayoutInv, GroupShapes
<1>a. PICK n \in Nat : n = gridActs' /\ n > 0
  <2>1. PICK k \in Nat : k = gridActs BY <1>0, Zenon DEF GroupShapes
  <2> QED BY <2>1 DEF HandleLayoutChange, GridAct
<1>1. /\ UNCHANGED <<handheld, hash, srvGroups, cfgGroups, selectedGroup, remembered, param, gridLoaded, mounts, disk,
                     groupRequest>>
      /\ GridOn /\ gridLoaded
  BY DEF HandleLayoutChange, gridView, groupDialog, GridShown
<1>2. GroupShown' = GroupShown /\ GridOn' = GridOn
  BY <1>1 DEF GridOn, GridMounted, Dashboard, GroupShown
<1>3. CASE UNCHANGED <<gridLayout, currentGridLayout, idb, arranged>>
  <2>1. GroupShapes' BY <1>0, <1>1, <1>3, <1>a DEF GroupShapes
  <2> QED BY <1>1, <1>2, <1>3, <2>1, SameQueue
<1>4. CASE gridLayout = currentGridLayout
  <2>1. PICK l : /\ l.arr = n /\ currentGridLayout' = l /\ idb' = idb \o PutLayout(GroupShown, l)
    <3>1. PICK cams : /\ gridLayout' = [arr |-> gridActs', cams |-> cams] /\ currentGridLayout' = gridLayout'
                      /\ idb' = idb \o PutLayout(GroupShown, gridLayout')
      BY <1>4 DEF HandleLayoutChange
    <3>2. gridLayout'.arr = gridActs' BY <3>1
    <3> QED BY <1>a, <3>1, <3>2
  <2> DEFINE p == [op |-> "put", key |-> GroupShown, layout |-> l]
  <2>2. p.op = "put" /\ p.key = GroupShown /\ p.layout = l OBVIOUS
  <2>3. idb' = idb \o <<p>> BY <2>1 DEF PutLayout
  <2> HIDE DEF p
  <2>4. IsSeq(<<p>>) /\ Len(<<p>>) = 1 /\ <<p>>[1] = p BY OneRequest
  <2>5. IsSeq(idb') BY <1>0, <2>3, <2>4, Joined
  <2>6. arranged' = [g \in GroupNames |-> IF g # GroupShown THEN arranged[g]
                                          ELSE IF BeingRead(idb, GroupShown) THEN 0 ELSE gridActs']
    BY <1>4 DEF HandleLayoutChange
  <2>7. GroupShapes' BY <1>0, <1>1, <1>a, <2>5, <2>6 DEF GroupShapes
  <2>8. ASSUME NEW x \in GroupNames, arranged'[x] # 0 PROVE Kept(idb', disk, x, arranged'[x])
    <3>0. \A i \in 1..1 : <<p>>[i] = p BY <2>4
    <3>1. CASE x # GroupShown
      <4>1. arranged'[x] = arranged[x] BY <2>6, <3>1
      <4>2. Kept(idb, disk, x, arranged[x]) BY <2>8, <4>1 DEF LayoutInv, KeptInv
      <4>3. Quiet(<<p>>, x, 1, 1) /\ \A i \in 1..1 : ~IsGet(<<p>>[i], x)
        BY <2>2, <3>0, <3>1 DEF Quiet, IsWrite, IsGet
      <4>4. Kept(idb', disk, x, arranged[x])
        BY <1>0, <2>3, <2>4, <4>2, <4>3, AppendKeeps DEF Kept
      <4> QED BY <4>1, <4>4
    <3>2. CASE x = GroupShown
      <4>1. ~BeingRead(idb, x) /\ arranged'[x] = n BY <1>a, <2>6, <2>8, <3>2
      <4>2. ReadsKeep(idb, disk, x, n)
        <5>1. DOMAIN idb = 1..Len(idb) BY <1>0, SeqFacts
        <5> QED BY <4>1, <5>1 DEF ReadsKeep, BeingRead, IsGet
      <4>3. IsPut(<<p>>[1], x, n) /\ Quiet(<<p>>, x, 1 + 1, 1) /\ \A i \in 1..1 : ~IsGet(<<p>>[i], x)
        BY <2>1, <2>2, <3>0, <3>2, <2>4 DEF IsPut, Quiet, IsGet
      <4>4. Kept(idb', disk, x, n)
        <5>1. \E i \in 1..1 : IsPut(<<p>>[i], x, n) /\ Quiet(<<p>>, x, i + 1, 1) BY <4>3
        <5> QED BY <1>0, <2>3, <2>4, <4>2, <4>3, <5>1, AppendKeeps
      <4> QED BY <4>1, <4>4
    <3> QED BY <3>1, <3>2
  <2>9. KeptInv' BY <1>1, <2>8 DEF KeptInv
  <2>10. GridInv'
    <3>0. \A i \in 1..1 : <<p>>[i] = p BY <2>4
    <3>1. /\ Reading(idb, mounts) <=> Reading(idb', mounts)
          /\ LastIs(idb, mounts, GroupShown) => LastIs(idb', mounts, GroupShown)
      <4>1. \A i \in 1..Len(<<p>>) : ~Own(<<p>>[i], mounts) BY <2>2, <2>4, <3>0 DEF Own
      <4> QED BY <1>0, <2>3, <2>4, <4>1, OwnSame
    <3>2. Whos(idb', mounts)
      <4>0. PICK m \in Nat : m = mounts BY <1>0, Zenon DEF GroupShapes
      <4>1. \A i \in 1..Len(<<p>>) : <<p>>[i].op = "get" => <<p>>[i].who \in 0..m BY <2>2, <2>4, <3>0
      <4>2. Whos(idb, m) BY <1>0, <4>0 DEF GridInv
      <4>4. m >= m OBVIOUS
      <4>3. Whos(idb', m) BY <1>0, <2>3, <2>4, <4>1, <4>2, <4>4, WhosAppended
      <4> QED BY <4>0, <4>3
    <3>3. arranged'[GroupShown] # 0 => currentGridLayout'.arr = arranged'[GroupShown]
      <4>1. GroupShown \in GroupNames BY <1>0, <1>1, GroupShownIs
      <4> QED BY <1>a, <2>1, <2>6, <4>1
    <3>4. mounts > 0 /\ LastIs(idb, mounts, GroupShown) BY <1>0, <1>1 DEF GridInv
    <3> QED BY <1>1, <1>2, <3>1, <3>2, <3>3, <3>4 DEF GridInv
  <2> QED BY <2>7, <2>9, <2>10 DEF LayoutInv
<1> QED BY <1>3, <1>4 DEF HandleLayoutChange

\* The layout of the group shown is deleted, which is no longer arranged.
LEMMA DeleteKeeps == ASSUME LayoutInv, OnDeleteGroup PROVE LayoutInv'
<1>0. /\ GroupShapes /\ GridInv /\ IsSeq(idb) /\ arranged \in [GroupNames -> Nat]
      /\ GroupShown \in GroupNames \cup {"default"} /\ "" \notin GroupNames
  BY GroupShownIs, GroupsAssumption DEF LayoutInv, GroupShapes
<1>a. gridActs' \in Nat
  <2>1. PICK k \in Nat : k = gridActs BY <1>0, Zenon DEF GroupShapes
  <2>2. gridActs' = gridActs + 1 BY DEF OnDeleteGroup, GridAct
  <2>3. gridActs' = k + 1 BY <2>1, <2>2
  <2> QED BY <2>3
<1>1. /\ UNCHANGED <<handheld, hash, srvGroups, cfgGroups, param, gridLoaded, currentGridLayout, mounts, disk>>
      /\ selectedGroup' = GroupShown /\ remembered' = ""
  BY DEF OnDeleteGroup, gridView, gridState
<1>2. GroupShown' = GroupShown /\ GridOn' = GridOn
  <2>1. GroupShown # "" BY <1>0
  <2>2. GroupShown' = GroupShown BY <1>1, <2>1 DEF GroupShown
  <2> QED BY <1>1, <2>2 DEF GridOn, GridMounted, Dashboard
<1>3. groupRequest'.kind # "save"
  <2>1. PICK g, act : groupRequest' = [kind |-> "delete", name |-> g, active |-> act] BY DEF OnDeleteGroup
  <2> QED BY <2>1
<1>4. CASE GroupShown = "default"
  <2>1. UNCHANGED <<idb, arranged>> BY <1>4 DEF OnDeleteGroup
  <2>2. GroupShapes' BY <1>0, <1>1, <1>3, <1>a, <1>4, <2>1 DEF GroupShapes
  <2> QED BY <1>1, <1>2, <2>1, <2>2, SameQueue
<1>5. CASE GroupShown # "default"
  <2> DEFINE p == [op |-> "delete", key |-> GroupShown]
  <2>1. p.op = "delete" /\ p.key = GroupShown OBVIOUS
  <2>2. idb' = idb \o <<p>> /\ arranged' = [arranged EXCEPT ![GroupShown] = 0] BY <1>5 DEF OnDeleteGroup
  <2> HIDE DEF p
  <2>3. IsSeq(<<p>>) /\ Len(<<p>>) = 1 /\ <<p>>[1] = p BY OneRequest
  <2>4. IsSeq(idb') BY <1>0, <2>2, <2>3, Joined
  <2>5. arranged' \in [GroupNames -> Nat] BY <1>0, <2>2
  <2>6. GroupShapes' BY <1>0, <1>1, <1>3, <1>a, <2>4, <2>5 DEF GroupShapes
  <2>7. \A i \in 1..1 : <<p>>[i] = p BY <2>3
  <2>8. ASSUME NEW x \in GroupNames, arranged'[x] # 0 PROVE Kept(idb', disk, x, arranged'[x])
    <3>1. x # GroupShown /\ arranged'[x] = arranged[x] BY <1>0, <2>2, <2>8
    <3>2. Kept(idb, disk, x, arranged[x]) BY <2>8, <3>1 DEF LayoutInv, KeptInv
    <3>3. Quiet(<<p>>, x, 1, 1) /\ \A i \in 1..1 : ~IsGet(<<p>>[i], x)
      BY <2>1, <2>7, <3>1 DEF Quiet, IsWrite, IsGet
    <3>4. Kept(idb', disk, x, arranged[x])
      BY <1>0, <2>2, <2>3, <3>2, <3>3, AppendKeeps DEF Kept
    <3> QED BY <3>1, <3>4
  <2>9. KeptInv' BY <1>1, <2>8 DEF KeptInv
  <2>10. GridInv'
    <3>1. /\ Reading(idb, mounts) <=> Reading(idb', mounts)
          /\ LastIs(idb, mounts, GroupShown) => LastIs(idb', mounts, GroupShown)
      <4>1. \A i \in 1..Len(<<p>>) : ~Own(<<p>>[i], mounts) BY <2>1, <2>3, <2>7 DEF Own
      <4> QED BY <1>0, <2>2, <2>3, <4>1, OwnSame
    <3>2. Whos(idb', mounts)
      <4>0. PICK m \in Nat : m = mounts BY <1>0, Zenon DEF GroupShapes
      <4>1. \A i \in 1..Len(<<p>>) : <<p>>[i].op = "get" => <<p>>[i].who \in 0..m BY <2>1, <2>3, <2>7
      <4>2. Whos(idb, m) BY <1>0, <4>0 DEF GridInv
      <4>4. m >= m OBVIOUS
      <4>3. Whos(idb', m) BY <1>0, <2>2, <2>3, <4>1, <4>2, <4>4, WhosAppended
      <4> QED BY <4>0, <4>3
    <3>3. GridOn => arranged'[GroupShown] = 0
      BY <1>0, <1>5, <2>2
    <3> QED BY <1>0, <1>1, <1>2, <3>1, <3>2, <3>3 DEF GridInv
  <2> QED BY <2>6, <2>9, <2>10 DEF LayoutInv
<1> QED BY <1>4, <1>5

-----------------------------------------------------------------------------
(* The database, and the page that is loaded again *)

\* A layout is stored.
LEMMA PutKeeps == ASSUME LayoutInv, IdbPut PROVE LayoutInv'
<1>0. /\ GroupShapes /\ GridInv /\ IsSeq(idb) /\ DOMAIN disk = GroupNames
      /\ idb # <<>> /\ idb[1] = Head(idb) /\ Head(idb).op # "get"
  BY SeqFacts DEF LayoutInv, GroupShapes, IdbPut
<1>1. /\ idb' = Tail(idb)
      /\ disk' = [disk EXCEPT ![Head(idb).key] = IF Head(idb).op = "put" THEN Head(idb).layout ELSE None]
      /\ UNCHANGED <<handheld, hash, srvGroups, cfgGroups, selectedGroup, remembered, param, gridLoaded,
                     currentGridLayout, mounts, groupRequest, arranged, gridActs>>
  BY DEF IdbPut, gridView, gridState, groupDialog
<1>2. IsSeq(idb') BY <1>0, <1>1, SeqFacts
<1>3. GroupShapes' BY <1>0, <1>1, <1>2 DEF GroupShapes
<1>4. ASSUME NEW x \in GroupNames, arranged[x] # 0 PROVE Kept(idb', disk', x, arranged[x])
  <2>1. Kept(idb, disk, x, arranged[x]) BY <1>4 DEF LayoutInv, KeptInv
  <2>2. ~IsWrite(idb[1], x) => disk'[x] = disk[x] BY <1>0, <1>1 DEF IsWrite
  <2>3. IsPut(idb[1], x, arranged[x]) => disk'[x].arr = arranged[x] BY <1>0, <1>1 DEF IsPut
  <2>4. ReadsKeep(idb', disk', x, arranged[x]) BY <1>0, <1>1, <2>1, <2>2, <2>3, TailReads DEF Kept
  <2>5. CASE BeingRead(idb, x)
    <3>1. ~IsGet(idb[1], x) BY <1>0 DEF IsGet
    <3> QED BY <1>0, <1>1, <2>4, <2>5, <3>1, TailAsked DEF Kept
  <2>6. CASE ~BeingRead(idb, x)
    <3>1. Good(idb, disk, x, arranged[x], Len(idb) + 1) BY <2>1, <2>6 DEF Kept
    <3>2. Len(idb) \in Nat /\ Len(idb) >= 1 /\ Len(idb') = Len(idb) - 1 BY <1>0, <1>1, SeqFacts
    <3>3. PICK i \in 2..(Len(idb)+1) : i = Len(idb) + 1 /\ i - 1 = Len(idb') + 1 BY <3>2
    <3>5. Good(idb, disk, x, arranged[x], i) BY <3>1, <3>3
    <3>4. Good(Tail(idb), disk', x, arranged[x], i - 1)
      BY <1>0, <2>2, <2>3, <3>5, TailKeeps
    <3> QED BY <1>1, <2>4, <3>3, <3>4 DEF Kept
  <2> QED BY <2>5, <2>6
<1>5. KeptInv' BY <1>1, <1>4 DEF KeptInv
<1>6. GridInv'
  <2>1. /\ Reading(idb, mounts) => Reading(idb', mounts)
        /\ \A g : LastIs(idb, mounts, g) => LastIs(idb', mounts, g)
        /\ Whos(idb, mounts) => Whos(idb', mounts)
    <3>1. ~Own(idb[1], mounts) BY <1>0 DEF Own
    <3> QED BY <1>0, <1>1, <3>1, OwnTail
  <2>2. GridOn' = GridOn /\ GroupShown' = GroupShown
    BY <1>1 DEF GridOn, GridMounted, Dashboard, GroupShown
  <2> QED BY <1>0, <1>1, <2>1, <2>2 DEF GridInv
<1> QED BY <1>3, <1>5, <1>6 DEF LayoutInv

\* A layout is read: what is found is written back, and the grid has it.
LEMMA GetKeeps == ASSUME LayoutInv, IdbGet PROVE LayoutInv'
<1>0. /\ GroupShapes /\ GridInv /\ IsSeq(idb) /\ arranged \in [GroupNames -> Nat]
      /\ idb # <<>> /\ idb[1] = Head(idb) /\ Head(idb).op = "get" /\ IsSeq(Tail(idb))
  BY SeqFacts DEF LayoutInv, GroupShapes, IdbGet
<1>k. PICK key : key = Head(idb).key OBVIOUS
<1>f. PICK found : found = disk[key] OBVIOUS
<1>m. PICK mine \in BOOLEAN : mine = (Head(idb).who = mounts /\ GridOn) OBVIOUS
<1>v. PICK value : value = IF found # None THEN found ELSE gridLayout OBVIOUS
<1>d. PICK made : made = IF value = None THEN GenerateLayout(TRUE, currentGridLayout, Cameras) ELSE value OBVIOUS
<1>n. PICK next : next = IF mine /\ value = None THEN PutLayout(GroupShown, made) ELSE <<>> OBVIOUS
<1>a. /\ idb' = Tail(idb) \o (WrittenBack(key, found) \o next)
      /\ IF mine THEN gridLoaded' = TRUE /\ currentGridLayout' = made
         ELSE UNCHANGED <<gridLoaded, currentGridLayout>>
  BY <1>k, <1>f, <1>m, <1>v, <1>d, <1>n DEF IdbGet
<1>1. UNCHANGED <<handheld, hash, srvGroups, cfgGroups, selectedGroup, remembered, param, mounts, disk, groupRequest,
                  arranged, gridActs>>
  BY DEF IdbGet, gridView, groupDialog
<1> DEFINE p == [op |-> "put", key |-> key, layout |-> found]
           r == [op |-> "put", key |-> GroupShown, layout |-> made]
<1>2. /\ p.op = "put" /\ p.key = key /\ p.layout = found
      /\ r.op = "put" /\ r.key = GroupShown
  OBVIOUS
<1>3. PICK A : A = WrittenBack(key, found) /\ A = (IF found # None THEN <<p>> ELSE <<>>)
  BY DEF WrittenBack, PutLayout
<1>4. next = IF mine /\ value = None THEN <<r>> ELSE <<>>
  BY <1>n DEF PutLayout
<1> HIDE DEF p, r
<1>5. PICK s : s = A \o next
  OBVIOUS
<1>6. /\ found # None => Len(s) = 1 /\ s[1] = p
      /\ found = None => Len(s) = 0 \/ (Len(s) = 1 /\ s[1] = r /\ mine)
      /\ IsSeq(s)
  <2>1. IsSeq(A) /\ (A = <<>> => Len(A) = 0) /\ (A = <<p>> => Len(A) = 1 /\ A[1] = p)
    BY <1>3, Single
  <2>2. IsSeq(next) /\ (next = <<>> => Len(next) = 0) /\ (next = <<r>> => Len(next) = 1 /\ next[1] = r)
    BY <1>4, Single
  <2>3. Len(s) = Len(A) + Len(next)
    BY <1>5, <2>1, <2>2, Joined
  <2>4. /\ \A i \in 1..Len(A) : s[i] = A[i]
        /\ \A i \in 1..Len(next) : s[Len(A) + i] = next[i]
    BY <1>5, <2>1, <2>2, Appended
  <2>5. IsSeq(s) BY <1>5, <2>1, <2>2, Joined
  <2>6. CASE found # None
    <3>1. A = <<p>> /\ next = <<>> BY <1>v, <1>n, <1>3, <1>4, <2>6
    <3> QED BY <2>1, <2>2, <2>3, <2>4, <2>5, <2>6, <3>1
  <2>7. CASE found = None
    <3>1. A = <<>> BY <1>3, <2>7
    <3>2. next = <<>> \/ (next = <<r>> /\ mine) BY <1>4
    <3>3. Len(s) = 0 \/ (Len(s) = 1 /\ s[1] = r /\ mine) BY <2>1, <2>2, <2>3, <2>4, <3>1, <3>2
    <3> QED BY <2>5, <2>7, <3>3
  <2> QED BY <2>6, <2>7
<1>7. idb' = Tail(idb) \o s
  BY <1>a, <1>3, <1>5
<1>8. IsSeq(idb')
  BY <1>0, <1>6, <1>7, Joined
<1>9. GroupShapes' BY <1>0, <1>1, <1>8 DEF GroupShapes
<1>10. \A i \in 1..Len(s) : s[i].op = "put"
  BY <1>2, <1>6
<1>11. ASSUME NEW x \in GroupNames, arranged[x] # 0, key = x
       PROVE  disk[x].arr = arranged[x] /\ found # None /\ value = found /\ made = found
  <2>1. ReadsKeep(idb, disk, x, arranged[x]) BY <1>11 DEF LayoutInv, KeptInv, Kept
  <2>2. IsGet(idb[1], x) BY <1>0, <1>k, <1>11 DEF IsGet
  <2>3. disk[x].arr = arranged[x] BY <1>0, <2>1, <2>2, ReadsFirst
  <2>4. found # None
    <3>1. found.arr = arranged[x] /\ arranged[x] \in Nat BY <1>0, <1>f, <1>11, <2>3
    <3>2. None.arr = -1 BY DEF None
    <3> QED BY <3>1, <3>2
  <2> QED BY <1>v, <1>d, <2>3, <2>4
<1>12. ASSUME mine, key # GroupShown PROVE Reading(Tail(idb), mounts)
  <2>1. Own(idb[1], mounts) /\ GridOn BY <1>0, <1>m, <1>12 DEF Own
  <2>2. LastIs(idb, mounts, GroupShown) BY <1>0, <2>1 DEF GridInv
  <2>3. idb[1].key # GroupShown BY <1>0, <1>k, <1>12
  <2> QED BY <1>0, <2>1, <2>2, <2>3, OwnTail
<1>13. GridOn => LastIs(Tail(idb), mounts, GroupShown)
  <2>1. GridOn => LastIs(idb, mounts, GroupShown) BY <1>0 DEF GridInv
  <2> QED BY <1>0, <2>1, OwnTail
<1>14. ASSUME NEW x \in GroupNames, arranged[x] # 0 PROVE Kept(idb', disk, x, arranged[x])
  <2>0. arranged[x] \in Nat BY <1>0
  <2>1. Kept(idb, disk, x, arranged[x]) BY <1>14 DEF LayoutInv, KeptInv
  <2>2. ~IsWrite(idb[1], x) /\ ~IsPut(idb[1], x, arranged[x]) BY <1>0 DEF IsWrite, IsPut
  <2>3. ReadsKeep(Tail(idb), disk, x, arranged[x]) BY <1>0, <2>1, <2>2, TailReads DEF Kept
  <2>4. \A i \in 1..Len(s) : ~IsGet(s[i], x) BY <1>10 DEF IsGet
  <2>5. CASE key = x
    <3>1. Len(s) = 1 /\ s[1] = p /\ found.arr = arranged[x] BY <1>f, <1>6, <1>11, <1>14, <2>5
    <3>2. IsPut(s[1], x, arranged[x]) /\ Quiet(s, x, 1 + 1, Len(s)) BY <1>2, <2>5, <3>1 DEF IsPut, Quiet
    <3>3. \E i \in 1..Len(s) : IsPut(s[i], x, arranged[x]) /\ Quiet(s, x, i + 1, Len(s)) BY <3>1, <3>2
    <3> QED BY <1>0, <1>6, <1>7, <2>3, <2>4, <3>3, AppendKeeps
  <2>6. CASE key # x
    <3>1. ~IsGet(idb[1], x) BY <1>0, <1>k, <2>6 DEF IsGet
    <3>2. BeingRead(Tail(idb), x) \/ Good(Tail(idb), disk, x, arranged[x], Len(Tail(idb)) + 1)
      <4>1. CASE BeingRead(idb, x) BY <1>0, <3>1, <4>1, TailAsked
      <4>2. CASE ~BeingRead(idb, x)
        <5>1. Good(idb, disk, x, arranged[x], Len(idb) + 1) BY <2>1, <4>2 DEF Kept
        <5>2. Len(idb) \in Nat /\ Len(idb) >= 1 /\ Len(Tail(idb)) = Len(idb) - 1 BY <1>0, SeqFacts
        <5>3. PICK i \in 2..(Len(idb)+1) : i = Len(idb) + 1 /\ i - 1 = Len(Tail(idb)) + 1 BY <5>2
        <5>5. Good(idb, disk, x, arranged[x], i) BY <5>1, <5>3
        <5>4. Good(Tail(idb), disk, x, arranged[x], i - 1)
          BY <1>0, <2>2, <5>5, TailKeeps
        <5> QED BY <5>3, <5>4
      <4> QED BY <4>1, <4>2
    <3>3. BeingRead(Tail(idb), x) \/ (Good(Tail(idb), disk, x, arranged[x], Len(Tail(idb)) + 1) /\ Quiet(s, x, 1, Len(s)))
      <4>1. CASE x # GroupShown \/ ~mine
        <5>1. Quiet(s, x, 1, Len(s)) BY <1>2, <1>6, <2>6, <4>1 DEF Quiet, IsWrite
        <5> QED BY <3>2, <5>1
      <4>2. CASE x = GroupShown /\ mine
        <5>1. Reading(Tail(idb), mounts) /\ GridOn BY <1>m, <1>12, <2>6, <4>2
        <5> QED BY <1>0, <1>13, <4>2, <5>1, ReadingAsked
      <4> QED BY <4>1, <4>2
    <3> QED BY <1>0, <1>6, <1>7, <2>3, <2>4, <3>3, AppendKeeps
  <2> QED BY <2>5, <2>6
<1>15. KeptInv' BY <1>1, <1>14 DEF KeptInv
<1>16. GridInv'
  <2>1. GridOn' = GridOn /\ GroupShown' = GroupShown
    BY <1>1 DEF GridOn, GridMounted, Dashboard, GroupShown
  <2>2. \A i \in 1..Len(s) : ~Own(s[i], mounts) BY <1>10 DEF Own
  <2>3. /\ Reading(Tail(idb), mounts) <=> Reading(idb', mounts)
        /\ LastIs(Tail(idb), mounts, GroupShown) => LastIs(idb', mounts, GroupShown)
    BY <1>0, <1>6, <1>7, <2>2, OwnSame
  <2>4. Whos(idb', mounts)
    <3>0. PICK m \in Nat : m = mounts BY <1>0, Zenon DEF GroupShapes
    <3>1. Whos(idb, mounts) BY <1>0 DEF GridInv
    <3>2. Whos(Tail(idb), m) BY <1>0, <3>0, <3>1, OwnTail
    <3>3. m >= m /\ \A i \in 1..Len(s) : s[i].op = "get" => s[i].who \in 0..m BY <1>10
    <3>4. Whos(idb', m) BY <1>0, <1>6, <1>7, <3>2, <3>3, WhosAppended
    <3> QED BY <3>0, <3>4
  <2>5. ASSUME GridOn, ~Reading(Tail(idb), mounts)
        PROVE  gridLoaded' /\ (arranged[GroupShown] # 0 => currentGridLayout'.arr = arranged[GroupShown])
    <3>1. CASE mine
      <4>1. gridLoaded' /\ currentGridLayout' = made BY <1>a, <3>1
      <4>2. key = GroupShown BY <1>12, <2>5, <3>1
      <4>3. GroupShown \in GroupNames BY <1>0, <2>5, GroupShownIs
      <4> QED BY <1>f, <1>11, <4>1, <4>2, <4>3
    <3>2. CASE ~mine
      <4>1. ~Own(idb[1], mounts) BY <1>0, <1>m, <2>5, <3>2 DEF Own
      <4>2. ~Reading(idb, mounts) BY <1>0, <2>5, <4>1, OwnTail
      <4>3. gridLoaded' = gridLoaded /\ currentGridLayout' = currentGridLayout BY <1>a, <3>2
      <4> QED BY <1>0, <2>5, <4>2, <4>3 DEF GridInv
    <3> QED BY <3>1, <3>2
  <2>6. GridOn => mounts > 0 BY <1>0 DEF GridInv
  <2> QED BY <1>1, <1>13, <2>1, <2>3, <2>4, <2>5, <2>6 DEF GridInv
<1> QED BY <1>9, <1>15, <1>16 DEF LayoutInv

LEMMA EmptyQueue ==
  ASSUME NEW q, q = <<>>
  PROVE  IsSeq(q) /\ Len(q) = 0 /\ \A g, m : ~BeingRead(q, g) /\ Whos(q, m)
<1>2. IsSeq(q) BY Single
<1>3. Len(q) = 0 /\ DOMAIN q = 1..Len(q) BY <1>2, SeqFacts
<1>4. 1..0 = {} OBVIOUS
<1> QED BY <1>2, <1>3, <1>4 DEF BeingRead, Whos

\* The page is loaded again when nothing is under way, and reads its group first.
LEMMA ReloadKeeps == ASSUME LayoutInv, Reload PROVE LayoutInv'
<1>0. /\ GroupShapes /\ idb = <<>> /\ IsSeq(idb) /\ Len(idb) = 0 /\ "" \notin GroupNames
      /\ remembered \in GroupNames \cup {"", "default"}
  BY SeqFacts, GroupsAssumption DEF LayoutInv, GroupShapes, Reload
<1>a. gridActs' \in Nat
  <2>1. PICK k \in Nat : k = gridActs BY <1>0, Zenon DEF GroupShapes
  <2>2. gridActs' = gridActs + 1 BY DEF Reload, GridAct
  <2>3. gridActs' = k + 1 BY <2>1, <2>2
  <2> QED BY <2>3
<1>g. PICK g \in GroupNames \cup {"default"} : g = IF remembered # "" THEN remembered ELSE "default"
  BY <1>0
<1>i. PICK is \in BOOLEAN : is = GridMounted("", srvGroups, g)
  BY DEF GridMounted
<1>m. PICK m \in Nat : m = mounts' /\ m > 0
  <2>1. PICK k \in Nat : k = mounts BY <1>0, Zenon DEF GroupShapes
  <2>2. mounts' = mounts + 1 BY DEF Reload
  <2>3. mounts' = k + 1 BY <2>1, <2>2
  <2> QED BY <2>3
<1>1. /\ UNCHANGED <<handheld, srvGroups, remembered, param, disk, arranged>>
      /\ groupRequest' = groupRequest /\ groupRequest = NoRequest
      /\ selectedGroup' = "" /\ hash' = "" /\ cfgGroups' = srvGroups
  BY DEF Reload
<1>2. GroupShown' = g
  BY <1>1, <1>g DEF GroupShown
<1>3. GridOn' = is
  BY <1>1, <1>2, <1>i DEF GridOn, GridMounted, Dashboard
<1>A. PICK A : A = Get(DialogInstance, g) OBVIOUS
<1>B. PICK B : B = IF is THEN Get(m, g) ELSE <<>> OBVIOUS
<1>C. PICK C : C = IF is THEN PutLayout(g, None) ELSE <<>> OBVIOUS
<1>4. idb' = A \o B \o C
  BY <1>g, <1>i, <1>m, <1>A, <1>B, <1>C DEF Reload
<1>5. PICK s : s = A \o B \o C
  OBVIOUS
<1>6. PICK made : made = None
  OBVIOUS
<1>7. is => g # "default"
  BY <1>i DEF GridMounted
<1>8. IsSeq(s) /\ Asks(s, is, TRUE, g, m, made)
  <2>1. A = IF TRUE /\ g # "default" THEN <<[op |-> "get", who |-> 0, key |-> g]>> ELSE <<>>
    BY <1>A DEF Get, DialogInstance
  <2>2. B = IF is /\ TRUE THEN <<[op |-> "get", who |-> m, key |-> g]>> ELSE <<>>
    BY <1>B, <1>7 DEF Get
  <2>3. C = IF is THEN <<[op |-> "put", key |-> g, layout |-> made]>> ELSE <<>>
    BY <1>C, <1>6 DEF PutLayout
  <2>4. is => m # 0
    BY <1>m
  <2>5. Asks(s, is, TRUE, g, m, made)
    BY <1>5, <2>1, <2>2, <2>3, <2>4, ThreeAsk
  <2>6. IsSeq(s)
    <3>1. IsSeq(A) /\ IsSeq(B) /\ IsSeq(C) BY <2>1, <2>2, <2>3, Single
    <3>2. PICK t : t = A \o B OBVIOUS
    <3>3. IsSeq(t) BY <3>1, <3>2, Joined
    <3>4. s = t \o C BY <1>5, <3>2
    <3> QED BY <3>1, <3>3, <3>4, Joined
  <2> QED BY <2>5, <2>6
<1>9. idb' = idb \o s
  <2>1. PICK S : s \in Seq(S) BY <1>8 DEF IsSeq
  <2>2. <<>> \o s = s BY <2>1
  <2> QED BY <1>0, <1>4, <1>5, <2>2
<1>10. IsSeq(idb') BY <1>0, <1>8, <1>9, Joined
<1>11. GroupShapes'
  <2>1. groupRequest'.kind # "save" BY <1>1 DEF NoRequest
  <2> QED BY <1>0, <1>1, <1>a, <1>m, <1>10, <2>1 DEF GroupShapes
<1>12. ASSUME NEW x \in GroupNames, arranged[x] # 0 PROVE Kept(idb', disk, x, arranged[x])
  <2>1. Kept(idb, disk, x, arranged[x]) BY <1>12 DEF LayoutInv, KeptInv
  <2>2. ~BeingRead(idb, x) BY <1>0, EmptyQueue
  <2>3. Good(idb, disk, x, arranged[x], Len(idb) + 1) /\ ReadsKeep(idb, disk, x, arranged[x])
    BY <2>1, <2>2 DEF Kept
  <2>4. CASE x # g
    <3>1. Quiet(s, x, 1, Len(s)) /\ \A i \in 1..Len(s) : ~IsGet(s[i], x) BY <1>8, <2>4 DEF Asks
    <3> QED BY <1>0, <1>8, <1>9, <2>3, <3>1, AppendKeeps
  <2>5. CASE x = g
    <3>1. \E i \in 1..Len(s) : IsGet(s[i], x) BY <1>8, <2>5, GroupsAssumption DEF Asks
    <3>2. \A i \in 1..Len(s) : IsGet(s[i], x) => Quiet(s, x, 1, i - 1) BY <1>8, <2>5 DEF Asks, IsGet
    <3> QED BY <1>0, <1>8, <1>9, <2>3, <3>1, <3>2, AppendKeeps
  <2> QED BY <2>4, <2>5
<1>13. KeptInv' BY <1>1, <1>12 DEF KeptInv
<1>14. GridInv'
  <2>1. Whos(idb', m)
    <3>1. \A y \in {0, m} : y \in 0..m BY <1>m
    <3>2. \A i \in 1..Len(s) : s[i].op = "get" => s[i].who \in {0, m} BY <1>8 DEF Asks
    <3>3. \A i \in 1..Len(s) : s[i].op = "get" => s[i].who \in 0..m BY <3>1, <3>2
    <3>4. m >= m OBVIOUS
    <3>5. Whos(idb, m) BY <1>0, EmptyQueue
    <3> QED BY <1>0, <1>8, <1>9, <3>3, <3>4, <3>5, WhosAppended
  <2>2. ASSUME is PROVE Reading(idb', m) /\ LastIs(idb', m, g)
    <3>1. PICK k \in 1..Len(s) : /\ Own(s[k], m) /\ s[k].key = g
                                 /\ \A i \in 1..Len(s) : Own(s[i], m) => i = k
      BY <1>8, <2>2 DEF Asks
    <3> QED BY <1>0, <1>8, <1>9, <3>1, OwnNew
  <2> QED BY <1>m, <1>2, <1>3, <2>1, <2>2 DEF GridInv
<1> QED BY <1>11, <1>13, <1>14 DEF LayoutInv

LEMMA GroupsStart == GroupsInit => LayoutInv
<1> SUFFICES ASSUME GroupsInit PROVE LayoutInv
  OBVIOUS
<1>1. /\ idb = <<>> /\ mounts = 0 /\ gridActs = 0 /\ arranged = [g \in GroupNames |-> 0]
      /\ disk = [g \in GroupNames |-> None] /\ srvGroups = [g \in GroupNames |-> GridCams] /\ cfgGroups = srvGroups
      /\ selectedGroup = "" /\ remembered = "" /\ param \in GroupNames \cup {""} /\ groupRequest = NoRequest
  BY DEF GroupsInit
<1>2. IsSeq(idb) /\ Len(idb) = 0 /\ Whos(idb, 0)
  BY <1>1, EmptyQueue
<1>3. groupRequest.kind # "save" BY <1>1 DEF NoRequest
<1>4. GroupShapes
  <2>1. arranged \in [GroupNames -> Nat] BY <1>1
  <2> QED BY <1>1, <1>2, <1>3, <2>1 DEF GroupShapes
<1>5. KeptInv BY <1>1 DEF KeptInv
<1>6. ~GridOn BY <1>1 DEF GridOn, GridMounted, GroupShown
<1>7. GridInv BY <1>1, <1>2, <1>6 DEF GridInv
<1> QED BY <1>4, <1>5, <1>7 DEF LayoutInv

\* A layout that the user arranged is read and written back by two instances of a hook, and
\* overwritten by an empty one whenever its grid is mounted; it is nevertheless the one that
\* is stored (DraggableGridLayout.tsx, use-persistence.ts), for any groups and cameras.
THEOREM ArrangedIsStored == GroupsSpec => []LayoutSurvives
<1>1. LayoutInv /\ [GroupsNext]_groupVars => LayoutInv'
  BY GetKeeps, PutKeeps, HandleKeeps, GoKeeps, GroupDialogKeeps, ReloadKeeps, DeleteKeeps DEF GroupsNext
<1>2. LayoutInv => LayoutSurvives
  <2> SUFFICES ASSUME LayoutInv, idb = <<>>, NEW g \in GroupNames, arranged[g] # 0
               PROVE  disk[g].arr = arranged[g]
    BY DEF LayoutSurvives
  <2>1. Len(idb) = 0 /\ ~BeingRead(idb, g)
    BY EmptyQueue
  <2>2. Good(idb, disk, g, arranged[g], 0 + 1)
    BY <2>1 DEF LayoutInv, KeptInv, Kept
  <2>3. 1..(0 + 1 - 1) = {}
    OBVIOUS
  <2> QED BY <2>2, <2>3 DEF Good
<1> QED
  BY GroupsStart, <1>1, <1>2, PTL DEF GroupsSpec

-----------------------------------------------------------------------------
(* "Mute all" *)

IsSettings(s) == DOMAIN s \subseteq Cams /\ \A c \in DOMAIN s : DOMAIN s[c] = {"streamType", "playAudio", "volume"}

SoundShapes ==
  /\ cameraGroup \in Groups \cup {"default"} /\ order \in Seq(Groups)
  /\ allSettings = [g \in Groups |-> allSettings[g]] /\ \A g \in Groups : IsSettings(allSettings[g])
  /\ listAudio = [c \in Cams |-> listAudio[c]] /\ gridAudio = [c \in Cams |-> gridAudio[c]]
  /\ DOMAIN muted = {"cams", "at"} /\ muted.cams \subseteq Cams /\ inSight \subseteq Cams
  /\ menu # Nobody => menu \in Cams
  /\ soundDialog # Nobody => soundDialog \in Cams

\* No group that was saved after g has the camera.
Governs(g, c, table, keys) ==
  \E p \in 1..Len(keys) : keys[p] = g /\ \A q \in (p+1)..Len(keys) : c \notin DOMAIN table[keys[q]]

\* What was muted in a group is off in its settings, and that group governs it.
MutedThere(c) ==
  LET g == muted.at
  IN /\ g \in Groups /\ c \in DOMAIN allSettings[g] /\ allSettings[g][c].playAudio # "on"
     /\ Governs(g, c, allSettings, order)
SilenceInv ==
  \A c \in muted.cams : /\ Audio[c] # "on"
                        /\ cameraGroup = "default" <=> muted.at = "default"
                        /\ muted.at # "default" => MutedThere(c)

SoundInv == SoundShapes /\ SilenceInv

-----------------------------------------------------------------------------
LEMMA GovernorsSound ==
  ASSUME NEW g, NEW table, NEW keys, keys \in Seq(Groups), NEW c \in Cams,
         c \in DOMAIN table[g], table[g][c].playAudio # "on", Governs(g, c, table, keys)
  PROVE  AudioOf(table, keys)[c] # "on"
<1>1. PICK p \in 1..Len(keys) : keys[p] = g /\ \A q \in (p+1)..Len(keys) : c \notin DOMAIN table[keys[q]]
  BY DEF Governs
<1> DEFINE with == {i \in 1..Len(keys) : c \in DOMAIN table[keys[i]]}
<1>2. p \in with /\ \A j \in with : j <= p
  BY <1>1
<1>3. \A i \in with : (\A j \in with : j <= i) => i = p
  BY <1>2
<1>4. Governing(c, table, keys) = {table[g][c]}
  BY <1>1, <1>2, <1>3 DEF Governing
<1>5. (CHOOSE e \in Governing(c, table, keys) : TRUE) = table[g][c]
  BY <1>4
<1> QED BY <1>4, <1>5 DEF AudioOf

\* The group that is saved is the last key; the other keys stay as they were.
LEMMA KeysOf ==
  ASSUME order \in Seq(Groups), NEW g \in Groups
  PROVE  /\ KeyOrder(g) \in Seq(Groups) /\ KeyOrder(g) # <<>> /\ KeyOrder(g)[Len(KeyOrder(g))] = g
         /\ Others(g) \in Seq(Groups) /\ KeyOrder(g) = Append(Others(g), g)
         /\ \/ Others(g) = order
            \/ \E k \in 1..Len(order) :
                 /\ order[k] = g /\ Len(Others(g)) = Len(order) - 1
                 /\ \A i \in 1..(k-1) : Others(g)[i] = order[i]
                 /\ \A i \in k..(Len(order)-1) : Others(g)[i] = order[i+1]
<1>1. /\ Others(g) \in Seq(Groups)
      /\ \/ Others(g) = order
         \/ \E k \in 1..Len(order) :
              /\ order[k] = g /\ Len(Others(g)) = Len(order) - 1
              /\ \A i \in 1..(k-1) : Others(g)[i] = order[i]
              /\ \A i \in k..(Len(order)-1) : Others(g)[i] = order[i+1]
  <2>1. CASE HasSettings(g)
    <3>1. PICK k \in 1..Len(order) : order[k] = g /\ k = PlaceOf(g)
      BY <2>1 DEF HasSettings, PlaceOf
    <3> DEFINE A == SubSeq(order, 1, k - 1)
               B == SubSeq(order, k + 1, Len(order))
    <3>2. /\ A \in Seq(Groups) /\ Len(A) = k - 1 /\ \A i \in 1..(k-1) : A[i] = order[i]
      BY <3>1
    <3>3. /\ B \in Seq(Groups) /\ Len(B) = Len(order) - k /\ \A i \in 1..(Len(order)-k) : B[i] = order[k+i]
      BY <3>1
    <3>4. Others(g) = A \o B
      BY <2>1, <3>1 DEF Others
    <3> HIDE DEF A, B
    <3>5. Others(g) \in Seq(Groups) /\ Len(Others(g)) = Len(order) - 1
      BY <3>1, <3>2, <3>3, <3>4
    <3>6. \A i \in 1..(k-1) : Others(g)[i] = order[i]
      BY <3>1, <3>2, <3>3, <3>4
    <3>7. \A i \in k..(Len(order)-1) : Others(g)[i] = order[i+1]
      BY <3>1, <3>2, <3>3, <3>4
    <3> QED BY <3>1, <3>5, <3>6, <3>7
  <2>2. CASE ~HasSettings(g)
    BY <2>2 DEF Others
  <2> QED BY <2>1, <2>2
<1>2. KeyOrder(g) = Append(Others(g), g)
  BY DEF KeyOrder
<1>3. PICK o \in Seq(Groups) : o = Others(g)
  BY <1>1
<1>4. Append(o, g) \in Seq(Groups) /\ Append(o, g) # <<>> /\ Append(o, g)[Len(Append(o, g))] = g
  OBVIOUS
<1> QED BY <1>1, <1>2, <1>3, <1>4

LEMMA SavedGoverns ==
  ASSUME order \in Seq(Groups), NEW g \in Groups, NEW table, NEW c
  PROVE  Governs(g, c, table, KeyOrder(g))
<1>1. PICK keys \in Seq(Groups) : keys = KeyOrder(g) /\ keys # <<>> /\ keys[Len(keys)] = g
  BY KeysOf
<1>2. Len(keys) \in 1..Len(keys) /\ (Len(keys)+1)..Len(keys) = {}
  BY <1>1
<1> QED BY <1>1, <1>2 DEF Governs

\* A group that has not the camera does not govern it when it is saved.
LEMMA OthersGovern ==
  ASSUME order \in Seq(Groups), NEW g \in Groups, NEW h \in Groups, g # h, NEW c, NEW table,
         Governs(g, c, allSettings, order), c \notin DOMAIN table[h],
         \A k \in Groups : k # h => table[k] = allSettings[k]
  PROVE  Governs(g, c, table, KeyOrder(h))
<1>1. PICK p \in 1..Len(order) : order[p] = g /\ \A q \in (p+1)..Len(order) : c \notin DOMAIN allSettings[order[q]]
  BY DEF Governs
<1>2. \A q \in (p+1)..Len(order) : c \notin DOMAIN table[order[q]]
  <2> TAKE q \in (p+1)..Len(order)
  <2>1. order[q] \in Groups
    BY <1>1
  <2> QED BY <1>1, <2>1
<1>3. PICK o \in Seq(Groups) : o = Others(h) BY KeysOf
<1>4. KeyOrder(h) = Append(o, h) BY <1>3, KeysOf
<1>5. /\ Len(Append(o, h)) = Len(o) + 1 /\ Append(o, h)[Len(o) + 1] = h
      /\ \A i \in 1..Len(o) : Append(o, h)[i] = o[i]
  OBVIOUS
<1>6. CASE o = order
  <2>1. \A q \in (p+1)..(Len(o)+1) : c \notin DOMAIN table[Append(o, h)[q]]
    <3> TAKE q \in (p+1)..(Len(o)+1)
    <3>1. CASE q = Len(o) + 1 BY <1>5, <3>1
    <3>2. CASE q # Len(o) + 1
      <4>1. q \in (p+1)..Len(order) /\ q \in 1..Len(o) BY <1>1, <1>6, <3>2
      <4> QED BY <1>2, <1>5, <1>6, <4>1
    <3> QED BY <3>1, <3>2
  <2>2. p \in 1..(Len(o)+1) /\ Append(o, h)[p] = g BY <1>1, <1>5, <1>6
  <2> QED BY <1>4, <1>5, <2>1, <2>2 DEF Governs
<1>7. ASSUME NEW k \in 1..Len(order), order[k] = h, Len(o) = Len(order) - 1,
             \A i \in 1..(k-1) : o[i] = order[i],
             \A i \in k..(Len(order)-1) : o[i] = order[i+1]
      PROVE  Governs(g, c, table, KeyOrder(h))
  <2>1. p # k BY <1>1, <1>7
  <2>2. Len(order) \in Nat /\ p \in Nat /\ k \in Nat BY <1>7
  <2>3. PICK r \in 1..Len(o) : o[r] = g /\ \A q \in (r+1)..Len(o) : c \notin DOMAIN table[o[q]]
    <3>1. CASE p < k
      <4>1. p \in 1..(k-1) /\ p \in 1..Len(o) BY <1>7, <2>2, <3>1
      <4>2. \A q \in (p+1)..Len(o) : c \notin DOMAIN table[o[q]]
        <5> TAKE q \in (p+1)..Len(o)
        <5>1. CASE q < k
          <6>1. q \in 1..(k-1) /\ q \in (p+1)..Len(order) BY <1>7, <2>2, <5>1
          <6> QED BY <1>2, <1>7, <6>1
        <5>2. CASE q >= k
          <6>1. q \in k..(Len(order)-1) /\ q + 1 \in (p+1)..Len(order) BY <1>7, <2>2, <5>2
          <6> QED BY <1>2, <1>7, <6>1
        <5> QED BY <2>2, <5>1, <5>2
      <4> QED BY <1>1, <1>7, <4>1, <4>2
    <3>2. CASE p > k
      <4>1. p - 1 \in k..(Len(order)-1) /\ p - 1 \in 1..Len(o) /\ (p - 1) + 1 = p BY <1>1, <1>7, <2>2, <3>2
      <4>2. \A q \in p..Len(o) : c \notin DOMAIN table[o[q]]
        <5> TAKE q \in p..Len(o)
        <5>1. q \in k..(Len(order)-1) /\ q + 1 \in (p+1)..Len(order) BY <1>7, <2>2, <3>2
        <5> QED BY <1>2, <1>7, <5>1
      <4>3. PICK r \in 1..Len(o) : r = p - 1 /\ r \in k..(Len(order)-1) /\ r + 1 = p BY <4>1
      <4>4. o[r] = g BY <1>1, <1>7, <4>3
      <4> QED BY <4>2, <4>3, <4>4
    <3> QED BY <2>1, <2>2, <3>1, <3>2
  <2>4. r \in 1..(Len(o)+1) /\ Append(o, h)[r] = g BY <1>5, <2>3
  <2>5. \A q \in (r+1)..(Len(o)+1) : c \notin DOMAIN table[Append(o, h)[q]]
    <3> TAKE q \in (r+1)..(Len(o)+1)
    <3>1. CASE q = Len(o) + 1 BY <1>5, <3>1
    <3>2. CASE q # Len(o) + 1
      <4>1. q \in (r+1)..Len(o) /\ q \in 1..Len(o) BY <2>3, <3>2
      <4> QED BY <1>5, <2>3, <4>1
    <3> QED BY <3>1, <3>2
  <2> QED BY <1>4, <1>5, <2>4, <2>5 DEF Governs
<1> QED BY <1>3, <1>6, <1>7, KeysOf

-----------------------------------------------------------------------------
\* Less is muted, and what is shown and stored stays.
LEMMA LessMuted ==
  ASSUME SoundInv, UNCHANGED <<phone, cameraGroup, allSettings, order, listAudio, gridAudio>>,
         DOMAIN muted' = {"cams", "at"}, muted'.cams \subseteq muted.cams,
         muted'.cams # {} => muted'.at = muted.at,
         inSight' \subseteq Cams, menu' # Nobody => menu' \in Cams, soundDialog' # Nobody => soundDialog' \in Cams
  PROVE  SoundInv'
<1>1. SoundShapes'
  <2>1. muted'.cams \subseteq Cams BY DEF SoundInv, SoundShapes
  <2> QED BY <2>1 DEF SoundInv, SoundShapes
<1>2. Audio' = Audio
  BY DEF Audio, ShownAsList
<1>3. ASSUME NEW c \in muted'.cams
      PROVE  /\ Audio'[c] # "on" /\ (cameraGroup' = "default" <=> muted'.at = "default")
             /\ muted'.at # "default" => MutedThere(c)'
  <2>1. c \in muted.cams /\ muted'.at = muted.at
    BY <1>3
  <2>2. /\ Audio[c] # "on" /\ (cameraGroup = "default" <=> muted.at = "default")
        /\ muted.at # "default" => MutedThere(c)
    BY <2>1 DEF SoundInv, SilenceInv
  <2>3. MutedThere(c) => MutedThere(c)'
    BY <2>1 DEF MutedThere, Governs
  <2> QED BY <1>2, <2>1, <2>2, <2>3
<1>4. SilenceInv' BY <1>3 DEF SilenceInv
<1> QED BY <1>1, <1>4 DEF SoundInv

\* Nothing of the sound changes.
LEMMA SoundStays ==
  ASSUME SoundInv, UNCHANGED <<phone, cameraGroup, allSettings, order, listAudio, gridAudio, muted>>,
         inSight' \subseteq Cams, menu' # Nobody => menu' \in Cams, soundDialog' # Nobody => soundDialog' \in Cams
  PROVE  SoundInv'
<1>1. DOMAIN muted' = {"cams", "at"} /\ muted'.cams \subseteq muted.cams /\ muted'.at = muted.at
  BY DEF SoundInv, SoundShapes
<1> QED BY <1>1, LessMuted

\* The settings of a group are saved: s.  What stays muted is off in them, or not in them.
LEMMA SavedKeeps ==
  ASSUME SoundInv, NEW g \in Groups, cameraGroup = g, UNCHANGED <<phone, cameraGroup>>,
         NEW s, IsSettings(s), SetAll([allSettings EXCEPT ![g] = s], KeyOrder(g)),
         DOMAIN muted' = {"cams", "at"},
         \A c \in muted'.cams :
           \/ muted'.at = g /\ c \in DOMAIN s /\ s[c].playAudio # "on"
           \/ /\ muted'.at \in Groups \ {g} /\ c \in muted.cams /\ muted.at = muted'.at /\ c \notin DOMAIN s,
         inSight' \subseteq Cams, menu' # Nobody => menu' \in Cams, soundDialog' # Nobody => soundDialog' \in Cams
  PROVE  SoundInv'
<1>0. SoundShapes /\ SilenceInv BY DEF SoundInv
<1>1. PICK table : table = [allSettings EXCEPT ![g] = s] OBVIOUS
<1>2. PICK keys : keys = KeyOrder(g) OBVIOUS
<1>3. keys \in Seq(Groups) /\ order \in Seq(Groups) BY <1>0, <1>2, KeysOf DEF SoundShapes
<1>4. /\ table = [h \in Groups |-> table[h]] /\ table[g] = s
      /\ \A h \in Groups : h # g => table[h] = allSettings[h]
  BY <1>0, <1>1 DEF SoundShapes
<1>5. /\ allSettings' = table /\ order' = keys /\ listAudio' = AudioOf(table, keys) /\ gridAudio' = AudioOf(table, keys)
  BY <1>1, <1>2 DEF SetAll
<1>6. Audio' = AudioOf(table, keys)
  BY <1>5 DEF Audio, ShownAsList
<1>7. ASSUME NEW c \in muted'.cams
      PROVE  /\ c \in Cams /\ muted'.at \in Groups
             /\ c \in DOMAIN table[muted'.at] /\ table[muted'.at][c].playAudio # "on"
             /\ Governs(muted'.at, c, table, keys)
  <2>1. CASE muted'.at = g /\ c \in DOMAIN s /\ s[c].playAudio # "on"
    <3>1. Governs(g, c, table, keys) BY <1>2, <1>3, SavedGoverns
    <3> QED BY <1>4, <2>1, <3>1 DEF IsSettings
  <2>2. CASE muted'.at \in Groups \ {g} /\ c \in muted.cams /\ muted.at = muted'.at /\ c \notin DOMAIN s
    <3>1. muted.at # "default" BY <2>2, SoundAssumption
    <3>2. MutedThere(c) /\ c \in Cams BY <1>0, <2>2, <3>1 DEF SilenceInv, SoundShapes
    <3>3. /\ c \in DOMAIN allSettings[muted.at] /\ allSettings[muted.at][c].playAudio # "on"
          /\ Governs(muted.at, c, allSettings, order)
      BY <3>2 DEF MutedThere
    <3>4. Governs(muted.at, c, table, keys)
      BY <1>2, <1>3, <1>4, <2>2, <3>3, OthersGovern
    <3> QED BY <1>4, <2>2, <3>2, <3>3, <3>4
  <2> QED BY <1>7, <2>1, <2>2
<1>8. ASSUME NEW c \in muted'.cams
      PROVE  /\ Audio'[c] # "on" /\ (cameraGroup' = "default" <=> muted'.at = "default")
             /\ muted'.at # "default" => MutedThere(c)'
  <2>1. AudioOf(table, keys)[c] # "on"
    BY <1>3, <1>7, <1>8, GovernorsSound
  <2>2. muted'.at # "default" /\ cameraGroup' # "default" BY <1>7, <1>8, SoundAssumption
  <2>3. MutedThere(c)' BY <1>5, <1>7, <1>8 DEF MutedThere
  <2> QED BY <1>6, <2>1, <2>2, <2>3
<1>9. SilenceInv' BY <1>8 DEF SilenceInv
<1>10. SoundShapes'
  <2>1. muted'.cams \subseteq Cams BY <1>7
  <2>2. \A h \in Groups : IsSettings(table[h])
    BY <1>0, <1>4 DEF SoundShapes
  <2>3. AudioOf(table, keys) = [c \in Cams |-> AudioOf(table, keys)[c]]
    BY DEF AudioOf
  <2>4. /\ allSettings' = [h \in Groups |-> allSettings'[h]] /\ \A h \in Groups : IsSettings(allSettings'[h])
    BY <1>4, <1>5, <2>2
  <2>5. listAudio' = [c \in Cams |-> listAudio'[c]] /\ gridAudio' = [c \in Cams |-> gridAudio'[c]]
    BY <1>5, <2>3
  <2>6. cameraGroup' \in Groups \cup {"default"} /\ order' \in Seq(Groups) BY <1>3, <1>5
  <2>7. \A h \in Groups : IsSettings(allSettings[h])' BY <2>4 DEF IsSettings
  <2> QED BY <2>1, <2>4, <2>5, <2>6, <2>7 DEF SoundShapes
<1> QED BY <1>9, <1>10 DEF SoundInv

\* What the menu or the dialog of camera c saves of settings s.
LEMMA SettingsSaved ==
  ASSUME SoundShapes, NEW c \in Cams, NEW s, IsSettings(s), NEW t,
         c \in DOMAIN s => t = WithSound(c, s), c \notin DOMAIN s => t = Added(c, s)
  PROVE  /\ IsSettings(t) /\ DOMAIN t = DOMAIN s \cup {c}
         /\ \A d \in DOMAIN s : d # c => t[d] = s[d]
         /\ c \in DOMAIN s => t[c].playAudio \in {Audio[c], s[c].playAudio}
<1>1. CASE c \in DOMAIN s
  <2>1. PICK a : a = IF Audio[c] # "unset" THEN Audio[c] ELSE s[c].playAudio OBVIOUS
  <2>2. PICK v : v = IF Volume[c] # "unset" THEN Volume[c] ELSE s[c].volume OBVIOUS
  <2>3. PICK e : e = [s[c] EXCEPT !.playAudio = a] OBVIOUS
  <2>4. PICK f : f = [e EXCEPT !.volume = v] OBVIOUS
  <2>5. DOMAIN s[c] = {"streamType", "playAudio", "volume"} BY <1>1 DEF IsSettings
  <2>6. DOMAIN f = {"streamType", "playAudio", "volume"} /\ f.playAudio = a /\ e.volume = s[c].volume
    BY <2>3, <2>4, <2>5
  <2>7. WithSound(c, s) = [[s EXCEPT ![c] = e] EXCEPT ![c] = f]
    <3>1. PICK u : u = [s EXCEPT ![c] = e] OBVIOUS
    <3>2. u[c] = e /\ u[c].volume = s[c].volume BY <1>1, <2>6, <3>1
    <3> QED BY <2>1, <2>2, <2>3, <2>4, <3>1, <3>2 DEF WithSound
  <2>8. t = [s EXCEPT ![c] = f]
    BY <1>1, <2>7
  <2>9. DOMAIN t = DOMAIN s /\ t[c] = f /\ \A d \in DOMAIN s : d # c => t[d] = s[d]
    BY <1>1, <2>8
  <2>10. IsSettings(t) BY <2>6, <2>9 DEF IsSettings
  <2>11. t[c].playAudio \in {Audio[c], s[c].playAudio} BY <2>1, <2>6, <2>9
  <2> QED BY <1>1, <2>9, <2>10, <2>11
<1>2. CASE c \notin DOMAIN s
  <2>1. t = Added(c, s) BY <1>2
  <2>2. PICK e : e = [streamType |-> "smart", playAudio |-> Audio[c],
           volume |-> IF Volume[c] # "unset" THEN Volume[c] ELSE "full"] OBVIOUS
  <2>3. DOMAIN e = {"streamType", "playAudio", "volume"} BY <2>2
  <2>4. t = [d \in DOMAIN s \cup {c} |-> IF d \in DOMAIN s THEN s[d] ELSE e] BY <2>1, <2>2 DEF Added
  <2>5. DOMAIN t = DOMAIN s \cup {c} /\ t[c] = e /\ \A d \in DOMAIN s : t[d] = s[d] BY <1>2, <2>4
  <2>6. IsSettings(t) BY <2>3, <2>5 DEF IsSettings
  <2> QED BY <1>2, <2>5, <2>6
<1> QED BY <1>1, <1>2

-----------------------------------------------------------------------------
\* Saving what a menu or a dialog holds: in the group in which cameras were muted, they are off.
LEMMA OnSaveKeeps ==
  ASSUME SoundInv, NEW c \in Cams, NEW defined, NEW s, OnSave(c, defined, s), muted' = Governed,
         cameraGroup # "default" =>
           /\ IsSettings(s)
           /\ muted.at = cameraGroup => \A d \in muted.cams : d \in DOMAIN s /\ s[d].playAudio # "on",
         UNCHANGED <<phone, cameraGroup, inSight>>, menu' # Nobody => menu' \in Cams, soundDialog' # Nobody => soundDialog' \in Cams
  PROVE  SoundInv'
<1>0. SoundShapes /\ SilenceInv BY DEF SoundInv
<1>1. /\ DOMAIN muted' = {"cams", "at"} /\ muted'.at = muted.at /\ muted'.cams \subseteq muted.cams
      /\ cameraGroup \notin {"default", muted.at} => muted'.cams = muted.cams \ DOMAIN allSettings'[cameraGroup]
  <2>1. DOMAIN muted = {"cams", "at"} BY <1>0 DEF SoundShapes
  <2> QED BY <2>1 DEF Governed
<1>2. inSight' \subseteq Cams BY <1>0 DEF SoundShapes
<1>3. CASE cameraGroup = "default" \/ ~defined
  <2>1. UNCHANGED <<allSettings, order, listAudio, gridAudio>>
    BY <1>3 DEF OnSave, soundStates
  <2> QED BY <1>1, <1>2, <2>1, LessMuted
<1>4. CASE cameraGroup # "default" /\ defined
  <2> DEFINE g == cameraGroup
  <2>1. g \in Groups BY <1>0, <1>4 DEF SoundShapes
  <2>2. PICK t : t = IF c \in DOMAIN s THEN WithSound(c, s) ELSE Added(c, s) OBVIOUS
  <2>3. SetAll([allSettings EXCEPT ![g] = t], KeyOrder(g)) BY <1>4, <2>2 DEF OnSave
  <2>4. /\ IsSettings(t) /\ DOMAIN t = DOMAIN s \cup {c}
        /\ \A d \in DOMAIN s : d # c => t[d] = s[d]
        /\ c \in DOMAIN s => t[c].playAudio \in {Audio[c], s[c].playAudio}
    <3>1. IsSettings(s) BY <1>4
    <3>2. SoundShapes BY <1>0
    <3>3. (c \in DOMAIN s => t = WithSound(c, s)) /\ (c \notin DOMAIN s => t = Added(c, s)) BY <2>2
    <3> QED BY <3>1, <3>2, <3>3, SettingsSaved
  <2>5. allSettings'[g] = t
    <3>1. allSettings' = [allSettings EXCEPT ![g] = t] /\ DOMAIN allSettings = Groups
      BY <1>0, <2>3 DEF SetAll, SoundShapes
    <3> QED BY <2>1, <3>1
  <2>6. ASSUME NEW d \in muted'.cams
        PROVE  \/ muted'.at = g /\ d \in DOMAIN t /\ t[d].playAudio # "on"
               \/ muted'.at \in Groups \ {g} /\ d \in muted.cams /\ muted.at = muted'.at /\ d \notin DOMAIN t
    <3>1. d \in muted.cams /\ muted'.at = muted.at BY <1>1, <2>6
    <3>2. Audio[d] # "on" /\ muted.at # "default" BY <1>0, <1>4, <3>1 DEF SilenceInv
    <3>3. CASE muted.at = g
      <4>1. d \in DOMAIN s /\ s[d].playAudio # "on" BY <1>4, <3>1, <3>3
      <4>2. t[d].playAudio # "on" BY <2>4, <3>2, <4>1
      <4> QED BY <2>4, <3>1, <3>3, <4>1, <4>2
    <3>4. CASE muted.at # g
      <4>1. d \notin DOMAIN t BY <1>1, <1>4, <2>5, <2>6, <3>4
      <4>2. muted.at \in Groups BY <1>0, <3>1, <3>2 DEF SilenceInv, MutedThere
      <4> QED BY <3>1, <3>4, <4>1, <4>2
    <3> QED BY <3>3, <3>4
  <2> HIDE DEF g
  <2>7. cameraGroup = g BY DEF g
  <2> QED BY <1>1, <1>2, <2>1, <2>3, <2>4, <2>6, <2>7, SavedKeeps
<1> QED BY <1>3, <1>4

LEMMA MenuKeeps == ASSUME SoundInv, HandleOpenChange PROVE SoundInv'
<1>0. SoundShapes /\ SilenceInv BY DEF SoundInv
<1>1. menu \in Cams /\ menu' = Nobody /\ UNCHANGED <<phone, cameraGroup, inSight, soundDialog>>
  BY <1>0 DEF HandleOpenChange, SoundShapes
<1>2. inSight' \subseteq Cams /\ (soundDialog' # Nobody => soundDialog' \in Cams) BY <1>0, <1>1 DEF SoundShapes
<1>3. CASE ~used
  <2>1. UNCHANGED <<allSettings, order, listAudio, gridAudio, muted>> BY <1>3 DEF HandleOpenChange, soundStates
  <2> QED BY <1>1, <1>2, <2>1, SoundStays
<1>4. CASE used
  <2>1. PICK s : s = IF cameraGroup = "default" THEN NoSettings ELSE allSettings[cameraGroup] OBVIOUS
  <2>2. OnSave(menu, HasSettings(cameraGroup), s) /\ muted' = Governed BY <1>4, <2>1 DEF HandleOpenChange
  <2>3. ASSUME cameraGroup # "default"
        PROVE  /\ IsSettings(s)
               /\ muted.at = cameraGroup => \A d \in muted.cams : d \in DOMAIN s /\ s[d].playAudio # "on"
    <3>1. s = allSettings[cameraGroup] /\ cameraGroup \in Groups BY <1>0, <2>1, <2>3 DEF SoundShapes
    <3>2. muted.at = cameraGroup => \A d \in muted.cams : MutedThere(d) BY <1>0, <2>3 DEF SilenceInv
    <3> QED BY <1>0, <3>1, <3>2 DEF SoundShapes, MutedThere
  <2> QED BY <1>1, <1>2, <2>2, <2>3, OnSaveKeeps
<1> QED BY <1>3, <1>4

LEMMA DialogSaveKeeps == ASSUME SoundInv, HandleSave PROVE SoundInv'
<1>0. SoundShapes /\ SilenceInv BY DEF SoundInv
<1>1. soundDialog \in Cams /\ soundDialog' = Nobody /\ UNCHANGED <<phone, cameraGroup, inSight, menu>>
  BY <1>0 DEF HandleSave, SoundShapes
<1>2. menu' # Nobody => menu' \in Cams BY <1>0, <1>1 DEF SoundShapes
<1>3. PICK own : own = allSettings[cameraGroup] OBVIOUS
<1>4. PICK saved : saved =
        [streamType |-> soundForm.streamType,
         playAudio |-> IF soundDialog \in DOMAIN own /\ own[soundDialog].playAudio = "on" THEN "on" ELSE "off",
         volume |-> IF soundDialog \in DOMAIN own THEN own[soundDialog].volume ELSE "full"] OBVIOUS
<1>5. PICK s : s = [d \in DOMAIN own \cup {soundDialog} |-> IF d = soundDialog THEN saved ELSE own[d]] OBVIOUS
<1>6. OnSave(soundDialog, TRUE, s) /\ muted' = Governed
  BY <1>3, <1>4, <1>5 DEF HandleSave
<1>7. ASSUME cameraGroup # "default"
      PROVE  /\ IsSettings(s)
             /\ muted.at = cameraGroup => \A d \in muted.cams : d \in DOMAIN s /\ s[d].playAudio # "on"
  <2>1. cameraGroup \in Groups BY <1>0, <1>7 DEF SoundShapes
  <2>2. IsSettings(own) BY <1>0, <1>3, <2>1 DEF SoundShapes
  <2>3. DOMAIN saved = {"streamType", "playAudio", "volume"} BY <1>4
  <2>4. /\ DOMAIN s = DOMAIN own \cup {soundDialog} /\ s[soundDialog] = saved
        /\ \A d \in DOMAIN own : d # soundDialog => s[d] = own[d]
    BY <1>5
  <2>5. IsSettings(s) BY <1>1, <2>2, <2>3, <2>4 DEF IsSettings
  <2>6. ASSUME muted.at = cameraGroup, NEW d \in muted.cams PROVE d \in DOMAIN s /\ s[d].playAudio # "on"
    <3>1. d \in DOMAIN own /\ own[d].playAudio # "on"
      BY <1>0, <1>3, <1>7, <2>6 DEF SilenceInv, MutedThere
    <3>2. d = soundDialog => saved.playAudio = "off" BY <1>4, <3>1
    <3> QED BY <2>4, <3>1, <3>2
  <2> QED BY <2>5, <2>6
<1> QED BY <1>1, <1>2, <1>6, <1>7, OnSaveKeeps

LEMMA MuteKeeps == ASSUME SoundInv, NEW sound \in {"on", "off"}, MuteAll(sound) PROVE SoundInv'
<1>0. SoundShapes /\ SilenceInv BY DEF SoundInv
<1>1. UNCHANGED <<phone, cameraGroup, inSight, menu, soundDialog>> BY DEF MuteAll
<1>2. /\ inSight' \subseteq Cams /\ (menu' # Nobody => menu' \in Cams)
      /\ (soundDialog' # Nobody => soundDialog' \in Cams)
  BY <1>0, <1>1 DEF SoundShapes
<1>3. PICK states : /\ OnSaveMuting(sound, states) /\ DOMAIN states = Cams /\ states = [c \in Cams |-> states[c]]
                    /\ ShownAsList => \A c \in Cams : states[c] = IF c \in inSight THEN sound ELSE "unset"
  BY DEF MuteAll, MuteList, MuteGrid
<1>4. muted' = IF sound = "on" THEN NoneMuted
               ELSE [cams |-> IF cameraGroup = "default" THEN inSight ELSE DOMAIN allSettings[cameraGroup],
                     at |-> cameraGroup]
  BY DEF MuteAll
<1>5. DOMAIN muted' = {"cams", "at"} BY <1>4 DEF NoneMuted
<1>6. CASE cameraGroup = "default"
  <2>1. ShownAsList /\ ShownAsList' BY <1>1, <1>6 DEF ShownAsList
  <2>2. listAudio' = states /\ UNCHANGED <<gridAudio, allSettings, order>>
    BY <1>3, <1>6, <2>1 DEF OnSaveMuting, SetAudio
  <2>3. Audio' = states BY <2>1, <2>2 DEF Audio
  <2>4. muted'.cams \subseteq inSight /\ muted'.at = "default" /\ (sound = "on" => muted'.cams = {})
    BY <1>4, <1>6 DEF NoneMuted
  <2>5. SoundShapes'
    <3>1. muted'.cams \subseteq Cams BY <1>0, <2>4 DEF SoundShapes
    <3> QED BY <1>0, <1>1, <1>2, <1>3, <1>5, <2>2, <3>1 DEF SoundShapes
  <2>6. SilenceInv'
    <3>1. \A c \in muted'.cams : Audio'[c] # "on"
      BY <1>0, <1>3, <2>1, <2>3, <2>4 DEF SoundShapes
    <3>2. cameraGroup' = "default" BY <1>1, <1>6
    <3> QED BY <2>4, <3>1, <3>2 DEF SilenceInv
  <2> QED BY <2>5, <2>6 DEF SoundInv
<1>7. CASE cameraGroup # "default"
  <2>1. cameraGroup \in Groups BY <1>0, <1>7 DEF SoundShapes
  <2>2. PICK own : own = allSettings[cameraGroup] /\ IsSettings(own) BY <1>0, <2>1 DEF SoundShapes
  <2>3. PICK s : s = [c \in DOMAIN own |-> [own[c] EXCEPT !.playAudio = sound]] OBVIOUS
  <2>4. \A c \in DOMAIN own : DOMAIN s[c] = {"streamType", "playAudio", "volume"} /\ s[c].playAudio = sound
    <3> TAKE c \in DOMAIN own
    <3>1. DOMAIN own[c] = {"streamType", "playAudio", "volume"} BY <2>2 DEF IsSettings
    <3>2. s[c] = [own[c] EXCEPT !.playAudio = sound] BY <2>3
    <3> QED BY <3>1, <3>2
  <2>5. IsSettings(s) /\ DOMAIN s = DOMAIN own BY <2>2, <2>3, <2>4 DEF IsSettings
  <2>6. SetAll([allSettings EXCEPT ![cameraGroup] = s], KeyOrder(cameraGroup))
    BY <1>3, <1>7, <2>2, <2>3 DEF OnSaveMuting
  <2>7. \A c \in muted'.cams : muted'.at = cameraGroup /\ c \in DOMAIN s /\ s[c].playAudio # "on"
    BY <1>4, <1>7, <2>2, <2>4, <2>5 DEF NoneMuted
  <2>8. PICK g \in Groups : g = cameraGroup BY <2>1
  <2>9. UNCHANGED <<phone, cameraGroup>> BY <1>1
  <2>10. SetAll([allSettings EXCEPT ![g] = s], KeyOrder(g)) BY <2>6, <2>8
  <2>11. \A c \in muted'.cams :
           \/ muted'.at = g /\ c \in DOMAIN s /\ s[c].playAudio # "on"
           \/ /\ muted'.at \in Groups \ {g} /\ c \in muted.cams /\ muted.at = muted'.at /\ c \notin DOMAIN s
    BY <2>7, <2>8
  <2> QED BY <1>2, <1>5, <2>5, <2>8, <2>9, <2>10, <2>11, SavedKeeps
<1> QED BY <1>6, <1>7

\* Nothing is muted any more.
LEMMA UnmutedKeeps ==
  ASSUME SoundShapes, muted' = NoneMuted, cameraGroup' \in Groups \cup {"default"}, order' \in Seq(Groups),
         allSettings' = [g \in Groups |-> allSettings'[g]], \A g \in Groups : IsSettings(allSettings'[g]),
         listAudio' = [c \in Cams |-> listAudio'[c]], gridAudio' = [c \in Cams |-> gridAudio'[c]],
         UNCHANGED <<inSight, menu, soundDialog>>
  PROVE  SoundInv'
<1>1. muted'.cams = {} /\ DOMAIN muted' = {"cams", "at"} BY DEF NoneMuted
<1>2. SilenceInv' BY <1>1 DEF SilenceInv
<1>3. \A g \in Groups : IsSettings(allSettings[g])' BY DEF IsSettings
<1>4. SoundShapes' BY <1>1, <1>3 DEF SoundShapes
<1> QED BY <1>2, <1>4 DEF SoundInv

LEMMA SettingsLoadedKeeps == ASSUME SoundInv, Loaded, browserKept \in Seq(Groups) PROVE SoundInv'
<1>0. SoundShapes BY DEF SoundInv
<1>1. UNCHANGED <<phone, cameraGroup, inSight, menu, soundDialog>> BY DEF Loaded
<1>2. CASE browserKept = <<>>
  <2>1. UNCHANGED <<allSettings, order, listAudio, gridAudio, muted>> BY <1>2 DEF Loaded, soundStates
  <2> QED BY <1>0, <1>1, <2>1, SoundStays DEF SoundShapes
<1>3. CASE browserKept # <<>>
  <2>1. /\ allSettings' = [g \in Groups |-> WithEverySound(g)] /\ order' = browserKept /\ muted' = NoneMuted
        /\ listAudio' = AudioOf([g \in Groups |-> WithEverySound(g)], browserKept) /\ gridAudio' = listAudio'
    BY <1>3 DEF Loaded, SetAll
  <2>2. \A g \in Groups : IsSettings(WithEverySound(g))
    <3> TAKE g \in Groups
    <3>1. IsSettings(NoSettings) BY DEF IsSettings, NoSettings
    <3>2. PICK e : e = [streamType |-> "smart", playAudio |-> "on", volume |-> "full"] OBVIOUS
    <3>3. DOMAIN e = {"streamType", "playAudio", "volume"} BY <3>2
    <3>4. IsSettings([c \in Cams |-> e]) BY <3>3 DEF IsSettings
    <3> QED BY <3>1, <3>2, <3>4 DEF WithEverySound
  <2>3. allSettings' = [g \in Groups |-> allSettings'[g]] /\ \A g \in Groups : IsSettings(allSettings'[g])
    BY <2>1, <2>2
  <2>4. listAudio' = [c \in Cams |-> listAudio'[c]] /\ gridAudio' = [c \in Cams |-> gridAudio'[c]]
    BY <2>1 DEF AudioOf
  <2>5. cameraGroup' \in Groups \cup {"default"} BY <1>0, <1>1 DEF SoundShapes
  <2> QED BY <1>0, <1>1, <2>1, <2>3, <2>4, <2>5, UnmutedKeeps
<1> QED BY <1>2, <1>3

LEMMA SelectKeeps == ASSUME SoundInv, SelectGroup PROVE SoundInv'
<1>0. SoundShapes /\ SilenceInv BY DEF SoundInv
<1>1. PICK g \in (Groups \cup {"default"}) \ {cameraGroup} :
        /\ cameraGroup' = g
        /\ IF cameraGroup = "default"
           THEN gridAudio' = AudioOf(allSettings, order) /\ muted' = NoneMuted
           ELSE UNCHANGED gridAudio /\ muted' = IF g = "default" THEN NoneMuted ELSE muted
  BY DEF SelectGroup
<1>2. UNCHANGED <<phone, allSettings, order, listAudio, inSight, menu, soundDialog>>
  BY DEF SelectGroup, soundSettings
<1>3. gridAudio' = [c \in Cams |-> gridAudio'[c]] /\ listAudio' = [c \in Cams |-> listAudio'[c]]
  BY <1>0, <1>1, <1>2 DEF SoundShapes, AudioOf
<1>4. CASE muted' = NoneMuted
  BY <1>0, <1>1, <1>2, <1>3, <1>4, UnmutedKeeps DEF SoundShapes
<1>5. CASE muted' # NoneMuted
  <2>1. cameraGroup # "default" /\ g # "default" /\ UNCHANGED <<gridAudio, muted>> BY <1>1, <1>5
  <2>2. Audio' = Audio BY <1>1, <1>2, <2>1 DEF Audio, ShownAsList
  <2>3. ASSUME NEW c \in muted'.cams
        PROVE  /\ Audio'[c] # "on" /\ (cameraGroup' = "default" <=> muted'.at = "default")
               /\ muted'.at # "default" => MutedThere(c)'
    <3>1. /\ Audio[c] # "on" /\ (cameraGroup = "default" <=> muted.at = "default")
          /\ muted.at # "default" => MutedThere(c)
      BY <1>0, <2>1, <2>3 DEF SilenceInv
    <3>2. MutedThere(c) => MutedThere(c)' BY <1>2, <2>1 DEF MutedThere, Governs
    <3> QED BY <1>1, <2>1, <2>2, <3>1, <3>2
  <2>4. SilenceInv' BY <2>3 DEF SilenceInv
  <2>5. SoundShapes' BY <1>0, <1>1, <1>2, <1>3, <2>1 DEF SoundShapes
  <2> QED BY <2>4, <2>5 DEF SoundInv
<1> QED BY <1>4, <1>5

LEMMA IconKeeps == ASSUME SoundInv, HandleVolumeIconClick PROVE SoundInv'
<1>0. SoundShapes /\ SilenceInv BY DEF SoundInv
<1>1. /\ UNCHANGED <<phone, cameraGroup, allSettings, order, inSight, menu, soundDialog>> /\ menu \in Cams
      /\ SetAudio([Audio EXCEPT ![menu] = Flip(@)]) /\ muted' = [muted EXCEPT !.cams = @ \ {menu}]
  BY <1>0 DEF HandleVolumeIconClick, soundSettings, SoundShapes
<1>2. PICK f : f = [Audio EXCEPT ![menu] = Flip(@)] OBVIOUS
<1>3. Audio = [c \in Cams |-> Audio[c]] BY <1>0 DEF SoundShapes, Audio
<1>4. f = [c \in Cams |-> f[c]] /\ \A c \in Cams \ {menu} : f[c] = Audio[c] BY <1>2, <1>3
<1>5. Audio' = f /\ listAudio' \in {listAudio, f} /\ gridAudio' \in {gridAudio, f}
  BY <1>1, <1>2 DEF SetAudio, Audio, ShownAsList
<1>6. DOMAIN muted' = {"cams", "at"} /\ muted'.cams = muted.cams \ {menu} /\ muted'.at = muted.at
  BY <1>0, <1>1 DEF SoundShapes
<1>7. ASSUME NEW c \in muted'.cams
      PROVE  /\ Audio'[c] # "on" /\ (cameraGroup' = "default" <=> muted'.at = "default")
             /\ muted'.at # "default" => MutedThere(c)'
  <2>1. c \in muted.cams /\ c # menu /\ c \in Cams BY <1>0, <1>6, <1>7 DEF SoundShapes
  <2>2. /\ Audio[c] # "on" /\ (cameraGroup = "default" <=> muted.at = "default")
        /\ muted.at # "default" => MutedThere(c)
    BY <1>0, <2>1 DEF SilenceInv
  <2>3. MutedThere(c) => MutedThere(c)' BY <1>1, <1>6 DEF MutedThere, Governs
  <2> QED BY <1>1, <1>4, <1>5, <1>6, <2>1, <2>2, <2>3
<1>8. SilenceInv' BY <1>7 DEF SilenceInv
<1>9. listAudio' = [c \in Cams |-> listAudio'[c]] /\ gridAudio' = [c \in Cams |-> gridAudio'[c]]
  BY <1>0, <1>4, <1>5 DEF SoundShapes
<1>10. SoundShapes'
  <2>1. muted'.cams \subseteq Cams BY <1>0, <1>6 DEF SoundShapes
  <2> QED BY <1>0, <1>1, <1>6, <1>9, <2>1 DEF SoundShapes
<1> QED BY <1>8, <1>10 DEF SoundInv

-----------------------------------------------------------------------------
LEMMA OtherSoundKeeps ==
  ASSUME SoundInv,
         \/ Scroll \/ (\E c \in Cams : OpenMenu(c)) \/ HandleVolumeChange \/ MenuItem \/ ChooseFields
         \/ HandleCancel \/ (\E item \in {"unsuspend", "minutes", "off"} : HandleSuspend(item))
         \/ ServerNotify \/ NotifyMessage \/ UNCHANGED soundVars
  PROVE  SoundInv'
<1>0. SoundShapes BY DEF SoundInv
<1>1. UNCHANGED <<phone, cameraGroup, allSettings, order, listAudio, gridAudio, muted>>
  BY DEF Scroll, OpenMenu, HandleVolumeChange, MenuItem, ChooseFields, HandleCancel, HandleSuspend, ServerNotify,
         NotifyMessage, soundVars, soundSettings, soundStates
<1>2. inSight' \subseteq Cams
  <2>1. CASE Scroll
    <3>1. PICK c \in Cams : inSight' = (inSight \ {c}) \cup ({c} \ inSight) BY <2>1 DEF Scroll
    <3> QED BY <1>0, <3>1 DEF SoundShapes
  <2>2. CASE ~Scroll
    <3>1. UNCHANGED inSight
      BY <2>2 DEF OpenMenu, HandleVolumeChange, MenuItem, ChooseFields, HandleCancel, HandleSuspend, ServerNotify,
                  NotifyMessage, soundVars
    <3> QED BY <1>0, <3>1 DEF SoundShapes
  <2> QED BY <2>1, <2>2
<1>3. (\E c \in Cams : menu' = c) \/ menu' = menu \/ menu' = Nobody
  BY DEF Scroll, OpenMenu, HandleVolumeChange, MenuItem, ChooseFields, HandleCancel, HandleSuspend, ServerNotify,
         NotifyMessage, soundVars
<1>4. soundDialog' \in {soundDialog, Nobody} \/ (soundDialog' = menu /\ menu # Nobody)
  BY DEF Scroll, OpenMenu, HandleVolumeChange, MenuItem, ChooseFields, HandleCancel, HandleSuspend, ServerNotify,
         NotifyMessage, soundVars
<1>5. (menu' # Nobody => menu' \in Cams) /\ (soundDialog' # Nobody => soundDialog' \in Cams)
  BY <1>0, <1>3, <1>4 DEF SoundShapes
<1> QED BY <1>1, <1>2, <1>5, SoundStays

\* Each group has settings of its own for the cameras that it shares with others, and the group
\* saved last governs them; "mute all" is nevertheless undone by no way to another group and by
\* no save in its own group (LiveDashboardView.tsx:293-349, DraggableGridLayout.tsx:413-472,
\* LiveContextMenu.tsx:114-170), for any cameras, groups and number of clicks.
THEOREM MutedStaysMuted == SoundSpec => []MuteAllHolds
<1> DEFINE SoundKept == SoundInv /\ browserKept \in Seq(Groups)
<1>1. SoundInit => SoundKept
  <2> SUFFICES ASSUME SoundInit PROVE SoundKept
    OBVIOUS
  <2>1. browserKept \in Seq(Groups)
    <3>1. browserKept \in FirstKept BY DEF SoundInit
    <3>2. CASE browserKept = <<>> BY <3>2
    <3>3. CASE \E g \in Groups : browserKept = <<g>> BY <3>3
    <3>4. CASE browserKept \in Groups \X Groups
      <4>1. PICK g \in Groups, h \in Groups : browserKept = <<g, h>> BY <3>4
      <4> QED BY <4>1
    <3> QED BY <3>1, <3>2, <3>3, <3>4 DEF FirstKept
  <2>2. muted.cams = {} /\ DOMAIN muted = {"cams", "at"} BY DEF SoundInit, NoneMuted
  <2>3. allSettings = [g \in Groups |-> allSettings[g]] /\ \A g \in Groups : IsSettings(allSettings[g])
    <3>1. IsSettings(NoSettings) BY DEF IsSettings, NoSettings
    <3> QED BY <3>1 DEF SoundInit
  <2>4. listAudio = [c \in Cams |-> listAudio[c]] /\ gridAudio = [c \in Cams |-> gridAudio[c]]
    BY DEF SoundInit
  <2>5. SoundShapes BY <2>2, <2>3, <2>4 DEF SoundInit, SoundShapes
  <2> QED BY <2>1, <2>2, <2>5 DEF SoundInv, SilenceInv
<1>2. SoundKept /\ [SoundNext]_soundVars => SoundKept'
  <2> SUFFICES ASSUME SoundKept, [SoundNext]_soundVars PROVE SoundKept'
    OBVIOUS
  <2>1. SoundInv'
    BY SettingsLoadedKeeps, SelectKeeps, IconKeeps, MenuKeeps, DialogSaveKeeps, MuteKeeps, OtherSoundKeeps DEF SoundNext
  <2>2. browserKept' = browserKept
    BY DEF SoundNext, Loaded, SelectGroup, Scroll, OpenMenu, HandleVolumeIconClick, HandleVolumeChange,
           HandleOpenChange, MenuItem, MuteAll, ChooseFields, HandleSave, HandleCancel, HandleSuspend, ServerNotify,
           NotifyMessage, soundVars, soundSettings
  <2> QED BY <2>1, <2>2
<1>3. SoundKept => MuteAllHolds
  BY DEF SoundInv, SilenceInv, MuteAllHolds
<1> QED BY <1>1, <1>2, <1>3, PTL DEF SoundSpec
=================================================================================
