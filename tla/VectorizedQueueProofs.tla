------------------------ MODULE VectorizedQueueProofs ------------------------
(***************************************************************************)
(* What vectorized_queue promises for any values and any number of cells.  *)
(***************************************************************************)
EXTENDS VectorizedQueue, FiniteSetTheorems, TLAPS

\* Leaves are proved by Zenon, unless they name another prover.
USE ZenonT(30)
-----------------------------------------------------------------------------
(* Sequences of cells. *)

Links == Nat \union {empty}

\* A sequence has its elements at the places from 1 to its length.
LEMMA Places ==
  ASSUME NEW S, NEW s \in Seq(S)
  PROVE  /\ Len(s) \in Nat
         /\ DOMAIN s = 1 .. Len(s)
         /\ \A i \in 1 .. Len(s) : s[i] \in S
  BY SMTT(30)

\* A function of the places from 1 to n is a sequence of length n.
LEMMA IsSequence ==
  ASSUME NEW S, NEW n \in Nat, NEW f \in [1 .. n -> S]
  PROVE  f \in Seq(S) /\ Len(f) = n
<1>1. \A i \in 1 .. n : f[i] \in S
  OBVIOUS
<1>2. [i \in 1 .. n |-> f[i]] \in Seq(S) /\ Len([i \in 1 .. n |-> f[i]]) = n
  BY SMTT(30), <1>1
<1>3. f = [i \in 1 .. n |-> f[i]]
  OBVIOUS
<1>. QED
  BY <1>2, <1>3

\* Without drops one place of a list and moves the later ones up.
LEMMA WithoutIs ==
  ASSUME NEW S, NEW s \in Seq(S), NEW p \in 1 .. Len(s)
  PROVE  /\ Without(s, p) \in Seq(S)
         /\ Len(Without(s, p)) = Len(s) - 1
         /\ \A j \in 1 .. Len(s) - 1 : Without(s, p)[j] = IF j < p THEN s[j] ELSE s[j + 1]
<1>1. Len(s) - 1 \in Nat /\ \A j \in 1 .. Len(s) - 1 : j \in 1 .. Len(s) /\ j + 1 \in 1 .. Len(s)
  BY SMTT(30), Places
<1>2. \A j \in 1 .. Len(s) - 1 : (IF j < p THEN s[j] ELSE s[j + 1]) \in S
  BY <1>1, Places
<1>3. Without(s, p) \in [1 .. Len(s) - 1 -> S]
  BY <1>2 DEF Without
<1>4. Without(s, p) \in Seq(S) /\ Len(Without(s, p)) = Len(s) - 1
  BY <1>1, <1>3, IsSequence
<1>. QED
  BY <1>4 DEF Without

\* What Tail drops and what it moves.
LEMMA TailIs ==
  ASSUME NEW S, NEW s \in Seq(S), s # <<>>
  PROVE  /\ Tail(s) \in Seq(S)
         /\ Len(s) >= 1
         /\ Len(Tail(s)) = Len(s) - 1
         /\ \A j \in 1 .. Len(s) - 1 : Tail(s)[j] = s[j + 1]
  BY SMTT(30)
-----------------------------------------------------------------------------
(* Links of cells. *)

Cells == [value : {<<>>} \union {<<value>> : value \in Values}, previous : Links, next : Links]

\* A cell taken out between two others, of which empty is none.
LEMMA UnlinkIs ==
  ASSUME data \in [DOMAIN data -> Cells], empty \notin DOMAIN data,
         NEW before \in Links, before \in DOMAIN data \/ before = empty,
         NEW after \in Links, after \in DOMAIN data \/ after = empty,
         NEW e, e = SetPrevious(SetNext(data, before, after), after, before)
  PROVE  /\ e \in [DOMAIN data -> Cells]
         /\ \A x \in DOMAIN data :
              /\ e[x].value = data[x].value
              /\ e[x].next = IF x = before THEN after ELSE data[x].next
              /\ e[x].previous = IF x = after THEN before ELSE data[x].previous
<1> DEFINE D == DOMAIN data
           one == SetNext(data, before, after)
<1>1. /\ one \in [D -> Cells]
      /\ \A x \in D : /\ one[x].value = data[x].value
                      /\ one[x].previous = data[x].previous
                      /\ one[x].next = IF x = before THEN after ELSE data[x].next
  BY SMTT(30) DEF SetNext, Cells
<1>2. e = SetPrevious(one, after, before)
  OBVIOUS
<1>3. after \in D \/ after = empty
  OBVIOUS
<1>4. empty \notin D
  OBVIOUS
<1>. HIDE DEF one, D
<1>5. e \in [D -> Cells]
  <2>1. CASE after = empty
    BY <1>1, <1>2, <2>1 DEF SetPrevious
  <2>2. CASE after # empty /\ after \in D
    <3>1. [one[after] EXCEPT !.previous = before] \in Cells
      BY SMTT(30), <1>1, <2>2 DEF Cells
    <3>2. e = [one EXCEPT ![after] = [one[after] EXCEPT !.previous = before]]
      BY <1>2, <2>2 DEF SetPrevious
    <3>. QED
      BY <1>1, <3>1, <3>2
  <2>. QED
    BY <1>3, <2>1, <2>2
<1>6. \A x \in D : /\ e[x].value = one[x].value
                   /\ e[x].next = one[x].next
                   /\ e[x].previous = IF x = after THEN before ELSE one[x].previous
  BY SMTT(30), <1>1, <1>2, <1>3, <1>4 DEF SetPrevious, Cells
<1>. QED
  BY <1>1, <1>5, <1>6 DEF D

\* An array of n cells has the indexes below n.
LEMMA SizeIs == \A n \in Nat : Cardinality(0 .. n - 1) = n
  BY SMTT(30), FS_Interval

\* At is the cell at a place of a list, and empty where there is none.
LEMMA AtIs ==
  ASSUME NEW s \in Seq(Nat), NEW i \in Int
  PROVE  /\ i \in 1 .. Len(s) => At(s, i) = s[i]
         /\ i \notin 1 .. Len(s) => At(s, i) = empty
         /\ At(s, i) \in Links
  BY Places DEF At, Links
-----------------------------------------------------------------------------
(* The invariant: the two lists are what the histories say, and no cell is *)
(* in both, or twice in one.                                               *)

TypeOK ==
  /\ Size \in Nat
  /\ data \in [0 .. Size - 1 -> Cells]
  /\ occupied \in Seq(Nat)
  /\ unused \in Seq(Nat)

Filled == \A i \in 1 .. Len(occupied) : /\ occupied[i] \in DOMAIN data
                                        /\ data[occupied[i]].value # <<>>

Chained ==
  /\ first_free_cell = At(unused, 1)
  /\ \A i \in 1 .. Len(unused) : /\ unused[i] \in DOMAIN data
                                 /\ data[unused[i]].next = At(unused, i + 1)
                                 /\ data[unused[i]].previous = unused[i]

Apart ==
  /\ \A i, j \in 1 .. Len(occupied) : occupied[i] = occupied[j] => i = j
  /\ \A i, j \in 1 .. Len(unused) : unused[i] = unused[j] => i = j
  /\ \A i \in 1 .. Len(occupied), j \in 1 .. Len(unused) : occupied[i] # unused[j]

Covered ==
  \A x \in DOMAIN data : \/ \E i \in 1 .. Len(occupied) : occupied[i] = x
                         \/ \E i \in 1 .. Len(unused) : unused[i] = x

Inv == TypeOK /\ ListIsSymmetric /\ Filled /\ Chained /\ Apart /\ Covered

\* Linked in both directions at every place, ListIsSymmetric spelled out.
LEMMA Linked ==
  ASSUME Inv
  PROVE  /\ DOMAIN data = 0 .. Size - 1 /\ 0 .. Size - 1 \in SUBSET Nat
         /\ \A i \in 1 .. Len(occupied) : /\ occupied[i] \in 0 .. Size - 1
                                          /\ data[occupied[i]].next = At(occupied, i + 1)
                                          /\ data[occupied[i]].previous = At(occupied, i - 1)
         /\ \A i \in Int : At(occupied, i) \in (0 .. Size - 1) \union {empty}
<1>1. DOMAIN data = 0 .. Size - 1
  BY DEF Inv, TypeOK
<1>2. 0 .. Size - 1 \in SUBSET Nat
  BY SMTT(30)
<1>3. DOMAIN occupied = 1 .. Len(occupied)
  BY Places DEF Inv, TypeOK
<1>4. \A i \in Int : At(occupied, i) \in (0 .. Size - 1) \union {empty}
  BY <1>1, <1>3 DEF Inv, Filled, At
<1>. QED
  BY <1>1, <1>2, <1>3, <1>4 DEF Inv, Filled, ListIsSymmetric

\* What free does to the cell it frees, to its two neighbours and to the others.
LEMMA FreeIs ==
  ASSUME Inv, NEW p \in 1 .. Len(occupied), free(occupied[p])
  PROVE  /\ data' \in [0 .. Size - 1 -> Cells]
         /\ data'[occupied[p]] = [value |-> <<>>, previous |-> occupied[p], next |-> first_free_cell]
         /\ \A y \in 0 .. Size - 1 :
              y # occupied[p] =>
                /\ data'[y].value = data[y].value
                /\ data'[y].next = IF y = At(occupied, p - 1) THEN At(occupied, p + 1) ELSE data[y].next
                /\ data'[y].previous = IF y = At(occupied, p + 1) THEN At(occupied, p - 1)
                                                                  ELSE data[y].previous
         /\ head' = IF p = 1 THEN At(occupied, 2) ELSE head
         /\ tail' = IF p = Len(occupied) THEN At(occupied, p - 1) ELSE tail
         /\ first_free_cell' = occupied[p]
         /\ occupied' = Without(occupied, p)
         /\ unused' = <<occupied[p]>> \o unused
<1> DEFINE D == 0 .. Size - 1
           x == occupied[p]
           before == At(occupied, p - 1)
           after == At(occupied, p + 1)
           freed == [value |-> <<>>, previous |-> x, next |-> first_free_cell]
           unlinked == CASE x = head -> SetPrevious(data, data[x].next, empty)
                         [] x # head /\ x = tail -> SetNext(data, data[x].previous, empty)
                         [] OTHER -> SetPrevious(SetNext(data, data[x].previous, data[x].next),
                                                 data[x].next, data[x].previous)
<1>0. 1 \in Int /\ \A n \in Nat : n \in Int
  BY SMTT(30)
<1>1. /\ Len(occupied) \in Nat /\ p \in Nat /\ p >= 1 /\ p <= Len(occupied)
      /\ 1 \in 1 .. Len(occupied) /\ Len(occupied) \in 1 .. Len(occupied)
  <2>1. Len(occupied) \in Nat
    BY Places DEF Inv, TypeOK
  <2>. QED
    BY SMTT(30), <2>1
<1>2. /\ D \in SUBSET Nat /\ D = DOMAIN data /\ x \in D /\ data \in [D -> Cells]
      /\ data[x].next = after /\ data[x].previous = before
      /\ before \in D \/ before = empty
      /\ after \in D \/ after = empty
  <2>1. p - 1 \in Int /\ p + 1 \in Int
    BY SMTT(30), <1>1
  <2>. QED
    BY <2>1, Linked DEF Inv, TypeOK
<1>3. before \in Links /\ after \in Links /\ empty \in Links
  BY <1>2 DEF Links
<1>4. x = head <=> p = 1
  <2>1. head = occupied[1]
    BY <1>0, <1>1, AtIs DEF Inv, TypeOK, ListIsSymmetric
  <2>. QED
    BY <2>1, <1>1 DEF Inv, Apart
<1>5. x = tail <=> p = Len(occupied)
  <2>1. tail = occupied[Len(occupied)]
    BY <1>0, <1>1, AtIs DEF Inv, TypeOK, ListIsSymmetric
  <2>. QED
    BY <2>1, <1>1 DEF Inv, Apart
<1>6. (p = 1 => before = empty) /\ (p = Len(occupied) => after = empty)
  <2>1. ~ (0 \in 1 .. Len(occupied)) /\ ~ (Len(occupied) + 1 \in 1 .. Len(occupied))
    BY SMTT(30), <1>1
  <2>2. p - 1 \in Int /\ p + 1 \in Int /\ (p = 1 => p - 1 = 0)
    BY SMTT(30), <1>1
  <2>3. p = 1 => ~(p - 1 \in 1 .. Len(occupied))
    BY <2>1, <2>2
  <2>4. p = Len(occupied) => ~(p + 1 \in 1 .. Len(occupied))
    BY <2>1
  <2>. QED
    BY <2>2, <2>3, <2>4, AtIs DEF Inv, TypeOK
<1>7. empty \notin D
  BY SMTT(30) DEF empty
<1>. HIDE DEF D, before, after
<1>8. /\ unlinked \in [D -> Cells]
      /\ \A y \in D : /\ unlinked[y].value = data[y].value
                      /\ unlinked[y].next = IF y = before THEN after ELSE data[y].next
                      /\ unlinked[y].previous = IF y = after THEN before ELSE data[y].previous
  <2>1. unlinked = SetPrevious(SetNext(data, before, after), after, before)
    <3>1. CASE p = 1
      BY <1>2, <1>4, <1>6, <3>1 DEF SetNext
    <3>2. CASE p # 1 /\ p = Len(occupied)
      BY <1>2, <1>4, <1>5, <1>6, <3>2 DEF SetPrevious
    <3>3. CASE p # 1 /\ p # Len(occupied)
      BY <1>2, <1>4, <1>5, <3>3
    <3>. QED
      BY <3>1, <3>2, <3>3
  <2>. HIDE DEF unlinked
  <2>2. /\ data \in [DOMAIN data -> Cells] /\ empty \notin DOMAIN data
        /\ before \in DOMAIN data \/ before = empty
        /\ after \in DOMAIN data \/ after = empty
    BY <1>2, <1>7
  <2>3. /\ unlinked \in [DOMAIN data -> Cells]
        /\ \A y \in DOMAIN data :
             /\ unlinked[y].value = data[y].value
             /\ unlinked[y].next = IF y = before THEN after ELSE data[y].next
             /\ unlinked[y].previous = IF y = after THEN before ELSE data[y].previous
    BY SMTT(30), <2>1, <2>2, <1>3, UnlinkIs
  <2>4. DOMAIN data = D
    BY <1>2
  <2>. QED
    BY <2>3, <2>4
<1>9. data' = [unlinked EXCEPT ![x] = freed]
  BY DEF free
<1>10. freed \in Cells
  <2>1. first_free_cell \in Links
    BY <1>0, AtIs DEF Inv, TypeOK, Chained
  <2>2. x \in Nat
    BY <1>2
  <2>. QED
    BY SMTT(30), <2>1, <2>2 DEF Cells, Links
<1>. HIDE DEF unlinked, freed
<1>11. /\ data' \in [D -> Cells] /\ data'[x] = freed
       /\ \A y \in D : y # x => data'[y] = unlinked[y]
  BY <1>2, <1>8, <1>9, <1>10
<1>12. head' = IF p = 1 THEN At(occupied, 2) ELSE head
  <2>1. p = 1 => after = At(occupied, 2)
    BY SMTT(30), <1>1 DEF after
  <2>2. head' = IF x = head THEN data[x].next ELSE head
    BY DEF free
  <2>. QED
    BY <2>1, <2>2, <1>2, <1>4
<1>13. tail' = IF p = Len(occupied) THEN before ELSE tail
  <2>1. tail' = CASE x # tail -> tail
                  [] x = tail /\ x = head -> empty
                  [] OTHER -> data[x].previous
    BY DEF free
  <2>2. CASE x # tail
    BY <2>1, <2>2, <1>5
  <2>3. CASE x = tail /\ x = head
    BY <2>1, <2>3, <1>4, <1>5, <1>6
  <2>4. CASE x = tail /\ x # head
    BY <2>1, <2>4, <1>2, <1>5
  <2>. QED
    BY <2>2, <2>3, <2>4
<1>14. occupied' = Without(occupied, p)
  <2>1. DOMAIN occupied = 1 .. Len(occupied)
    BY Places DEF Inv, TypeOK
  <2> DEFINE c == CHOOSE i \in DOMAIN occupied : occupied[i] = occupied[p]
  <2>2. c \in DOMAIN occupied /\ occupied[c] = occupied[p]
    BY <2>1
  <2>3. c = p
    BY <2>1, <2>2 DEF Inv, Apart
  <2>. QED
    BY <2>3 DEF free, Withdrawn
<1>15. first_free_cell' = x /\ unused' = <<x>> \o unused
  BY DEF free, Withdrawn
<1>. QED
  BY <1>8, <1>11, <1>12, <1>13, <1>14, <1>15 DEF freed, D, before, after

\* The places of a list without the cell at p.
LEMMA PlacesWithout ==
  ASSUME NEW s \in Seq(Nat), NEW p \in 1 .. Len(s)
  PROVE  /\ Without(s, p) \in Seq(Nat)
         /\ Len(Without(s, p)) = Len(s) - 1
         /\ \A j \in 1 .. Len(s) - 1 : \E k \in 1 .. Len(s) :
              k # p /\ k = (IF j < p THEN j ELSE j + 1) /\ Without(s, p)[j] = s[k]
         /\ \A k \in 1 .. Len(s) : k # p => \E j \in 1 .. Len(s) - 1 :
              k = (IF j < p THEN j ELSE j + 1) /\ Without(s, p)[j] = s[k]
         /\ \A j \in Int : At(Without(s, p), j) = IF j < p THEN At(s, j) ELSE At(s, j + 1)
<1> DEFINE w == Without(s, p)
<1>1. w \in Seq(Nat) /\ Len(w) = Len(s) - 1
  BY WithoutIs
<1>2. \A j \in 1 .. Len(s) - 1 : w[j] = s[IF j < p THEN j ELSE j + 1]
  BY WithoutIs
<1>3. Len(s) \in Nat /\ p \in Nat /\ p >= 1 /\ p <= Len(s)
  BY SMTT(30), Places
<1>. HIDE DEF w
<1>4. \A j \in 1 .. Len(s) - 1 : \E k \in 1 .. Len(s) :
        k # p /\ k = (IF j < p THEN j ELSE j + 1) /\ w[j] = s[k]
  <2>1. \A j \in 1 .. Len(s) - 1 : (IF j < p THEN j ELSE j + 1) \in (1 .. Len(s)) \ {p}
    BY SMTT(30), <1>3
  <2>. QED
    BY <1>2, <2>1
<1>5. \A k \in 1 .. Len(s) : k # p => \E j \in 1 .. Len(s) - 1 :
        k = (IF j < p THEN j ELSE j + 1) /\ w[j] = s[k]
  <2>1. \A k \in 1 .. Len(s) : k # p => \E j \in 1 .. Len(s) - 1 : k = (IF j < p THEN j ELSE j + 1)
    <3> TAKE k \in 1 .. Len(s)
    <3> HAVE k # p
    <3>1. CASE k < p
      <4>1. k \in 1 .. Len(s) - 1
        BY SMTT(30), <1>3, <3>1
      <4>. QED
        BY <3>1, <4>1
    <3>2. CASE ~(k < p)
      <4>1. k - 1 \in 1 .. Len(s) - 1 /\ ~(k - 1 < p) /\ k = (k - 1) + 1
        BY SMTT(30), <1>3, <3>2
      <4>. QED
        BY <4>1
    <3>. QED
      BY <3>1, <3>2
  <2>. QED
    BY <1>2, <2>1
<1>6. \A j \in Int : At(w, j) = IF j < p THEN At(s, j) ELSE At(s, j + 1)
  <2> TAKE j \in Int
  <2>1. /\ j + 1 \in Int
        /\ j < p => (j \in 1 .. Len(w) <=> j \in 1 .. Len(s))
        /\ ~(j < p) => (j \in 1 .. Len(w) <=> j + 1 \in 1 .. Len(s))
    BY SMTT(30), <1>1, <1>3
  <2>2. j \in 1 .. Len(w) => w[j] = s[IF j < p THEN j ELSE j + 1]
    BY <1>1, <1>2
  <2>. QED
    BY <1>1, <2>1, <2>2, AtIs
<1>. QED
  BY <1>1, <1>4, <1>5, <1>6 DEF w

\* A cell is at one place only.
LEMMA OnePlace ==
  ASSUME Inv
  PROVE  /\ \A k \in 1 .. Len(occupied), i \in Int : occupied[k] = At(occupied, i) <=> k = i
         /\ \A k \in 1 .. Len(unused), i \in Int : unused[k] # At(occupied, i)
<1>1. 1 .. Len(occupied) \subseteq Int
  BY SMTT(30)
<1>2. empty \notin Nat
  BY SMTT(30) DEF empty
<1>3. /\ \A k \in 1 .. Len(occupied) : occupied[k] \in Nat
      /\ \A k \in 1 .. Len(unused) : unused[k] \in Nat
  BY Places DEF Inv, TypeOK
<1>4. \A i \in Int : IF i \in 1 .. Len(occupied) THEN At(occupied, i) = occupied[i]
                                                 ELSE At(occupied, i) = empty
  BY AtIs DEF Inv, TypeOK
<1>. QED
  BY <1>1, <1>2, <1>3, <1>4 DEF Inv, Apart

\* The places of the free cells once another cell is put in front of them.
LEMMA PlacesFronted ==
  ASSUME NEW s \in Seq(Nat), NEW x \in Nat
  PROVE  /\ <<x>> \o s \in Seq(Nat)
         /\ 1 \in 1 .. Len(<<x>> \o s) /\ (<<x>> \o s)[1] = x /\ At(<<x>> \o s, 1) = x
         /\ \A j \in 1 .. Len(<<x>> \o s) : j = 1 \/ \E k \in 1 .. Len(s) : j = k + 1
         /\ \A k \in 1 .. Len(s) : /\ k + 1 \in 1 .. Len(<<x>> \o s)
                                   /\ (<<x>> \o s)[k + 1] = s[k]
         /\ \A j \in Nat : j >= 1 => At(<<x>> \o s, j + 1) = At(s, j)
<1> DEFINE w == <<x>> \o s
<1>1. /\ w \in Seq(Nat) /\ Len(w) = Len(s) + 1 /\ w[1] = x
      /\ \A k \in 1 .. Len(s) : w[k + 1] = s[k]
  BY SMTT(30)
<1>2. Len(s) \in Nat
  BY Places
<1>. HIDE DEF w
<1>3. 1 \in 1 .. Len(w) /\ 1 \in Int /\ \A k \in 1 .. Len(s) : k + 1 \in 1 .. Len(w)
  BY SMTT(30), <1>1, <1>2
<1>4. \A j \in 1 .. Len(w) : j = 1 \/ \E k \in 1 .. Len(s) : j = k + 1
  <2> TAKE j \in 1 .. Len(w)
  <2>1. j = 1 \/ (j - 1 \in 1 .. Len(s) /\ j = (j - 1) + 1)
    BY SMTT(30), <1>1, <1>2
  <2>. QED
    BY <2>1
<1>5. At(w, 1) = x
  BY <1>1, <1>3, AtIs
<1>6. ASSUME NEW j \in Nat, j >= 1
      PROVE  At(w, j + 1) = At(s, j)
  <2>1. j \in Int /\ j + 1 \in Int /\ (j + 1 \in 1 .. Len(w) <=> j \in 1 .. Len(s))
    BY SMTT(30), <1>1, <1>2, <1>6
  <2>. QED
    BY <1>1, <2>1, AtIs
<1>. QED
  BY <1>1, <1>3, <1>4, <1>5, <1>6 DEF w

\* Taking a cell out keeps the invariant.
LEMMA FreeKeeps ==
  ASSUME Inv, NEW p \in 1 .. Len(occupied), free(occupied[p])
  PROVE  Inv'
<1> DEFINE x == occupied[p]
           n == Len(occupied)
           D == 0 .. Size - 1
<1>1. /\ n \in Nat /\ p \in Nat /\ p >= 1 /\ p <= n /\ p \in Int
      /\ 1 \in Int /\ n \in Int /\ n - 1 \in Int /\ p + 1 \in Int /\ p - 1 \in Int
  <2>1. n \in Nat
    BY Places DEF Inv, TypeOK
  <2>. QED
    BY SMTT(30), <2>1
<1>2. /\ DOMAIN data = D /\ x \in D
      /\ \A k \in 1 .. n : occupied[k] \in D
      /\ \A k \in 1 .. Len(unused) : unused[k] \in D
  BY Linked DEF Inv, Chained
<1>3. x \in Nat
  BY <1>2, Linked
<1>4. /\ data' \in [D -> Cells]
      /\ data'[x] = [value |-> <<>>, previous |-> x, next |-> first_free_cell]
      /\ \A y \in D : y # x =>
           /\ data'[y].value = data[y].value
           /\ data'[y].next = IF y = At(occupied, p - 1) THEN At(occupied, p + 1) ELSE data[y].next
           /\ data'[y].previous = IF y = At(occupied, p + 1) THEN At(occupied, p - 1)
                                                             ELSE data[y].previous
  BY FreeIs
<1>5. occupied' = Without(occupied, p) /\ unused' = <<x>> \o unused /\ first_free_cell' = x
  BY FreeIs
<1>6. /\ head' = IF p = 1 THEN At(occupied, 2) ELSE head
      /\ tail' = IF p = n THEN At(occupied, p - 1) ELSE tail
  BY FreeIs
<1>7. /\ occupied' \in Seq(Nat) /\ Len(occupied') = n - 1
      /\ \A j \in 1 .. n - 1 : \E k \in 1 .. n :
           k # p /\ k = (IF j < p THEN j ELSE j + 1) /\ occupied'[j] = occupied[k]
      /\ \A k \in 1 .. n : k # p => \E j \in 1 .. n - 1 :
           k = (IF j < p THEN j ELSE j + 1) /\ occupied'[j] = occupied[k]
      /\ \A j \in Int : At(occupied', j) = IF j < p THEN At(occupied, j) ELSE At(occupied, j + 1)
  <2>1. occupied \in Seq(Nat)
    BY DEF Inv, TypeOK
  <2> DEFINE w == Without(occupied, p)
  <2>2. /\ w \in Seq(Nat) /\ Len(w) = n - 1
        /\ \A j \in 1 .. n - 1 : \E k \in 1 .. n :
             k # p /\ k = (IF j < p THEN j ELSE j + 1) /\ w[j] = occupied[k]
        /\ \A k \in 1 .. n : k # p => \E j \in 1 .. n - 1 :
             k = (IF j < p THEN j ELSE j + 1) /\ w[j] = occupied[k]
        /\ \A j \in Int : At(w, j) = IF j < p THEN At(occupied, j) ELSE At(occupied, j + 1)
    BY <2>1, PlacesWithout
  <2>3. occupied' = w
    BY <1>5
  <2>. HIDE DEF w, n
  <2>. QED
    BY <2>2, <2>3
<1>8. /\ unused' \in Seq(Nat)
      /\ 1 \in 1 .. Len(unused') /\ unused'[1] = x /\ At(unused', 1) = x
      /\ \A j \in 1 .. Len(unused') : j = 1 \/ \E k \in 1 .. Len(unused) : j = k + 1
      /\ \A k \in 1 .. Len(unused) : k + 1 \in 1 .. Len(unused') /\ unused'[k + 1] = unused[k]
      /\ \A j \in Nat : j >= 1 => At(unused', j + 1) = At(unused, j)
  BY <1>3, <1>5, PlacesFronted DEF Inv, TypeOK
<1>. HIDE DEF x, n, D
<1>9. TypeOK' /\ DOMAIN data' = D
  <2>1. Size' = Size
    BY <1>2, <1>4 DEF Size
  <2>. QED
    BY <1>4, <1>7, <1>8, <2>1 DEF Inv, TypeOK, D
<1>10. \A k \in 1 .. n : k # p => occupied[k] # x
  BY DEF Inv, Apart, x, n
<1>11. ListIsSymmetric'
  <2>1. head' = At(occupied', 1)
    <3>1. CASE p = 1
      <4>1. ~(1 < 1) /\ 1 + 1 = 2
        BY SMTT(30)
      <4>. QED
        BY <1>1, <1>6, <1>7, <3>1, <4>1
    <3>2. CASE p # 1
      <4>1. 1 < p
        BY SMTT(30), <1>1, <3>2
      <4>. QED
        BY <1>1, <1>6, <1>7, <3>2, <4>1 DEF Inv, ListIsSymmetric
    <3>. QED
      BY <3>1, <3>2
  <2>2. tail' = At(occupied', Len(occupied'))
    <3>1. CASE p = n
      <4>1. n - 1 < n
        BY SMTT(30), <1>1
      <4>. QED
        BY <1>1, <1>6, <1>7, <3>1, <4>1
    <3>2. CASE p # n
      <4>1. ~(n - 1 < p) /\ (n - 1) + 1 = n
        BY SMTT(30), <1>1, <3>2
      <4>. QED
        BY <1>1, <1>6, <1>7, <3>2, <4>1 DEF Inv, ListIsSymmetric, n
    <3>. QED
      BY <3>1, <3>2
  <2>3. ASSUME NEW j \in 1 .. n - 1
        PROVE  /\ data'[occupied'[j]].next = At(occupied', j + 1)
               /\ data'[occupied'[j]].previous = At(occupied', j - 1)
    <3>1. PICK k \in 1 .. n : k # p /\ k = (IF j < p THEN j ELSE j + 1) /\ occupied'[j] = occupied[k]
      BY <1>7
    <3>2. /\ occupied[k] \in D /\ occupied[k] # x
          /\ data[occupied[k]].next = At(occupied, k + 1)
          /\ data[occupied[k]].previous = At(occupied, k - 1)
      BY <1>2, <1>10, <3>1, Linked DEF n
    <3>3. /\ data'[occupied[k]].next = IF k = p - 1 THEN At(occupied, p + 1) ELSE At(occupied, k + 1)
          /\ data'[occupied[k]].previous = IF k = p + 1 THEN At(occupied, p - 1) ELSE At(occupied, k - 1)
      BY <1>1, <1>4, <3>1, <3>2, OnePlace DEF n
    <3>4. /\ j \in Int /\ j + 1 \in Int /\ j - 1 \in Int
          /\ (j - 1) + 1 = j
      BY SMTT(30)
    <3>5. CASE j < p
      <4>1. /\ k = j /\ k # p + 1 /\ j - 1 < p
            /\ j + 1 < p => k # p - 1
            /\ ~(j + 1 < p) => k = p - 1 /\ p + 1 = (j + 1) + 1
        BY SMTT(30), <1>1, <3>1, <3>5
      <4>. QED
        BY <1>7, <3>1, <3>3, <3>4, <4>1
    <3>6. CASE ~(j < p)
      <4>1. /\ k = j + 1 /\ k # p - 1 /\ ~(j + 1 < p) /\ k - 1 = j
            /\ j - 1 < p => k = p + 1 /\ p - 1 = j - 1
            /\ ~(j - 1 < p) => k # p + 1
        BY SMTT(30), <1>1, <3>1, <3>6
      <4>. QED
        BY <1>7, <3>1, <3>3, <3>4, <4>1
    <3>. QED
      BY <3>5, <3>6
  <2>4. DOMAIN occupied' = 1 .. n - 1
    BY <1>7, Places
  <2>. QED
    BY <2>1, <2>2, <2>3, <2>4 DEF ListIsSymmetric
<1>12. Filled'
  <2> SUFFICES ASSUME NEW j \in 1 .. n - 1
               PROVE  occupied'[j] \in D /\ data'[occupied'[j]].value # <<>>
    BY <1>7, <1>9 DEF Filled
  <2>1. PICK k \in 1 .. n : k # p /\ occupied'[j] = occupied[k]
    BY <1>7
  <2>2. occupied[k] \in D /\ occupied[k] # x /\ data[occupied[k]].value # <<>>
    BY <1>2, <1>10, <2>1 DEF Inv, Filled, n
  <2>. QED
    BY <1>4, <2>1, <2>2
<1>13. Chained'
  <2>1. first_free_cell' = At(unused', 1)
    BY <1>5, <1>8
  <2>2. /\ unused'[1] \in DOMAIN data'
        /\ data'[unused'[1]].next = At(unused', 1 + 1)
        /\ data'[unused'[1]].previous = unused'[1]
    <3>1. 1 \in Nat /\ 1 >= 1
      BY SMTT(30)
    <3>2. data'[x].next = first_free_cell /\ data'[x].previous = x
      BY SMTT(30), <1>4
    <3>. QED
      BY <1>2, <1>8, <1>9, <3>1, <3>2 DEF Inv, Chained
  <2>3. ASSUME NEW k \in 1 .. Len(unused)
        PROVE  /\ unused'[k + 1] \in DOMAIN data'
               /\ data'[unused'[k + 1]].next = At(unused', (k + 1) + 1)
               /\ data'[unused'[k + 1]].previous = unused'[k + 1]
    <3>1. unused[k] # x /\ unused[k] \in D
      BY <1>2 DEF Inv, Apart, x
    <3>2. unused[k] # At(occupied, p - 1) /\ unused[k] # At(occupied, p + 1)
      BY <1>1, OnePlace
    <3>3. /\ data'[unused[k]].next = At(unused, k + 1)
          /\ data'[unused[k]].previous = unused[k]
      BY <1>4, <3>1, <3>2 DEF Inv, Chained
    <3>4. k + 1 \in Nat /\ k + 1 >= 1
      BY SMTT(30)
    <3>. QED
      BY <1>8, <1>9, <3>1, <3>3, <3>4
  <2>. QED
    BY <1>8, <2>1, <2>2, <2>3 DEF Chained
<1>14. Apart'
  <2>1. ASSUME NEW i \in 1 .. n - 1, NEW j \in 1 .. n - 1, occupied'[i] = occupied'[j]
        PROVE  i = j
    <3>1. PICK k \in 1 .. n : k = (IF i < p THEN i ELSE i + 1) /\ occupied'[i] = occupied[k]
      BY <1>7
    <3>2. PICK l \in 1 .. n : l = (IF j < p THEN j ELSE j + 1) /\ occupied'[j] = occupied[l]
      BY <1>7
    <3>3. k = l
      BY <2>1, <3>1, <3>2 DEF Inv, Apart, n
    <3>4. i \in Int /\ j \in Int
      BY SMTT(30)
    <3>. QED
      BY SMTT(30), <1>1, <3>1, <3>2, <3>3, <3>4
  <2>2. \A k \in 1 .. Len(unused) : unused[k] # x
    BY DEF Inv, Apart, x
  <2>3. ASSUME NEW i \in 1 .. Len(unused'), NEW j \in 1 .. Len(unused'), unused'[i] = unused'[j]
        PROVE  i = j
    <3>1. i = 1 \/ \E k \in 1 .. Len(unused) : i = k + 1 /\ unused'[i] = unused[k]
      BY <1>8
    <3>2. j = 1 \/ \E k \in 1 .. Len(unused) : j = k + 1 /\ unused'[j] = unused[k]
      BY <1>8
    <3>3. unused'[1] = x
      BY <1>8
    <3>. QED
      BY <2>2, <2>3, <3>1, <3>2, <3>3 DEF Inv, Apart
  <2>4. ASSUME NEW i \in 1 .. n - 1, NEW j \in 1 .. Len(unused')
        PROVE  occupied'[i] # unused'[j]
    <3>1. PICK k \in 1 .. n : k # p /\ occupied'[i] = occupied[k]
      BY <1>7
    <3>2. unused'[j] = x \/ \E l \in 1 .. Len(unused) : unused'[j] = unused[l]
      BY <1>8
    <3>. QED
      BY <1>10, <3>1, <3>2 DEF Inv, Apart, n
  <2>. QED
    BY <1>7, <2>1, <2>3, <2>4 DEF Apart
<1>15. Covered'
  <2>1. ASSUME NEW y \in DOMAIN data
        PROVE  \/ \E i \in 1 .. n - 1 : occupied'[i] = y
               \/ \E i \in 1 .. Len(unused') : unused'[i] = y
    <3>1. CASE \E k \in 1 .. n : occupied[k] = y
      <4>1. PICK k \in 1 .. n : occupied[k] = y
        BY <3>1
      <4>2. CASE k = p
        BY <1>8, <4>1, <4>2 DEF x
      <4>3. CASE k # p
        BY <1>7, <4>1, <4>3
      <4>. QED
        BY <4>2, <4>3
    <3>2. CASE \E k \in 1 .. Len(unused) : unused[k] = y
      BY <1>8, <3>2
    <3>. QED
      BY <3>1, <3>2 DEF Inv, Covered, n
  <2>. QED
    BY <1>2, <1>7, <1>9, <2>1 DEF Covered
<1>. QED
  BY <1>9, <1>11, <1>12, <1>13, <1>14, <1>15 DEF Inv

\* The free cells once the first of them is taken, if there is one.
Rest(s) == IF s = <<>> THEN <<>> ELSE Tail(s)

\* The places of the free cells once the first of them is taken.
LEMMA PlacesRest ==
  ASSUME NEW s \in Seq(Nat)
  PROVE  /\ Rest(s) \in Seq(Nat)
         /\ \A j \in 1 .. Len(Rest(s)) : j + 1 \in 1 .. Len(s) /\ Rest(s)[j] = s[j + 1]
         /\ \A k \in 1 .. Len(s) : k # 1 => \E j \in 1 .. Len(Rest(s)) : Rest(s)[j] = s[k]
         /\ \A j \in Nat : j >= 1 => At(Rest(s), j) = At(s, j + 1)
<1> DEFINE w == Rest(s)
<1>0. w = IF s = <<>> THEN <<>> ELSE Tail(s)
  BY DEF Rest
<1>. HIDE DEF w
<1>1. /\ w \in Seq(Nat) /\ Len(s) \in Nat /\ Len(w) \in Nat
      /\ Len(w) = (IF Len(s) = 0 THEN 0 ELSE Len(s) - 1)
      /\ \A j \in 1 .. Len(w) : j + 1 \in 1 .. Len(s) /\ w[j] = s[j + 1]
  <2>1. CASE s = <<>>
    <3>1. w = <<>> /\ Len(s) = 0
      BY SMTT(30), <1>0, <2>1
    <3>. QED
      BY SMTT(30), <3>1
  <2>2. CASE s # <<>>
    <3>1. /\ w \in Seq(Nat) /\ Len(s) >= 1 /\ Len(w) = Len(s) - 1 /\ Len(s) \in Nat
          /\ \A j \in 1 .. Len(s) - 1 : w[j] = s[j + 1]
      BY <1>0, <2>2, TailIs, Places
    <3>. QED
      BY SMTT(30), <3>1
  <2>. QED
    BY <2>1, <2>2
<1>2. ASSUME NEW k \in 1 .. Len(s), k # 1
      PROVE  \E j \in 1 .. Len(w) : w[j] = s[k]
  <2>1. k - 1 \in 1 .. Len(w) /\ (k - 1) + 1 = k
    BY SMTT(30), <1>1, <1>2
  <2>. QED
    BY <1>1, <2>1
<1>3. ASSUME NEW j \in Nat, j >= 1
      PROVE  At(w, j) = At(s, j + 1)
  <2>1. j \in Int /\ j + 1 \in Int /\ (j \in 1 .. Len(w) <=> j + 1 \in 1 .. Len(s))
    BY SMTT(30), <1>1, <1>3
  <2>2. CASE j \in 1 .. Len(w)
    <3>1. At(w, j) = w[j] /\ At(s, j + 1) = s[j + 1]
      BY <1>1, <2>1, <2>2, AtIs
    <3>. QED
      BY <1>1, <2>2, <3>1
  <2>3. CASE j \notin 1 .. Len(w)
    BY <1>1, <2>1, <2>3, AtIs
  <2>. QED
    BY <2>2, <2>3
<1>. QED
  BY <1>1, <1>2, <1>3 DEF w

\* The cell that write takes, and the size of the array with it.
Cell == IF first_free_cell = empty THEN Size ELSE first_free_cell
NewSize == IF first_free_cell = empty THEN Size + 1 ELSE Size

\* The cell that write takes is the first free one, or a new one behind the
\* array, and none that the queue holds.
LEMMA Taken ==
  ASSUME Inv
  PROVE  /\ NewSize \in Nat
         /\ Grown \in [0 .. NewSize - 1 -> Cells] /\ Cell \in 0 .. NewSize - 1
         /\ \A y \in 0 .. Size - 1 : y \in 0 .. NewSize - 1 /\ Grown[y] = data[y]
         /\ \A y \in 0 .. NewSize - 1 : y = Cell \/ y \in 0 .. Size - 1
         /\ \A k \in 1 .. Len(occupied) : occupied[k] # Cell
         /\ \A k \in 1 .. Len(unused) : unused[k] = Cell <=> k = 1
         /\ Grown[Cell].next = At(unused, 2)
<1>1. 1 \in Int /\ 2 \in Int
  BY SMTT(30)
<1>2. Size \in Nat /\ data \in [0 .. Size - 1 -> Cells] /\ unused \in Seq(Nat) /\ Len(unused) \in Nat
  BY Places DEF Inv, TypeOK
<1>3. CASE first_free_cell = empty
  <2>1. Len(unused) = 0
    <3>1. 1 \notin 1 .. Len(unused)
      <4> SUFFICES ASSUME 1 \in 1 .. Len(unused)
                   PROVE  FALSE
        OBVIOUS
      <4>1. unused[1] \in Nat /\ unused[1] = empty
        BY <1>1, <1>2, <1>3, AtIs, Places DEF Inv, Chained
      <4>. QED
        BY SMTT(30), <4>1 DEF empty
    <3>. QED
      BY SMTT(30), <1>2, <3>1
  <2>2. Size + 1 \in Nat /\ (Size + 1) - 1 = Size /\ Size \in 0 .. Size
    BY SMTT(30), <1>2
  <2>3. /\ \A y \in 0 .. Size - 1 : y \in 0 .. Size /\ y # Size
        /\ \A y \in 0 .. Size : y = Size \/ y \in 0 .. Size - 1
    BY SMTT(30), <1>2
  <2> DEFINE cell == [value |-> <<>>, previous |-> Size, next |-> empty]
  <2>4. cell \in Cells /\ cell.next = empty
    BY SMTT(30), <1>2 DEF Cells, Links
  <2>5. Grown = [i \in 0 .. Size |-> IF i = Size THEN cell ELSE data[i]]
    BY <1>3 DEF Grown
  <2>. HIDE DEF cell
  <2>6. Grown \in [0 .. Size -> Cells] /\ Grown[Size].next = empty
    BY <1>2, <2>2, <2>3, <2>4, <2>5
  <2>7. \A y \in 0 .. Size - 1 : Grown[y] = data[y]
    BY <2>3, <2>5
  <2>8. 1 .. Len(unused) = {} /\ At(unused, 2) = empty
    <3>1. 1 .. Len(unused) = {}
      BY SMTT(30), <2>1
    <3>. QED
      BY <1>1, <1>2, <3>1, AtIs
  <2>9. \A k \in 1 .. Len(occupied) : occupied[k] # Size
    BY <2>3, Linked
  <2>10. Cell = Size /\ NewSize = Size + 1 /\ NewSize - 1 = Size
    BY <1>3, <2>2 DEF Cell, NewSize
  <2>11. /\ Grown \in [0 .. Size -> Cells] /\ Size \in 0 .. Size
         /\ \A y \in 0 .. Size - 1 : y \in 0 .. Size /\ Grown[y] = data[y]
         /\ \A y \in 0 .. Size : y = Size \/ y \in 0 .. Size - 1
         /\ \A k \in 1 .. Len(unused) : unused[k] = Size <=> k = 1
         /\ Grown[Size].next = At(unused, 2)
    BY <2>2, <2>3, <2>6, <2>7, <2>8
  <2>. QED
    BY <2>2, <2>9, <2>10, <2>11
<1>4. CASE first_free_cell # empty
  <2>1. 1 \in 1 .. Len(unused) /\ Cell = unused[1]
    BY <1>1, <1>2, <1>4, AtIs DEF Inv, Chained, Cell
  <2>2. Grown = data /\ NewSize = Size
    BY <1>4 DEF Grown, NewSize
  <2>3. Cell \in 0 .. Size - 1 /\ data[Cell].next = At(unused, 1 + 1)
    BY <2>1, Linked DEF Inv, Chained
  <2>4. 1 + 1 = 2
    BY SMTT(30)
  <2>5. /\ \A k \in 1 .. Len(occupied) : occupied[k] # Cell
        /\ \A k \in 1 .. Len(unused) : unused[k] = Cell <=> k = 1
    BY <2>1 DEF Inv, Apart
  <2>. QED
    BY <1>2, <2>2, <2>3, <2>4, <2>5
<1>. QED
  BY <1>3, <1>4

\* What write does to the cell it takes, to the last one and to the others.
LEMMA WriteIs ==
  ASSUME Inv, NEW value \in Values, write(value)
  PROVE  /\ Cell \in Nat /\ Cell < MaxCells
         /\ data' \in [0 .. NewSize - 1 -> Cells]
         /\ data'[Cell].value = <<value>>
         /\ data'[Cell].next = empty
         /\ data'[Cell].previous = tail
         /\ \A y \in 0 .. Size - 1 : y # Cell =>
              /\ data'[y].value = data[y].value
              /\ data'[y].previous = data[y].previous
              /\ data'[y].next = IF y = tail THEN Cell ELSE data[y].next
         /\ first_free_cell' = At(unused, 2)
         /\ head' = IF head = empty THEN Cell ELSE head
         /\ tail' = Cell
         /\ occupied' = Append(occupied, Cell)
         /\ unused' = Rest(unused)
<1> DEFINE node == [value |-> <<value>>, previous |-> tail, next |-> empty]
           D == 0 .. NewSize - 1
<1>1. /\ Cell < MaxCells
      /\ first_free_cell' = Grown[Cell].next
      /\ data' = SetNext([Grown EXCEPT ![Cell] = node], tail, Cell)
      /\ head' = IF head = empty THEN Cell ELSE head
      /\ tail' = Cell
      /\ occupied' = Append(occupied, Cell)
      /\ unused' = Rest(unused)
  BY DEF write, Cell, Rest
<1>2. /\ NewSize \in Nat
      /\ Grown \in [0 .. NewSize - 1 -> Cells] /\ Cell \in 0 .. NewSize - 1
      /\ \A y \in 0 .. Size - 1 : y \in 0 .. NewSize - 1 /\ Grown[y] = data[y]
      /\ \A k \in 1 .. Len(occupied) : occupied[k] # Cell
      /\ Grown[Cell].next = At(unused, 2)
  BY Taken
<1>3. Cell \in Nat /\ Cell # empty
  BY SMTT(30), <1>2 DEF empty
<1>4. (tail = empty \/ tail \in D) /\ tail # Cell /\ tail \in Links
  <2>1. Len(occupied) \in Int
    BY SMTT(30), Places DEF Inv, TypeOK
  <2>2. tail = At(occupied, Len(occupied))
    BY DEF Inv, ListIsSymmetric
  <2>3. tail \in Links /\ (tail = empty \/ tail = occupied[Len(occupied)])
    BY <2>1, <2>2, AtIs DEF Inv, TypeOK
  <2>4. tail \in (0 .. Size - 1) \union {empty}
    BY <2>1, <2>2, Linked
  <2>5. tail # Cell
    <3>1. Len(occupied) \in 1 .. Len(occupied) \/ tail = empty
      BY <2>1, <2>2, AtIs DEF Inv, TypeOK
    <3>. QED
      BY <1>2, <1>3, <2>3, <3>1
  <2>. QED
    BY <1>2, <2>3, <2>4, <2>5
<1>5. /\ node \in Cells
      /\ node.value = <<value>> /\ node.previous = tail /\ node.next = empty
  BY SMTT(30), <1>4 DEF Cells, Links
<1>. HIDE DEF node, D
<1> DEFINE g == [Grown EXCEPT ![Cell] = node]
<1>6. g \in [D -> Cells] /\ g[Cell] = node /\ Cell \in D
  BY <1>2, <1>5 DEF D
<1>7. \A y \in 0 .. Size - 1 : y \in D /\ (y # Cell => g[y] = data[y])
  BY <1>2 DEF D
<1>8. data' = SetNext(g, tail, Cell)
  BY <1>1
<1>. HIDE DEF g
<1>9. Cell \in Links
  BY <1>3 DEF Links
<1>10. CASE tail = empty
  <2>1. data' = g
    BY <1>8, <1>10 DEF SetNext
  <2>2. \A y \in 0 .. Size - 1 : y # tail
    BY SMTT(30), <1>10 DEF empty
  <2>. QED
    BY <1>1, <1>2, <1>3, <1>5, <1>6, <1>7, <2>1, <2>2 DEF D
<1>11. CASE tail # empty
  <2>1. data' = [g EXCEPT ![tail] = [g[tail] EXCEPT !.next = Cell]]
    BY <1>8, <1>11 DEF SetNext
  <2>2. tail \in D /\ tail # Cell
    BY <1>4, <1>11
  <2> DEFINE last == [g[tail] EXCEPT !.next = Cell]
  <2>3. /\ last \in Cells /\ last.next = Cell
        /\ last.value = g[tail].value /\ last.previous = g[tail].previous
    BY SMTT(30), <1>6, <1>9, <2>2 DEF Cells
  <2>4. data' = [g EXCEPT ![tail] = last]
    BY <2>1
  <2>. HIDE DEF last
  <2>5. data' \in [D -> Cells] /\ data'[tail] = last /\ \A y \in D : y # tail => data'[y] = g[y]
    BY <1>6, <2>2, <2>3, <2>4
  <2>6. ASSUME NEW y \in 0 .. Size - 1, y # Cell
        PROVE  /\ data'[y].value = data[y].value
               /\ data'[y].previous = data[y].previous
               /\ data'[y].next = IF y = tail THEN Cell ELSE data[y].next
    <3>1. y \in D /\ g[y] = data[y]
      BY <1>7, <2>6
    <3>. QED
      BY <2>3, <2>5, <3>1
  <2>7. data'[Cell] = node
    BY <1>6, <2>2, <2>5
  <2>. QED
    BY <1>1, <1>2, <1>3, <1>5, <2>5, <2>6, <2>7 DEF D
<1>. QED
  BY <1>10, <1>11

\* The places of the queue once a cell is appended.
LEMMA PlacesAppend ==
  ASSUME NEW s \in Seq(Nat), NEW x \in Nat
  PROVE  /\ Append(s, x) \in Seq(Nat)
         /\ Len(Append(s, x)) = Len(s) + 1 /\ Append(s, x)[Len(s) + 1] = x
         /\ \A j \in 1 .. Len(s) + 1 : j = Len(s) + 1 \/ j \in 1 .. Len(s)
         /\ \A j \in 1 .. Len(s) : j \in 1 .. Len(s) + 1 /\ Append(s, x)[j] = s[j]
         /\ \A j \in Int : At(Append(s, x), j) = IF j = Len(s) + 1 THEN x ELSE At(s, j)
<1> DEFINE w == Append(s, x)
<1>1. /\ w \in Seq(Nat) /\ Len(w) = Len(s) + 1 /\ w[Len(s) + 1] = x /\ Len(s) \in Nat
      /\ \A j \in 1 .. Len(s) : w[j] = s[j]
  BY SMTT(30)
<1>. HIDE DEF w
<1>2. /\ Len(s) + 1 \in 1 .. Len(w)
      /\ \A j \in 1 .. Len(w) : j = Len(s) + 1 \/ j \in 1 .. Len(s)
      /\ \A j \in 1 .. Len(s) : j \in 1 .. Len(w)
  BY SMTT(30), <1>1
<1>3. ASSUME NEW j \in Int
      PROVE  At(w, j) = IF j = Len(s) + 1 THEN x ELSE At(s, j)
  <2>1. CASE j = Len(s) + 1
    BY <1>1, <1>2, <2>1, AtIs
  <2>2. CASE j # Len(s) + 1
    BY <1>1, <1>2, <2>2, AtIs
  <2>. QED
    BY <2>1, <2>2
<1>. QED
  BY <1>1, <1>2, <1>3 DEF w

\* Putting a cell at the end keeps the invariant.
LEMMA WriteKeeps ==
  ASSUME Inv, NEW value \in Values, write(value)
  PROVE  Inv'
<1> DEFINE m == Len(occupied)
           D == 0 .. Size - 1
           N == 0 .. NewSize - 1
<1>1. /\ Cell \in N /\ Cell \in Nat /\ D \subseteq N
      /\ \A y \in N : y = Cell \/ y \in D
      /\ \A k \in 1 .. m : occupied[k] # Cell
  BY Taken, WriteIs
<1>2. /\ m \in Nat /\ m \in Int /\ m + 1 \in Int /\ m + 2 \in Int /\ 1 \in Int
      /\ (m + 1) + 1 = m + 2 /\ (m + 1) - 1 = m /\ m + 2 # m + 1 /\ m # m + 1
      /\ m + 2 \notin 1 .. m /\ m + 1 \notin 1 .. m
  <2>1. m \in Nat
    BY Places DEF Inv, TypeOK
  <2>. QED
    BY SMTT(30), <2>1
<1>3. /\ occupied' \in Seq(Nat) /\ Len(occupied') = m + 1 /\ occupied'[m + 1] = Cell
      /\ \A j \in 1 .. m + 1 : j = m + 1 \/ j \in 1 .. m
      /\ \A j \in 1 .. m : j \in 1 .. m + 1 /\ occupied'[j] = occupied[j]
      /\ \A j \in Int : At(occupied', j) = IF j = m + 1 THEN Cell ELSE At(occupied, j)
  <2>1. occupied' = Append(occupied, Cell) /\ occupied \in Seq(Nat)
    BY WriteIs DEF Inv, TypeOK
  <2>. QED
    BY <1>1, <2>1, PlacesAppend
<1>4. /\ unused' \in Seq(Nat)
      /\ \A j \in 1 .. Len(unused') : j + 1 \in 1 .. Len(unused) /\ unused'[j] = unused[j + 1]
      /\ \A k \in 1 .. Len(unused) : k # 1 => \E j \in 1 .. Len(unused') : unused'[j] = unused[k]
      /\ \A j \in Nat : j >= 1 => At(unused', j) = At(unused, j + 1)
  <2>1. unused' = Rest(unused) /\ unused \in Seq(Nat)
    BY WriteIs DEF Inv, TypeOK
  <2>. QED
    BY <2>1, PlacesRest
<1>5. /\ DOMAIN data = D
      /\ \A k \in 1 .. m : /\ occupied[k] \in D
                           /\ data[occupied[k]].next = At(occupied, k + 1)
                           /\ data[occupied[k]].previous = At(occupied, k - 1)
      /\ \A k \in 1 .. Len(unused) : unused[k] \in D
  BY Linked DEF Inv, Chained
<1>6. \A k \in 1 .. Len(unused) : unused[k] = Cell <=> k = 1
  BY Taken
<1>7. data' \in [N -> Cells]
  BY WriteIs
<1>8. /\ data'[Cell].value = <<value>> /\ data'[Cell].next = empty
       /\ data'[Cell].previous = tail
  BY WriteIs
<1>9. \A y \in D : y # Cell =>
         /\ data'[y].value = data[y].value
         /\ data'[y].previous = data[y].previous
         /\ data'[y].next = IF y = tail THEN Cell ELSE data[y].next
  BY WriteIs
<1>10. /\ first_free_cell' = At(unused, 2)
       /\ head' = IF head = empty THEN Cell ELSE head
       /\ tail' = Cell
  BY WriteIs
<1>. HIDE DEF m, D, N
<1>11. TypeOK' /\ DOMAIN data' = N
  <2>1. DOMAIN data' = 0 .. NewSize - 1 /\ NewSize \in Nat
    BY <1>7, Taken DEF N
  <2>2. Size' = NewSize
    BY <2>1, SizeIs DEF Size
  <2>. QED
    BY <1>3, <1>4, <1>7, <2>1, <2>2 DEF TypeOK, N
<1>12. ListIsSymmetric'
  <2>1. head' = At(occupied', 1)
    <3>1. CASE m = 0
      <4>1. m + 1 = 1 /\ 1 \notin 1 .. m
        BY SMTT(30), <3>1
      <4>2. head = empty
        BY <1>2, <4>1, AtIs DEF Inv, TypeOK, ListIsSymmetric, m
      <4>. QED
        BY <1>2, <1>3, <1>10, <4>1, <4>2
    <3>2. CASE m # 0
      <4>1. m + 1 # 1 /\ 1 \in 1 .. m
        BY SMTT(30), <1>2, <3>2
      <4>2. head = At(occupied, 1) /\ head \in D
        BY <1>2, <1>5, <4>1, AtIs DEF Inv, TypeOK, ListIsSymmetric, m
      <4>3. head # empty
        BY SMTT(30), <4>2 DEF D, empty
      <4>. QED
        BY <1>2, <1>3, <1>10, <4>1, <4>2, <4>3
    <3>. QED
      BY <3>1, <3>2
  <2>2. tail' = At(occupied', Len(occupied'))
    BY <1>2, <1>3, <1>10
  <2>3. tail = At(occupied, m)
    BY DEF Inv, ListIsSymmetric, m
  <2>4. ASSUME NEW j \in 1 .. m
        PROVE  /\ data'[occupied'[j]].next = At(occupied', j + 1)
               /\ data'[occupied'[j]].previous = At(occupied', j - 1)
    <3>1. /\ j \in Int /\ j + 1 \in Int /\ j - 1 \in Int /\ j - 1 # m + 1
          /\ j + 1 = m + 1 <=> j = m
      BY SMTT(30), <1>2
    <3>2. occupied[j] = tail <=> j = m
      BY <1>2, <2>3, OnePlace DEF m
    <3>3. /\ occupied[j] \in D /\ occupied[j] # Cell /\ occupied'[j] = occupied[j]
          /\ data[occupied[j]].next = At(occupied, j + 1)
          /\ data[occupied[j]].previous = At(occupied, j - 1)
      BY <1>1, <1>3, <1>5
    <3>4. /\ data'[occupied[j]].next = IF j = m THEN Cell ELSE At(occupied, j + 1)
          /\ data'[occupied[j]].previous = At(occupied, j - 1)
      BY <1>9, <3>2, <3>3
    <3>. QED
      BY <1>3, <3>1, <3>3, <3>4
  <2>5. /\ data'[occupied'[m + 1]].next = At(occupied', (m + 1) + 1)
        /\ data'[occupied'[m + 1]].previous = At(occupied', (m + 1) - 1)
    <3>1. At(occupied, m + 2) = empty
      BY <1>2, AtIs DEF Inv, TypeOK, m
    <3>. QED
      BY <1>2, <1>3, <1>8, <2>3, <3>1
  <2>6. DOMAIN occupied' = 1 .. Len(occupied')
    BY <1>3, Places
  <2>. QED
    BY <1>3, <2>1, <2>2, <2>4, <2>5, <2>6 DEF ListIsSymmetric
<1>13. Filled'
  <2>1. <<value>> # <<>>
    BY SMTT(30)
  <2>2. Cell \in N /\ data'[Cell].value # <<>>
    BY <1>1, <1>8, <2>1
  <2>3. ASSUME NEW j \in 1 .. m
        PROVE  occupied'[j] \in N /\ data'[occupied'[j]].value # <<>>
    <3>1. /\ occupied[j] \in D /\ occupied[j] # Cell /\ occupied'[j] = occupied[j]
          /\ data[occupied[j]].value # <<>>
      BY <1>1, <1>3, <1>5 DEF Inv, Filled, m
    <3>. QED
      BY <1>1, <1>9, <3>1
  <2>. QED
    BY <1>3, <1>11, <2>2, <2>3 DEF Filled
<1>14. Chained'
  <2>1. first_free_cell' = At(unused', 1)
    <3>1. 1 \in Nat /\ 1 >= 1 /\ 1 + 1 = 2
      BY SMTT(30)
    <3>. QED
      BY <1>4, <1>10, <3>1
  <2>2. ASSUME NEW j \in 1 .. Len(unused')
        PROVE  /\ unused'[j] \in N
               /\ data'[unused'[j]].next = At(unused', j + 1)
               /\ data'[unused'[j]].previous = unused'[j]
    <3>1. j + 1 \in Nat /\ j + 1 >= 1 /\ j + 1 # 1
      BY SMTT(30)
    <3>2. j + 1 \in 1 .. Len(unused) /\ unused'[j] = unused[j + 1]
      BY <1>4
    <3>3. unused[j + 1] \in D /\ unused[j + 1] # Cell
      BY <1>5, <1>6, <3>1, <3>2
    <3>4. unused[j + 1] # tail
      BY <1>2, <3>2, OnePlace DEF Inv, ListIsSymmetric, m
    <3>5. data[unused[j + 1]].next = At(unused, (j + 1) + 1) /\ data[unused[j + 1]].previous = unused[j + 1]
      BY <3>2 DEF Inv, Chained
    <3>. QED
      <4>1. data'[unused[j + 1]].next = At(unused, (j + 1) + 1) /\ data'[unused[j + 1]].previous = unused[j + 1]
        BY <1>9, <3>3, <3>4, <3>5
      <4>2. At(unused', j + 1) = At(unused, (j + 1) + 1)
        BY <1>4, <3>1
      <4>. QED
        BY <1>1, <3>2, <3>3, <4>1, <4>2
  <2>. QED
    BY <1>11, <2>1, <2>2 DEF Chained
<1>15. Apart'
  <2>1. \A i, j \in 1 .. Len(occupied') : occupied'[i] = occupied'[j] => i = j
    <3>1. /\ \A k, l \in 1 .. m : occupied'[k] = occupied'[l] => k = l
          /\ \A k \in 1 .. m : occupied'[k] # Cell
      BY <1>1, <1>3 DEF Inv, Apart, m
    <3>2. occupied'[m + 1] = Cell /\ \A j \in 1 .. Len(occupied') : j = m + 1 \/ j \in 1 .. m
      BY <1>3
    <3>. QED
      BY <3>1, <3>2
  <2>2. ASSUME NEW i \in 1 .. Len(unused'), NEW j \in 1 .. Len(unused'), unused'[i] = unused'[j]
        PROVE  i = j
    <3>1. /\ i + 1 \in 1 .. Len(unused) /\ unused'[i] = unused[i + 1]
          /\ j + 1 \in 1 .. Len(unused) /\ unused'[j] = unused[j + 1]
      BY <1>4
    <3>2. i + 1 = j + 1
      BY <2>2, <3>1 DEF Inv, Apart
    <3>. QED
      BY SMTT(30), <3>2
  <2>3. ASSUME NEW i \in 1 .. Len(occupied'), NEW j \in 1 .. Len(unused')
        PROVE  occupied'[i] # unused'[j]
    <3>1. j + 1 \in 1 .. Len(unused) /\ j + 1 # 1 /\ unused'[j] = unused[j + 1]
      <4>1. j + 1 # 1
        BY SMTT(30)
      <4>. QED
        BY <1>4, <4>1
    <3>. QED
      <4>1. unused[j + 1] # Cell
        BY <1>6, <3>1
      <4>2. occupied'[i] = Cell \/ \E k \in 1 .. m : occupied'[i] = occupied[k]
        BY <1>3
      <4>. QED
        BY <3>1, <4>1, <4>2 DEF Inv, Apart, m
  <2>. QED
    BY <2>1, <2>2, <2>3 DEF Apart
<1>16. Covered'
  <2>1. ASSUME NEW y \in N
        PROVE  \/ \E i \in 1 .. Len(occupied') : occupied'[i] = y
               \/ \E i \in 1 .. Len(unused') : unused'[i] = y
    <3>1. CASE y = Cell
      <4>1. m + 1 \in 1 .. Len(occupied')
        BY SMTT(30), <1>2, <1>3
      <4>. QED
        BY <1>3, <3>1, <4>1
    <3>2. CASE y # Cell
      <4>1. y \in D
        BY <1>1, <3>2
      <4>2. CASE \E i \in 1 .. m : occupied[i] = y
        BY <1>3, <4>2
      <4>3. CASE \E i \in 1 .. Len(unused) : unused[i] = y
        BY <1>4, <1>6, <3>2, <4>3
      <4>. QED
        BY <1>5, <4>1, <4>2, <4>3 DEF Inv, Covered, m
    <3>. QED
      BY <3>1, <3>2
  <2>. QED
    BY <1>11, <2>1 DEF Covered
<1>. QED
  BY <1>11, <1>12, <1>13, <1>14, <1>15, <1>16 DEF Inv

-----------------------------------------------------------------------------
(* The invariant holds in every state. *)

\* The invariant holds of a default constructed queue.
LEMMA InitInv == Init => Inv
<1> SUFFICES ASSUME Init
             PROVE  Inv
  OBVIOUS
<1>1. 0 .. 0 - 1 = {} /\ 0 \in Nat /\ 1 .. 0 = {}
  BY SMTT(30)
<1>2. DOMAIN data = {} /\ data \in [{} -> Cells]
  BY DEF Init
<1>3. Size = 0
  BY <1>1, <1>2, SizeIs DEF Size
<1>4. /\ occupied \in Seq(Nat) /\ Len(occupied) = 0 /\ DOMAIN occupied = {}
      /\ unused \in Seq(Nat) /\ Len(unused) = 0 /\ DOMAIN unused = {}
  BY SMTT(30) DEF Init
<1>5. \A i : At(occupied, i) = empty /\ At(unused, i) = empty
  BY <1>4 DEF At
<1>. QED
  BY <1>1, <1>2, <1>3, <1>4, <1>5
  DEF Init, Inv, TypeOK, ListIsSymmetric, Filled, Chained, Apart, Covered

\* The cells that has reports are those in the queue.
LEMMA HasIs ==
  ASSUME Inv
  PROVE  /\ \A k \in 1 .. Len(occupied) : has(occupied[k])
         /\ \A i : has(i) => \E k \in 1 .. Len(occupied) : occupied[k] = i
<1>1. ASSUME NEW k \in 1 .. Len(occupied)
      PROVE  has(occupied[k])
  <2>1. k - 1 \in Int /\ k # k - 1
    BY SMTT(30)
  <2>. QED
    BY <2>1, Linked, OnePlace DEF has
<1>2. ASSUME NEW i, has(i)
      PROVE  \E k \in 1 .. Len(occupied) : occupied[k] = i
  BY <1>2 DEF has, Inv, Chained, Covered
<1>. QED
  BY <1>1, <1>2

\* The first of a queue that is not empty is the oldest.
LEMMA HeadIs ==
  ASSUME Inv, head # empty
  PROVE  1 \in 1 .. Len(occupied) /\ head = occupied[1]
<1>1. 1 \in Int
  BY SMTT(30)
<1>. QED
  BY <1>1, AtIs DEF Inv, TypeOK, ListIsSymmetric

\* write, lazy_free and read keep the invariant.
LEMMA NextInv == Inv /\ [Next]_vars => Inv'
<1> SUFFICES ASSUME Inv, [Next]_vars
             PROVE  Inv'
  OBVIOUS
<1>1. CASE UNCHANGED vars
  BY <1>1 DEF vars, Inv, TypeOK, ListIsSymmetric, Filled, Chained, Apart, Covered, Size
<1>2. ASSUME NEW value \in Values, write(value)
      PROVE  Inv'
  BY <1>2, WriteKeeps
<1>3. ASSUME NEW index \in Indexes, lazy_free(index)
      PROVE  Inv'
  <2>1. CASE has(index) /\ free(index)
    BY <2>1, HasIs, FreeKeeps
  <2>2. CASE UNCHANGED vars
    BY <1>1, <2>2
  <2>. QED
    BY <1>3, <2>1, <2>2 DEF lazy_free
<1>4. CASE read
  BY <1>4, HeadIs, FreeKeeps DEF read
<1>. QED
  BY <1>1, <1>2, <1>3, <1>4 DEF Next

\* The invariant holds in every state.
LEMMA Invariance == Spec => []Inv
  BY InitInv, NextInv, PTL DEF Spec

\* Whatever is withdrawn in whatever order, the list from head along next and
\* the list from tail along previous have the cells in the order of the writes.
THEOREM ListIsAlwaysSymmetric == Spec => []ListIsSymmetric
<1>1. Inv => ListIsSymmetric
  BY DEF Inv
<1>. QED
  BY <1>1, Invariance, PTL

\* Every cell of the array is in the queue or in the list of free cells, once,
\* and has tells the two apart.
THEOREM CellsAlwaysAccountedFor == Spec => []CellsAccountedFor
<1>1. ASSUME Inv
      PROVE  CellsAccountedFor
  <2>1. DOMAIN occupied = 1 .. Len(occupied) /\ DOMAIN unused = 1 .. Len(unused)
    BY <1>1, Places DEF Inv, TypeOK
  <2>2. \A i \in DOMAIN data : has(i) <=> i \in Range(occupied)
    BY <1>1, <2>1, HasIs DEF Range
  <2>3. Range(occupied) \intersect Range(unused) = {}
    BY <1>1, <2>1 DEF Inv, Apart, Range
  <2>4. Range(occupied) \union Range(unused) = DOMAIN data
    <3>1. \A i \in DOMAIN data : i \in Range(occupied) \/ i \in Range(unused)
      BY <1>1, <2>1 DEF Inv, Covered, Range
    <3>2. \A i \in Range(occupied) : i \in DOMAIN data
      BY <1>1, <2>1 DEF Inv, Filled, Range
    <3>3. \A i \in Range(unused) : i \in DOMAIN data
      BY <1>1, <2>1 DEF Inv, Chained, Range
    <3>. QED
      BY <3>1, <3>2, <3>3
  <2>5. IsInjective(occupied) /\ IsInjective(unused)
    BY <1>1, <2>1 DEF Inv, Apart, IsInjective
  <2>6. /\ first_free_cell = At(unused, 1)
        /\ \A i \in DOMAIN unused : data[unused[i]].next = At(unused, i + 1)
    BY <1>1, <2>1 DEF Inv, Chained
  <2>. QED
    BY <2>2, <2>3, <2>4, <2>5, <2>6 DEF CellsAccountedFor
<1>. QED
  BY <1>1, Invariance, PTL

-----------------------------------------------------------------------------
(* The queue is a FIFO from which entries are withdrawn by their index. *)

Pairs == Nat \X Values
EntriesOf(o, d) == [i \in DOMAIN o |-> <<o[i], d[o[i]].value[1]>>]

\* Sequences that agree at every place are the same.
LEMMA SameSequence ==
  ASSUME NEW S, NEW s \in Seq(S), NEW t \in Seq(S), Len(s) = Len(t),
         \A i \in 1 .. Len(s) : s[i] = t[i]
  PROVE  s = t
  BY SMTT(30)

\* The abstract queue has one entry for every occupied cell: its index and
\* its value.
LEMMA EntriesAre ==
  ASSUME NEW o \in Seq(Nat), NEW D, NEW d \in [D -> Cells],
         \A i \in 1 .. Len(o) : o[i] \in D /\ d[o[i]].value # <<>>
  PROVE  /\ EntriesOf(o, d) \in Seq(Pairs) /\ Len(EntriesOf(o, d)) = Len(o)
         /\ DOMAIN EntriesOf(o, d) = 1 .. Len(o)
         /\ \A i \in 1 .. Len(o) : /\ EntriesOf(o, d)[i] = <<o[i], d[o[i]].value[1]>>
                                   /\ EntriesOf(o, d)[i][1] = o[i]
                                   /\ <<EntriesOf(o, d)[i][2]>> = d[o[i]].value
<1> DEFINE e == EntriesOf(o, d)
<1>1. Len(o) \in Nat /\ DOMAIN o = 1 .. Len(o) /\ \A i \in 1 .. Len(o) : o[i] \in Nat
  BY Places
<1>2. ASSUME NEW i \in 1 .. Len(o)
      PROVE  d[o[i]].value[1] \in Values /\ <<d[o[i]].value[1]>> = d[o[i]].value
  <2>1. d[o[i]].value \in {<<value>> : value \in Values}
    BY SMTT(30) DEF Cells
  <2>2. PICK value \in Values : d[o[i]].value = <<value>>
    BY <2>1
  <2>. QED
    BY SMTT(30), <2>2
<1>3. \A i \in 1 .. Len(o) : e[i] = <<o[i], d[o[i]].value[1]>>
  BY <1>1 DEF EntriesOf
<1>4. e \in [1 .. Len(o) -> Pairs]
  <2>1. \A i \in 1 .. Len(o) : <<o[i], d[o[i]].value[1]>> \in Pairs
    BY <1>1, <1>2 DEF Pairs
  <2>. QED
    BY <1>1, <2>1 DEF EntriesOf
<1>5. DOMAIN e = 1 .. Len(o)
  BY <1>4
<1>. HIDE DEF e
<1>6. \A i \in 1 .. Len(o) : e[i][1] = o[i] /\ e[i][2] = d[o[i]].value[1]
  BY SMTT(30), <1>3
<1>7. e \in Seq(Pairs) /\ Len(e) = Len(o)
  BY <1>1, <1>4, IsSequence
<1>8. \A i \in 1 .. Len(o) : <<e[i][2]>> = d[o[i]].value
  BY <1>2, <1>6
<1>. QED
  BY <1>3, <1>5, <1>6, <1>7, <1>8 DEF e

\* What the entries are in a state, and in the next.
LEMMA EntriesNow ==
  ASSUME Inv
  PROVE  /\ Entries \in Seq(Pairs) /\ Len(Entries) = Len(occupied)
         /\ DOMAIN Entries = 1 .. Len(occupied)
         /\ \A i \in 1 .. Len(occupied) : /\ Entries[i] = <<occupied[i], data[occupied[i]].value[1]>>
                                          /\ Entries[i][1] = occupied[i]
                                          /\ <<Entries[i][2]>> = data[occupied[i]].value
<1>1. occupied \in Seq(Nat) /\ data \in [DOMAIN data -> Cells]
  BY DEF Inv, TypeOK
<1>2. \A i \in 1 .. Len(occupied) : occupied[i] \in DOMAIN data /\ data[occupied[i]].value # <<>>
  BY DEF Inv, Filled
<1>3. Entries = EntriesOf(occupied, data)
  BY DEF Entries, EntriesOf
<1> DEFINE e == EntriesOf(occupied, data)
<1>4. /\ e \in Seq(Pairs) /\ Len(e) = Len(occupied) /\ DOMAIN e = 1 .. Len(occupied)
      /\ \A i \in 1 .. Len(occupied) : /\ e[i] = <<occupied[i], data[occupied[i]].value[1]>>
                                       /\ e[i][1] = occupied[i]
                                       /\ <<e[i][2]>> = data[occupied[i]].value
  BY <1>1, <1>2, EntriesAre
<1>. QED
  BY <1>3, <1>4

\* The same after a step.
LEMMA EntriesNext ==
  ASSUME Inv'
  PROVE  /\ Entries' \in Seq(Pairs) /\ Len(Entries') = Len(occupied')
         /\ \A i \in 1 .. Len(occupied') :
              Entries'[i] = <<occupied'[i], data'[occupied'[i]].value[1]>>
<1>1. occupied' \in Seq(Nat) /\ data' \in [DOMAIN data' -> Cells]
  BY DEF Inv, TypeOK
<1>2. \A i \in 1 .. Len(occupied') : occupied'[i] \in DOMAIN data' /\ data'[occupied'[i]].value # <<>>
  BY DEF Inv, Filled
<1>3. Entries' = EntriesOf(occupied', data')
  BY DEF Entries, EntriesOf
<1>. QED
  BY <1>1, <1>2, <1>3, EntriesAre

\* A write of the array is a write of the queue.
LEMMA WriteRefines ==
  ASSUME Inv, Inv', NEW value \in Values, write(value)
  PROVE  \E index \in Indexes : Queue!QueueWrite(index, value)
<1> DEFINE m == Len(occupied)
<1>1. m \in Nat /\ \A i \in 1 .. m + 1 : i = m + 1 \/ i \in 1 .. m
  <2>1. m \in Nat
    BY Places DEF Inv, TypeOK
  <2>. QED
    BY SMTT(30), <2>1
<1>2. Cell \in Indexes
  BY SMTT(30), WriteIs, QueueAssumption DEF Indexes
<1>3. /\ Cell \in Nat /\ \A k \in 1 .. m : occupied[k] # Cell
  BY Taken, WriteIs
<1>4. Cell \notin Queue!Used
  BY <1>3, EntriesNow DEF Queue!Used
<1>5. <<Cell, value>> \in Pairs
  BY <1>3 DEF Pairs
<1>6. /\ Append(Entries, <<Cell, value>>) \in Seq(Pairs)
      /\ Len(Append(Entries, <<Cell, value>>)) = m + 1
      /\ Append(Entries, <<Cell, value>>)[m + 1] = <<Cell, value>>
      /\ \A j \in 1 .. m : Append(Entries, <<Cell, value>>)[j] = Entries[j]
  <2>1. Entries \in Seq(Pairs) /\ Len(Entries) = m
    BY EntriesNow
  <2>. QED
    BY SMTT(30), <1>5, <2>1
<1>7. occupied' = Append(occupied, Cell) /\ occupied \in Seq(Nat)
  BY WriteIs DEF Inv, TypeOK
<1>8. /\ Len(occupied') = m + 1 /\ occupied'[m + 1] = Cell
      /\ \A j \in 1 .. m : j \in 1 .. m + 1 /\ occupied'[j] = occupied[j]
  BY <1>3, <1>7, PlacesAppend
<1>9. Entries' \in Seq(Pairs) /\ Len(Entries') = m + 1
  BY <1>8, EntriesNext
<1>10. ASSUME NEW j \in 1 .. m
       PROVE  Entries'[j] = Append(Entries, <<Cell, value>>)[j]
  <2>1. Entries'[j] = <<occupied[j], data'[occupied[j]].value[1]>>
    BY <1>8, EntriesNext
  <2>2. data'[occupied[j]].value = data[occupied[j]].value
    BY <1>3, Linked, WriteIs
  <2>. QED
    BY <1>6, <2>1, <2>2, EntriesNow
<1>11. Entries'[m + 1] = <<Cell, value>>
  <2>1. m + 1 \in 1 .. m + 1
    BY SMTT(30), <1>1
  <2>2. Entries'[m + 1] = <<Cell, data'[Cell].value[1]>>
    BY <1>8, <2>1, EntriesNext
  <2>3. data'[Cell].value[1] = value
    BY SMTT(30), WriteIs
  <2>. QED
    BY <2>2, <2>3
<1>12. Entries' = Append(Entries, <<Cell, value>>)
  <2>1. \A i \in 1 .. m + 1 : Entries'[i] = Append(Entries, <<Cell, value>>)[i]
    BY <1>1, <1>6, <1>10, <1>11
  <2>. QED
    BY <1>6, <1>9, <2>1, SameSequence
<1>13. UNCHANGED result
  BY DEF write
<1>. QED
  BY <1>2, <1>4, <1>12, <1>13 DEF Queue!QueueWrite

\* A cell taken out of the array is an entry taken out of the queue.
LEMMA FreeRefines ==
  ASSUME Inv, Inv', NEW p \in 1 .. Len(occupied), free(occupied[p])
  PROVE  Entries' = Without(Entries, p)
<1> DEFINE n == Len(occupied)
<1>1. Entries \in Seq(Pairs) /\ Len(Entries) = n
  BY EntriesNow
<1>2. /\ Without(Entries, p) \in Seq(Pairs) /\ Len(Without(Entries, p)) = n - 1
      /\ \A j \in 1 .. n - 1 : Without(Entries, p)[j] = Entries[IF j < p THEN j ELSE j + 1]
  BY <1>1, WithoutIs
<1>3. occupied' = Without(occupied, p) /\ occupied \in Seq(Nat)
  BY FreeIs DEF Inv, TypeOK
<1>4. /\ Len(occupied') = n - 1
      /\ \A j \in 1 .. n - 1 : \E k \in 1 .. n :
           k # p /\ k = (IF j < p THEN j ELSE j + 1) /\ occupied'[j] = occupied[k]
  BY <1>3, PlacesWithout
<1>5. Entries' \in Seq(Pairs) /\ Len(Entries') = n - 1
  BY <1>4, EntriesNext
<1>6. ASSUME NEW j \in 1 .. n - 1
      PROVE  Entries'[j] = Without(Entries, p)[j]
  <2>1. PICK k \in 1 .. n : k # p /\ k = (IF j < p THEN j ELSE j + 1) /\ occupied'[j] = occupied[k]
    BY <1>4
  <2>2. Entries'[j] = <<occupied[k], data'[occupied[k]].value[1]>>
    BY <1>4, <2>1, EntriesNext
  <2>3. data'[occupied[k]].value = data[occupied[k]].value
    <3>1. occupied[k] # occupied[p] /\ occupied[k] \in 0 .. Size - 1
      BY <2>1, Linked DEF Inv, Apart
    <3>. QED
      BY <3>1, FreeIs
  <2>. QED
    BY <1>2, <2>1, <2>2, <2>3, EntriesNow
<1>. QED
  BY <1>2, <1>5, <1>6, SameSequence

\* lazy_free of a cell of the queue withdraws its entry.
LEMMA LazyFreeRefines ==
  ASSUME Inv, Inv', NEW index \in Indexes, has(index), free(index), UNCHANGED result
  PROVE  Queue!QueueFree(index)
<1>1. PICK p \in 1 .. Len(occupied) : occupied[p] = index
  BY HasIs
<1>2. Entries' = Without(Entries, p)
  BY <1>1, FreeRefines
<1>3. Queue!Without(p) = Without(Entries, p)
  BY DEF Queue!Without, Without
<1>4. p \in DOMAIN Entries /\ Entries[p][1] = index
  BY <1>1, EntriesNow
<1>. QED
  BY <1>2, <1>3, <1>4 DEF Queue!QueueFree

\* read takes the first entry of the abstract queue.
LEMMA ReadRefines ==
  ASSUME Inv, Inv', read
  PROVE  Queue!QueueRead
<1>1. 1 \in 1 .. Len(occupied) /\ head = occupied[1]
  BY HeadIs DEF read
<1>2. Entries' = Without(Entries, 1)
  BY <1>1, FreeRefines DEF read
<1>3. Entries \in Seq(Pairs) /\ Len(Entries) = Len(occupied) /\ 1 \in 1 .. Len(Entries)
  BY <1>1, EntriesNow
<1>4. Entries # <<>> /\ Head(Entries) = Entries[1]
  BY SMTT(30), <1>3
<1>5. Without(Entries, 1) = Tail(Entries)
  <2>1. /\ Without(Entries, 1) \in Seq(Pairs) /\ Len(Without(Entries, 1)) = Len(Entries) - 1
        /\ \A j \in 1 .. Len(Entries) - 1 :
             Without(Entries, 1)[j] = Entries[IF j < 1 THEN j ELSE j + 1]
    BY <1>3, WithoutIs
  <2>2. /\ Tail(Entries) \in Seq(Pairs) /\ Len(Tail(Entries)) = Len(Entries) - 1
        /\ \A j \in 1 .. Len(Entries) - 1 : Tail(Entries)[j] = Entries[j + 1]
    BY <1>3, <1>4, TailIs
  <2>3. \A j \in 1 .. Len(Entries) - 1 : ~(j < 1)
    BY SMTT(30)
  <2>4. \A j \in 1 .. Len(Entries) - 1 : Without(Entries, 1)[j] = Tail(Entries)[j]
    BY <2>1, <2>2, <2>3
  <2>. QED
    BY <2>1, <2>2, <2>4, SameSequence
<1>6. result' = <<Head(Entries)[2]>>
  BY <1>1, <1>4, EntriesNow DEF read
<1>. QED
  BY <1>2, <1>4, <1>5, <1>6 DEF Queue!QueueRead

\* Values are read in the order of their writes, without those withdrawn by
\* lazy_free, and an index belongs to one value at a time, whatever the number
\* of cells and the order of the calls.
THEOREM ImplementsTheQueue == Spec => ImplementsQueue
<1>1. Init => Queue!QueueInit
  <2> SUFFICES ASSUME Init
               PROVE  Entries = <<>> /\ result = <<>>
    BY DEF Queue!QueueInit
  <2>1. DOMAIN occupied = {}
    BY SMTT(30) DEF Init
  <2>2. Entries = [i \in {} |-> <<occupied[i], data[occupied[i]].value[1]>>]
    BY <2>1 DEF Entries
  <2>3. Entries = <<>>
    BY SMTT(30), <2>2
  <2>. QED
    BY <2>3 DEF Init
<1>2. Inv /\ Inv' /\ [Next]_vars => [Queue!QueueNext]_(Queue!queueVars)
  <2> SUFFICES ASSUME Inv, Inv', [Next]_vars
               PROVE  [Queue!QueueNext]_(Queue!queueVars)
    OBVIOUS
  <2>1. CASE UNCHANGED vars
    BY <2>1 DEF vars, Queue!queueVars, Entries
  <2>2. ASSUME NEW value \in Values, write(value)
        PROVE  Queue!QueueNext
    BY <2>2, WriteRefines DEF Queue!QueueNext
  <2>3. ASSUME NEW index \in Indexes, lazy_free(index)
        PROVE  [Queue!QueueNext]_(Queue!queueVars)
    <3>1. CASE has(index) /\ free(index) /\ UNCHANGED result
      BY <3>1, LazyFreeRefines DEF Queue!QueueNext
    <3>2. CASE UNCHANGED vars
      BY <2>1, <3>2
    <3>. QED
      BY <2>3, <3>1, <3>2 DEF lazy_free
  <2>4. CASE read
    BY <2>4, ReadRefines DEF Queue!QueueNext
  <2>. QED
    BY <2>1, <2>2, <2>3, <2>4 DEF Next
<1>. QED
  BY <1>1, <1>2, Invariance, PTL DEF Spec, ImplementsQueue, Queue!QueueSpec

=============================================================================
