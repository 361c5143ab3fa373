----------------------------- MODULE MenuProofs -----------------------------
(***************************************************************************)
(* Proofs about the parts of Menu that are not recursive: the tree that    *)
(* menu.c builds and menu_finalize takes apart and together again,         *)
(* sym_check_deps, and what expr.c makes of two tests of one symbol.       *)
(*                                                                         *)
(* The tree.  Numbered as they were declared, the entries of a well formed *)
(* tree are numbered as a walk meets them; with u[n] the last entry met    *)
(* before a walk leaves n, every link is a matter of arithmetic (Shape).   *)
(* While menu_finalize runs, the links and the parents disagree: entries   *)
(* that an option is gathering have it as their parent and are still linked*)
(* as if they followed it.  The invariant TreeInv says where they are      *)
(* linked (Placed), that this is a well formed tree, and how far each call *)
(* on the stack is.                                                        *)
(*                                                                         *)
(* The check.  CheckInv is that of a depth first search: what a symbol     *)
(* whose check is over depends on is over too, and of those never named no *)
(* set is without a way out.                                               *)
(***************************************************************************)
EXTENDS MenuTree, DepCheck, Integers, FiniteSetTheorems, SequenceTheorems, NaturalsInduction,
        WellFoundedInduction, TLAPS

(* A tree of k entries numbered as a walk meets them: l, x and p are the   *)
(* first entry below each, the one after it and the one around it; u is the*)
(* last entry that is met before a walk has left it.                       *)
Typed(l, x, p, u, k) ==
  /\ k \in Nat \ {0} /\ u \in [1..k -> 1..k]
  /\ \A n \in 1..k : l[n] \in 0..k /\ x[n] \in 0..k /\ p[n] \in 0..k
Ends(l, x, p, u, k) ==
  /\ u[1] = k /\ x[1] = 0 /\ p[1] = 0
  /\ \A n \in 1..k : n <= u[n] /\ (l[n] = 0 => u[n] = n)
Downs(l, x, p, u, k) ==
  \A n \in 1..k : l[n] # 0 => l[n] = n + 1 /\ p[l[n]] = n
Ons(l, x, p, u, k) ==
  \A n \in 1..k : x[n] # 0 => x[n] = u[n] + 1 /\ p[x[n]] = p[n]
Lasts(l, x, p, u, k) ==
  \A n \in 2..k : x[n] = 0 => u[n] = u[p[n]]
Ups(l, x, p, u, k) ==
  \A n \in 2..k : p[n] \in 1..(n - 1) /\ u[n] <= u[p[n]]
Nested(l, x, p, u, k) ==
  \A n, y \in 1..k : n < y /\ y <= u[n] => n <= p[y] /\ u[y] <= u[n]
Shape(l, x, p, u, k) ==
  /\ Typed(l, x, p, u, k) /\ Ends(l, x, p, u, k) /\ Downs(l, x, p, u, k)
  /\ Ons(l, x, p, u, k) /\ Lasts(l, x, p, u, k) /\ Ups(l, x, p, u, k)
  /\ Nested(l, x, p, u, k)


LEMMA ShapeFacts ==
  ASSUME NEW l, NEW x, NEW p, NEW u, NEW k, Shape(l, x, p, u, k)
  PROVE  /\ k \in Nat /\ k > 0 /\ u[1] = k /\ x[1] = 0 /\ p[1] = 0
         /\ \A n \in 1..k : /\ l[n] \in 0..k /\ x[n] \in 0..k /\ p[n] \in 0..k /\ u[n] \in 1..k
                            /\ n <= u[n] /\ (l[n] = 0 => u[n] = n)
                            /\ l[n] # 0 => l[n] = n + 1 /\ p[l[n]] = n
                            /\ x[n] # 0 => x[n] = u[n] + 1 /\ p[x[n]] = p[n]
         /\ \A n \in 2..k : /\ x[n] = 0 => u[n] = u[p[n]]
                            /\ p[n] \in 1..(n - 1) /\ p[n] \in 1..k /\ u[n] <= u[p[n]]
         /\ \A n, y \in 1..k : n < y /\ y <= u[n] => n <= p[y] /\ u[y] <= u[n]
<1>1. Typed(l, x, p, u, k) /\ Ends(l, x, p, u, k)
  BY DEF Shape
<1>2. \A n \in 1..k : /\ l[n] \in 0..k /\ x[n] \in 0..k /\ p[n] \in 0..k /\ u[n] \in 1..k
                      /\ n <= u[n] /\ (l[n] = 0 => u[n] = n)
  BY <1>1 DEF Typed, Ends
<1>3. k \in Nat /\ k > 0 /\ u[1] = k /\ x[1] = 0 /\ p[1] = 0
  BY <1>1 DEF Typed, Ends
<1>4. \A n \in 2..k : p[n] \in 1..(n - 1) /\ u[n] <= u[p[n]] /\ (x[n] = 0 => u[n] = u[p[n]])
  BY DEF Shape, Ups, Lasts
<1>5. \A n \in 2..k : p[n] \in 1..k
  BY <1>3, <1>4
<1>6. \A n \in 1..k : /\ l[n] # 0 => l[n] = n + 1 /\ p[l[n]] = n
                      /\ x[n] # 0 => x[n] = u[n] + 1 /\ p[x[n]] = p[n]
  BY DEF Shape, Downs, Ons
<1>7. \A n, y \in 1..k : n < y /\ y <= u[n] => n <= p[y] /\ u[y] <= u[n]
  BY DEF Shape, Nested
<1> QED
  BY <1>2, <1>3, <1>4, <1>5, <1>6, <1>7

LEMMA AtEntry ==
  ASSUME NEW l, NEW x, NEW p, NEW u, NEW k, Shape(l, x, p, u, k), NEW n \in 1..k
  PROVE  /\ k \in Nat /\ n \in Nat /\ u[n] \in 1..k /\ u[n] \in Nat /\ n <= u[n] /\ u[n] <= k
         /\ l[n] \in 0..k /\ x[n] \in 0..k /\ p[n] \in 0..k
         /\ l[n] = 0 => u[n] = n
         /\ l[n] # 0 => l[n] = n + 1 /\ n + 1 \in 1..k /\ p[n + 1] = n
         /\ x[n] # 0 => x[n] = u[n] + 1 /\ u[n] + 1 \in 1..k /\ p[u[n] + 1] = p[n]
<1>1. /\ k \in Nat
      /\ l[n] \in 0..k /\ x[n] \in 0..k /\ p[n] \in 0..k /\ u[n] \in 1..k
      /\ n <= u[n] /\ (l[n] = 0 => u[n] = n)
  BY ShapeFacts
<1>2. l[n] # 0 => l[n] = n + 1 /\ p[l[n]] = n
  BY ShapeFacts
<1>3. x[n] # 0 => x[n] = u[n] + 1 /\ p[x[n]] = p[n]
  BY ShapeFacts
<1> QED
  BY <1>1, <1>2, <1>3

LEMMA AtBelow ==
  ASSUME NEW l, NEW x, NEW p, NEW u, NEW k, Shape(l, x, p, u, k), NEW n \in 2..k
  PROVE  /\ n \in 1..k /\ p[n] \in 1..k /\ p[n] \in Nat /\ p[n] < n /\ u[n] <= u[p[n]]
         /\ n <= u[p[n]] /\ u[p[n]] \in Nat /\ u[p[n]] <= k
         /\ x[n] = 0 => u[n] = u[p[n]]
<1>1. k \in Nat /\ n \in 1..k
  BY ShapeFacts
<1>2. p[n] \in 1..(n - 1) /\ p[n] \in 1..k /\ u[n] <= u[p[n]] /\ (x[n] = 0 => u[n] = u[p[n]])
  BY ShapeFacts
<1>3. u[n] \in Nat /\ n <= u[n] /\ u[p[n]] \in Nat /\ u[p[n]] <= k
  BY <1>1, <1>2, AtEntry
<1> QED
  BY <1>1, <1>2, <1>3

LEMMA AtTwo ==
  ASSUME NEW l, NEW x, NEW p, NEW u, NEW k, Shape(l, x, p, u, k), NEW n \in 1..k, NEW y \in 1..k,
         n < y, y <= u[n]
  PROVE  n <= p[y] /\ u[y] <= u[n]
  BY ShapeFacts

(* An entry is added where the tree ends: below entry c, as its first or   *)
(* after the entry z.                                                      *)
AtEnd(l, x, p, u, k, way, z, c) ==
  /\ \A y \in 1..k : y <= c /\ c <= u[y] => u[y] = k /\ x[y] = 0
  /\ way = "list" => l[z] = 0 /\ z = c /\ c = k
  /\ way = "next" => z # 1 /\ x[z] = 0 /\ p[z] = c /\ u[z] = k
Stretched(u, v, k, c) ==
  v = [n \in 1..(k + 1) |-> IF n = k + 1 \/ (n <= c /\ c <= u[n]) THEN k + 1 ELSE u[n]]
Linked(l, x, p, k, l2, x2, p2, way, z, c) ==
  /\ \A n \in 1..k : /\ l2[n] = IF way = "list" /\ n = z THEN k + 1 ELSE l[n]
                     /\ x2[n] = IF way = "next" /\ n = z THEN k + 1 ELSE x[n]
                     /\ p2[n] = p[n]
  /\ l2[k + 1] = 0 /\ x2[k + 1] = 0 /\ p2[k + 1] = c

LEMMA LinkShape ==
  ASSUME NEW l, NEW x, NEW p, NEW u, NEW k, Shape(l, x, p, u, k),
         NEW l2, NEW x2, NEW p2, NEW way \in {"list", "next"}, NEW z \in 1..k, NEW c \in 1..k,
         AtEnd(l, x, p, u, k, way, z, c), Linked(l, x, p, k, l2, x2, p2, way, z, c),
         NEW v, Stretched(u, v, k, c)
  PROVE  Shape(l2, x2, p2, v, k + 1)
<1> DEFINE In(n) == n <= c /\ c <= u[n]
<1>v. v = [n \in 1..(k + 1) |-> IF n = k + 1 \/ (n <= c /\ c <= u[n]) THEN k + 1 ELSE u[n]]
  BY DEF Stretched
<1>a. \A y \in 1..k : y <= c /\ c <= u[y] => u[y] = k /\ x[y] = 0
  BY DEF AtEnd
<1>b. /\ way = "list" => l[z] = 0 /\ z = c /\ c = k
      /\ way = "next" => z # 1 /\ x[z] = 0 /\ p[z] = c /\ u[z] = k
  BY DEF AtEnd
<1>c. \A n \in 1..k : /\ l2[n] = IF way = "list" /\ n = z THEN k + 1 ELSE l[n]
                      /\ x2[n] = IF way = "next" /\ n = z THEN k + 1 ELSE x[n]
                      /\ p2[n] = p[n]
  BY DEF Linked
<1>d. l2[k + 1] = 0 /\ x2[k + 1] = 0 /\ p2[k + 1] = c
  BY DEF Linked
<1>1. k \in Nat /\ k > 0 /\ u[1] = k /\ x[1] = 0 /\ p[1] = 0 /\ c \in Nat /\ c <= k /\ z \in Nat
  BY ShapeFacts
<1>2. \A n \in 1..k : n \in 1..(k + 1) /\ n # k + 1 /\ n \in Nat /\ u[n] \in Nat /\ n <= u[n] /\ u[n] <= k
  BY <1>1, AtEntry
<1>3. \A n \in 1..k : In(n) => v[n] = k + 1
  BY <1>v, <1>1, <1>2
<1>4. \A n \in 1..k : ~In(n) => v[n] = u[n]
  BY <1>v, <1>1, <1>2
<1>5. v[k + 1] = k + 1
  BY <1>v, <1>1
<1>6. v \in [1..(k + 1) -> 1..(k + 1)]
  <2> SUFFICES ASSUME NEW n \in 1..(k + 1)
               PROVE  (IF n = k + 1 \/ (n <= c /\ c <= u[n]) THEN k + 1 ELSE u[n]) \in 1..(k + 1)
    BY <1>v
  <2> QED
    BY <1>1, <1>2
<1>7. \A n \in 1..k : u[n] <= v[n] /\ v[n] \in Nat /\ v[n] <= k + 1
  BY <1>1, <1>2, <1>3, <1>4
<1>8. \A n \in 1..(k + 1) : n = k + 1 \/ n \in 1..k
  BY <1>1
<1>9. \A n \in 1..k : /\ l2[n] = 0 => l[n] = 0 /\ ~(way = "list" /\ n = z)
                      /\ l2[n] # 0 => (way = "list" /\ n = z /\ l2[n] = k + 1) \/ (l2[n] = l[n] /\ l[n] # 0)
                      /\ x2[n] = 0 => x[n] = 0 /\ ~(way = "next" /\ n = z)
                      /\ x2[n] # 0 => (way = "next" /\ n = z /\ x2[n] = k + 1) \/ (x2[n] = x[n] /\ x[n] # 0)
                      /\ p2[n] = p[n]
  BY <1>c, <1>1
<1>10. Typed(l2, x2, p2, v, k + 1)
  <2>1. ASSUME NEW n \in 1..k PROVE l2[n] \in 0..(k + 1) /\ x2[n] \in 0..(k + 1) /\ p2[n] \in 0..(k + 1)
    <3>1. l[n] \in 0..k /\ x[n] \in 0..k /\ p[n] \in 0..k
      BY AtEntry
    <3> QED
      BY <3>1, <1>1, <1>9
  <2>2. l2[k + 1] \in 0..(k + 1) /\ x2[k + 1] \in 0..(k + 1) /\ p2[k + 1] \in 0..(k + 1)
    BY <1>d, <1>1
  <2>3. \A n \in 1..(k + 1) : l2[n] \in 0..(k + 1) /\ x2[n] \in 0..(k + 1) /\ p2[n] \in 0..(k + 1)
    BY <2>1, <2>2, <1>8
  <2> QED
    BY <1>1, <1>6, <2>3 DEF Typed
<1>11. Ends(l2, x2, p2, v, k + 1)
  <2>1. v[1] = k + 1 /\ 1 \in 1..k
    BY <1>1, <1>3
  <2>2. x2[1] = 0 /\ p2[1] = 0
    BY <1>b, <1>c, <2>1, <1>1
  <2>3. ASSUME NEW n \in 1..k PROVE n <= v[n] /\ (l2[n] = 0 => v[n] = n)
    <3>1. n <= v[n]
      BY <1>2, <1>7
    <3>2. ASSUME l2[n] = 0 PROVE v[n] = n
      <4>1. l[n] = 0 /\ ~(way = "list" /\ n = z)
        BY <1>9, <3>2
      <4>2. u[n] = n
        BY <4>1, AtEntry
      <4>3. ASSUME n = c PROVE FALSE
        <5>1. way = "next" /\ z # 1 /\ p[z] = n /\ u[z] = k /\ z \in 2..k
          BY <1>b, <1>1, <4>1, <4>3
        <5>2. p[z] < z /\ z <= u[p[z]]
          BY <5>1, AtBelow
        <5> QED
          BY <5>1, <5>2, <4>2, <1>2
      <4>4. ~In(n)
        BY <1>1, <1>2, <4>2, <4>3
      <4> QED
        BY <1>4, <4>2, <4>4
    <3> QED
      BY <3>1, <3>2
  <2>4. \A n \in 1..(k + 1) : n <= v[n] /\ (l2[n] = 0 => v[n] = n)
    BY <1>1, <1>5, <1>8, <2>3
  <2> QED
    BY <2>1, <2>2, <2>4 DEF Ends
<1>12. Downs(l2, x2, p2, v, k + 1)
  <2> SUFFICES ASSUME NEW n \in 1..k, l2[n] # 0 PROVE l2[n] = n + 1 /\ p2[l2[n]] = n
    BY <1>d, <1>8 DEF Downs
  <2>1. CASE way = "list" /\ n = z /\ l2[n] = k + 1
    BY <1>b, <1>d, <1>1, <2>1
  <2>2. CASE l2[n] = l[n] /\ l[n] # 0
    <3>1. l[n] = n + 1 /\ n + 1 \in 1..k /\ p[n + 1] = n
      BY <2>2, AtEntry
    <3> QED
      BY <3>1, <2>2, <1>9
  <2> QED
    BY <1>9, <2>1, <2>2
<1>13. c \in 1..k /\ c < k + 1 /\ v[c] = k + 1
  BY <1>1, <1>2, <1>3
<1>14. Ons(l2, x2, p2, v, k + 1)
  <2> SUFFICES ASSUME NEW n \in 1..k, x2[n] # 0 PROVE x2[n] = v[n] + 1 /\ p2[x2[n]] = p2[n]
    BY <1>d, <1>8 DEF Ons
  <2>1. CASE way = "next" /\ n = z /\ x2[n] = k + 1
    <3>1. u[z] = k /\ p[z] = c /\ p2[n] = c /\ z \in 2..k
      BY <1>b, <1>1, <1>9, <2>1
    <3>2. c < z
      BY <3>1, AtBelow
    <3>3. v[n] = k
      BY <1>1, <1>4, <2>1, <3>1, <3>2
    <3> QED
      BY <1>d, <2>1, <3>1, <3>3
  <2>2. CASE x2[n] = x[n] /\ x[n] # 0
    <3>1. x[n] = u[n] + 1 /\ u[n] + 1 \in 1..k /\ p[u[n] + 1] = p[n]
      BY <2>2, AtEntry
    <3>2. ~In(n)
      BY <1>a, <2>2
    <3> QED
      BY <1>4, <1>9, <2>2, <3>1, <3>2
  <2> QED
    BY <1>9, <2>1, <2>2
<1>15. Lasts(l2, x2, p2, v, k + 1)
  <2>1. ASSUME NEW n \in 2..k, x2[n] = 0 PROVE v[n] = v[p[n]]
    <3>1. /\ x[n] = 0 /\ ~(way = "next" /\ n = z) /\ n \in 1..k /\ p[n] \in 1..k /\ p[n] \in Nat
          /\ u[n] = u[p[n]] /\ p[n] < n /\ n <= u[n] /\ u[n] <= k /\ u[n] \in Nat /\ n \in Nat
      <4>1. n \in 1..k
        BY <1>1
      <4> QED
        BY <1>9, <2>1, <4>1, AtBelow, <1>2
    <3>2. CASE In(n)
      <4>1. In(p[n])
        BY <1>1, <3>1, <3>2
      <4> QED
        BY <1>3, <3>1, <3>2, <4>1
    <3>3. CASE ~In(n) /\ ~In(p[n])
      BY <1>4, <3>1, <3>3
    <3>4. CASE ~In(n) /\ In(p[n])
      <4>1. c < n /\ u[n] = k
        BY <1>a, <1>1, <3>1, <3>4
      <4>2. u[c] = k
        BY <1>a, <1>2
      <4>3. c <= p[n]
        BY <4>1, <4>2, <3>1, AtTwo, <1>1
      <4>4. p[n] = c
        BY <4>3, <3>1, <3>4, <1>1
      <4>5. way = "next"
        BY <1>b, <1>1, <4>1, <3>1
      <4>6. p[z] = c /\ u[z] = k /\ z \in 2..k /\ z # n
        BY <1>b, <1>1, <4>5, <3>1
      <4>7. c < z
        BY <4>6, AtBelow
      <4>8. CASE n < z
        <5>1. n <= p[z]
          BY <4>6, <4>8, <4>1, <3>1, AtTwo, <1>1
        <5> QED
          BY <5>1, <4>6, <4>1, <1>1, <3>1
      <4>9. CASE z < n
        <5>1. z <= p[n]
          BY <4>6, <4>9, <4>1, <3>1, AtTwo, <1>1
        <5> QED
          BY <5>1, <4>4, <4>7, <1>1, <3>1
      <4> QED
        BY <4>6, <4>8, <4>9, <1>1, <3>1
    <3> QED
      BY <3>2, <3>3, <3>4
  <2>2. \A n \in 2..(k + 1) : n = k + 1 \/ n \in 2..k
    BY <1>1
  <2>3. v[k + 1] = v[p2[k + 1]]
    BY <1>d, <1>5, <1>13
  <2>4. \A n \in 2..k : n \in 1..k
    BY <1>1
  <2>5. \A n \in 2..k : x2[n] = 0 => v[n] = v[p2[n]]
    BY <1>9, <2>1, <2>4
  <2> QED
    BY <2>2, <2>3, <2>5 DEF Lasts
<1>16. Ups(l2, x2, p2, v, k + 1)
  <2>1. ASSUME NEW n \in 2..k PROVE p2[n] \in 1..(n - 1) /\ v[n] <= v[p2[n]]
    <3>1. /\ n \in 1..k /\ p[n] \in 1..k /\ p[n] \in Nat /\ p[n] < n /\ n \in Nat
          /\ u[n] <= u[p[n]] /\ u[n] \in Nat /\ u[p[n]] \in Nat
      BY AtBelow, <1>2
    <3>2. p2[n] = p[n] /\ p[n] \in 1..(n - 1)
      BY <1>9, <3>1
    <3>3. CASE In(n)
      <4>1. In(p[n])
        BY <1>1, <3>1, <3>3
      <4>2. v[n] = k + 1 /\ v[p[n]] = k + 1
        BY <1>3, <3>1, <3>3, <4>1
      <4> QED
        BY <4>2, <3>2, <1>1
    <3>4. CASE ~In(n)
      <4>1. v[n] = u[n] /\ u[p[n]] <= v[p[n]] /\ v[p[n]] \in Nat
        BY <1>4, <1>7, <3>1, <3>4
      <4> QED
        BY <4>1, <3>1, <3>2
    <3> QED
      BY <3>3, <3>4
  <2>2. p2[k + 1] \in 1..k /\ v[k + 1] <= v[p2[k + 1]]
    BY <1>d, <1>1, <1>5, <1>13
  <2>3. \A n \in 2..(k + 1) : n = k + 1 \/ n \in 2..k
    BY <1>1
  <2>4. (k + 1) - 1 = k
    BY <1>1
  <2>5. \A n \in 2..(k + 1) : p2[n] \in 1..(n - 1) /\ v[n] <= v[p2[n]]
    BY <2>1, <2>2, <2>3, <2>4
  <2> QED
    BY <2>5 DEF Ups
<1>17. Nested(l2, x2, p2, v, k + 1)
  <2>1. ASSUME NEW n \in 1..k, NEW y \in 1..(k + 1), n < y, y <= v[n]
        PROVE  n <= p2[y] /\ v[y] <= v[n]
    <3>1. CASE y = k + 1
      <4>1. In(n)
        BY <1>1, <1>2, <1>4, <2>1, <3>1
      <4> QED
        BY <1>d, <4>1, <1>3, <1>5, <3>1, <1>1
    <3>2. CASE y \in 1..k
      <4>1. y <= u[n]
        <5>1. CASE In(n)
          <6>1. u[n] = k
            BY <1>a, <5>1
          <6> QED
            BY <6>1, <3>2, <1>1
        <5>2. CASE ~In(n)
          BY <1>4, <2>1, <5>2
        <5> QED
          BY <5>1, <5>2
      <4>2. n <= p[y] /\ u[y] <= u[n]
        BY <2>1, <3>2, <4>1, AtTwo
      <4>3. CASE In(n)
        <5>1. v[n] = k + 1 /\ v[y] <= k + 1
          BY <1>3, <1>7, <3>2, <4>3
        <5> QED
          BY <5>1, <4>2, <1>9, <3>2
      <4>4. CASE ~In(n)
        <5>1. ~In(y)
          BY <1>1, <1>2, <2>1, <3>2, <4>2, <4>4
        <5>2. v[n] = u[n] /\ v[y] = u[y]
          BY <1>4, <3>2, <4>4, <5>1
        <5> QED
          BY <5>2, <4>2, <1>9, <3>2
      <4> QED
        BY <4>3, <4>4
    <3> QED
      BY <1>8, <3>1, <3>2
  <2>2. \A y \in 1..(k + 1) : ~(k + 1 < y)
    BY <1>1
  <2>3. \A n, y \in 1..(k + 1) : n < y /\ y <= v[n] => n <= p2[y] /\ v[y] <= v[n]
    BY <1>8, <2>1, <2>2
  <2> QED
    BY <2>3 DEF Nested
<1> QED
  BY <1>10, <1>11, <1>12, <1>14, <1>15, <1>16, <1>17 DEF Shape

(* The entries of C move below the option p, which they follow up to a.    *)
Movable(l, x, P, u, k, p, a, C) ==
  /\ l[p] = 0 /\ x[p] = p + 1 /\ p + 1 \in C /\ a \in C
  /\ \A n \in C : n \in 1..k /\ p < n /\ n <= a /\ P[n] = P[p]
  /\ \A n \in C : n < a => x[n] # 0 /\ x[n] <= a /\ x[n] \in C
  /\ \A y \in 1..k : p < y /\ y <= u[a] => y \in C \/ p < P[y]
Moved(l, x, P, k, l2, x2, P2, p, a, C) ==
  \A n \in 1..k : /\ l2[n] = IF n = p THEN x[p] ELSE l[n]
                  /\ x2[n] = IF n = a THEN 0 ELSE IF n = p THEN x[a] ELSE x[n]
                  /\ P2[n] = IF n \in C THEN p ELSE P[n]

LEMMA GatherShape ==
  ASSUME NEW l, NEW x, NEW P, NEW u, NEW k, Shape(l, x, P, u, k),
         NEW p \in 2..k, NEW a \in 1..k, NEW C,
         Movable(l, x, P, u, k, p, a, C),
         NEW l2, NEW x2, NEW P2, NEW u2,
         Moved(l, x, P, k, l2, x2, P2, p, a, C), u2 = [u EXCEPT ![p] = u[a]]
  PROVE  Shape(l2, x2, P2, u2, k)
<1>a. \A n \in C : n \in 1..k /\ p < n /\ n <= a /\ P[n] = P[p]
  BY DEF Movable
<1>b. \A n \in C : n < a => x[n] # 0 /\ x[n] <= a /\ x[n] \in C
  BY DEF Movable
<1>c. \A y \in 1..k : p < y /\ y <= u[a] => y \in C \/ p < P[y]
  BY DEF Movable
<1>d. l[p] = 0 /\ x[p] = p + 1 /\ p + 1 \in C /\ a \in C
  BY DEF Movable
<1>e. \A n \in 1..k : /\ l2[n] = IF n = p THEN x[p] ELSE l[n]
                      /\ x2[n] = IF n = a THEN 0 ELSE IF n = p THEN x[a] ELSE x[n]
                      /\ P2[n] = IF n \in C THEN p ELSE P[n]
  BY DEF Moved
<1>0. k \in Nat /\ k > 0 /\ u[1] = k /\ x[1] = 0 /\ P[1] = 0
  BY ShapeFacts
<1>1. /\ k \in Nat /\ k > 0 /\ u[1] = k /\ x[1] = 0 /\ P[1] = 0 /\ 1 \in 1..k
      /\ p \in 1..k /\ p \in Nat /\ a \in Nat /\ p # 1 /\ u \in [1..k -> 1..k]
  <2>1. u \in [1..k -> 1..k]
    BY DEF Shape, Typed
  <2>2. 1 \in 1..k /\ p \in 1..k /\ p \in Nat /\ a \in Nat /\ p # 1
    BY <1>0
  <2> QED
    BY <1>0, <2>1, <2>2
<1>f. p \in 1..k /\ p \in Nat /\ a \in Nat /\ p \in 0..k /\ 0 \in 0..k
  BY <1>0
<1>2. \A n \in 1..k : n \in Nat /\ u[n] \in Nat /\ n <= u[n] /\ u[n] <= k
  BY AtEntry
<1>3. p < a /\ a <= u[a] /\ u[p] = p /\ p \notin C /\ P[a] = P[p]
  <2>1. p < a /\ P[a] = P[p]
    BY <1>a, <1>d
  <2>2. u[p] = p
    BY <1>f, <1>d, AtEntry
  <2>3. p \notin C
    BY <1>a, <1>1
  <2> QED
    BY <2>1, <2>2, <2>3, <1>2
<1>4. P[p] \in 1..k /\ P[p] \in Nat /\ P[p] < p /\ P[p] # p
  BY AtBelow
<1>5. u2[p] = u[a] /\ \A n \in 1..k : n # p => u2[n] = u[n]
  BY <1>1
<1>6. u2 \in [1..k -> 1..k]
  BY <1>1
<1>7. \A n \in 1..k : n \in C => P2[n] = p
  BY <1>e
<1>8. \A n \in 1..k : n \notin C => P2[n] = P[n]
  BY <1>e
<1>9. \A n \in 2..k : n \in 1..k /\ P[n] # p /\ u2[P[n]] = u[P[n]] /\ P[n] \in 1..k
  <2> SUFFICES ASSUME NEW n \in 2..k PROVE n \in 1..k /\ P[n] # p /\ u2[P[n]] = u[P[n]] /\ P[n] \in 1..k
    OBVIOUS
  <2>1. n \in 1..k /\ P[n] \in 1..k /\ P[n] < n /\ n <= u[P[n]] /\ P[n] \in Nat
    BY AtBelow
  <2>2. P[n] # p
    BY <2>1, <1>3, <1>1, <1>2
  <2> QED
    BY <2>1, <2>2, <1>5
<1>10. \A n \in C : u[n] <= u[a]
  <2> SUFFICES ASSUME NEW n \in C PROVE u[n] <= u[a]
    OBVIOUS
  <2>1. CASE n < a
    <3>1. x[n] # 0 /\ x[n] <= a /\ n \in 1..k
      BY <2>1, <1>a, <1>b
    <3>2. x[n] = u[n] + 1
      BY <3>1, AtEntry
    <3> QED
      BY <3>1, <3>2, <1>2, <1>3, <1>1
  <2>2. CASE n = a
    BY <2>2, <1>2
  <2> QED
    BY <2>1, <2>2, <1>1, <1>2, <1>a
<1>11. x2[a] = 0 /\ x2[p] = x[a] /\ \A n \in 1..k : n # a /\ n # p => x2[n] = x[n]
  BY <1>1, <1>3, <1>e
<1>12. l2[p] = p + 1 /\ \A n \in 1..k : n # p => l2[n] = l[n]
  BY <1>1, <1>d, <1>e
<1>13. p + 1 \in 1..k /\ p + 1 \in C
  BY <1>a, <1>d
<1>14. Typed(l2, x2, P2, u2, k)
  <2>1. ASSUME NEW n \in 1..k PROVE l2[n] \in 0..k /\ x2[n] \in 0..k /\ P2[n] \in 0..k
    <3>1. l[n] \in 0..k /\ x[n] \in 0..k /\ P[n] \in 0..k /\ x[a] \in 0..k
      BY AtEntry
    <3>2. l2[n] \in 0..k
      <4>1. p + 1 \in 0..k
        BY <1>13, <1>f
      <4> QED
        BY <4>1, <3>1, <1>12
    <3>3. x2[n] \in 0..k
      BY <3>1, <1>f, <1>11
    <3>4. P2[n] \in 0..k
      <4>1. p \in 0..k
        BY <1>1
      <4> QED
        BY <4>1, <3>1, <1>7, <1>8
    <3> QED
      BY <3>2, <3>3, <3>4
  <2> QED
    BY <1>1, <1>6, <2>1 DEF Typed
<1>15. Ends(l2, x2, P2, u2, k)
  <2>1. u2[1] = k /\ x2[1] = 0 /\ P2[1] = 0
    <3>1. 1 \notin C /\ 1 # a /\ 1 # p
      BY <1>1, <1>3, <1>a
    <3> QED
      BY <3>1, <1>1, <1>5, <1>8, <1>11
  <2>2. ASSUME NEW n \in 1..k PROVE n <= u2[n] /\ (l2[n] = 0 => u2[n] = n)
    <3>1. CASE n = p
      BY <3>1, <1>1, <1>2, <1>3, <1>5, <1>12
    <3>2. CASE n # p
      <4>1. n <= u[n] /\ (l[n] = 0 => u[n] = n)
        BY AtEntry
      <4> QED
        BY <3>2, <4>1, <1>5, <1>12
    <3> QED
      BY <3>1, <3>2
  <2> QED
    BY <2>1, <2>2 DEF Ends
<1>16. Downs(l2, x2, P2, u2, k)
  <2> SUFFICES ASSUME NEW n \in 1..k, l2[n] # 0 PROVE l2[n] = n + 1 /\ P2[l2[n]] = n
    BY DEF Downs
  <2>1. CASE n = p
    BY <2>1, <1>7, <1>12, <1>13
  <2>2. CASE n # p
    <3>1. l2[n] = l[n] /\ l[n] = n + 1 /\ n + 1 \in 1..k /\ P[n + 1] = n
      BY <2>2, <1>12, AtEntry
    <3>2. n + 1 \notin C
      <4>1. SUFFICES ASSUME n + 1 \in C PROVE FALSE
        OBVIOUS
      <4>2. p < n + 1 /\ P[n + 1] = P[p]
        BY <4>1, <1>a
      <4> QED
        BY <4>2, <3>1, <1>4, <1>1, <1>2
    <3> QED
      BY <3>1, <3>2, <1>8
  <2> QED
    BY <2>1, <2>2
<1>17. Ons(l2, x2, P2, u2, k)
  <2> SUFFICES ASSUME NEW n \in 1..k, x2[n] # 0 PROVE x2[n] = u2[n] + 1 /\ P2[x2[n]] = P2[n]
    BY DEF Ons
  <2>1. CASE n = p
    <3>1. x2[n] = x[a] /\ x[a] = u[a] + 1 /\ u[a] + 1 \in 1..k /\ P[u[a] + 1] = P[a]
      BY <2>1, <1>11, AtEntry
    <3>2. u[a] + 1 \notin C
      BY <1>1, <1>2, <1>3, <1>a
    <3>3. P2[u[a] + 1] = P[p] /\ P2[p] = P[p]
      BY <3>1, <3>2, <1>1, <1>3, <1>8
    <3> QED
      BY <2>1, <3>1, <3>3, <1>5
  <2>2. CASE n # p
    <3>1. n # a /\ x2[n] = x[n] /\ x[n] = u[n] + 1 /\ u[n] + 1 \in 1..k /\ P[u[n] + 1] = P[n] /\ u2[n] = u[n]
      BY <2>2, <1>5, <1>11, AtEntry
    <3>2. CASE n \in C
      <4>1. n < a
        BY <3>1, <3>2, <1>1, <1>2, <1>a
      <4>2. x[n] \in C
        BY <3>2, <4>1, <1>b
      <4> QED
        BY <3>1, <3>2, <4>2, <1>7
    <3>3. CASE n \notin C
      <4>1. x[n] \notin C
        <5>1. SUFFICES ASSUME x[n] \in C PROVE FALSE
          OBVIOUS
        <5>2. x[n] <= a /\ P[x[n]] = P[p] /\ p < x[n]
          BY <5>1, <1>a
        <5>3. P[n] = P[p] /\ n \in Nat /\ u[n] \in Nat /\ n <= u[n] /\ n <= a /\ p <= u[n]
          BY <5>2, <3>1, <1>1, <1>2
        <5>4. CASE p < n
          <6>1. n <= u[a]
            BY <5>3, <1>1, <1>2, <1>3
          <6>2. n \in C \/ p < P[n]
            BY <5>4, <6>1, <1>c
          <6>3. p < P[p]
            BY <6>2, <3>3, <5>3
          <6> QED
            BY SMTT(30), <6>3, <1>4, <1>1
        <5>5. CASE n < p
          <6>1. n <= P[p]
            BY <5>3, <5>5, AtTwo, <1>1
          <6>2. n \in 2..k
            BY <3>1, <1>1, <1>2
          <6>3. P[n] < n
            BY <6>2, AtBelow
          <6>4. P[p] < n
            BY <6>3, <5>3
          <6> QED
            BY <6>1, <6>4, <5>3, <1>4
        <5> QED
          BY <5>3, <5>4, <5>5, <2>2, <1>1
      <4> QED
        BY <3>1, <3>3, <4>1, <1>8
    <3> QED
      BY <3>2, <3>3
  <2> QED
    BY <2>1, <2>2
<1>18. Lasts(l2, x2, P2, u2, k)
  <2> SUFFICES ASSUME NEW n \in 2..k, x2[n] = 0 PROVE u2[n] = u2[P2[n]]
    BY DEF Lasts
  <2>1. CASE n = a
    <3>1. P2[a] = p /\ u2[p] = u[a]
      BY <1>5, <1>7, <1>d
    <3>2. u2[a] = u[a]
      BY <1>3, <1>5, <1>f
    <3> QED
      BY <2>1, <3>1, <3>2
  <2>2. CASE n = p
    <3>1. x[a] = 0 /\ a \in 2..k
      BY <2>2, <1>11, <1>1, <1>3
    <3>2. u[a] = u[P[a]]
      BY <3>1, AtBelow
    <3> QED
      BY <2>2, <3>2, <1>3, <1>4, <1>5, <1>8, <1>1
  <2>3. CASE n # a /\ n # p
    <3>1. n \in 1..k /\ x[n] = 0 /\ u2[n] = u[n]
      BY <2>3, <1>5, <1>9, <1>11
    <3>2. n \notin C
      <4>1. SUFFICES ASSUME n \in C PROVE FALSE
        OBVIOUS
      <4>2. n <= a /\ n \in Nat
        BY <4>1, <1>a, <1>2
      <4>3. n < a
        BY <4>2, <2>3, <1>1
      <4> QED
        BY <4>1, <4>3, <3>1, <1>b
    <3>3. u[n] = u[P[n]]
      BY <3>1, AtBelow
    <3> QED
      BY <3>1, <3>2, <3>3, <1>8, <1>9
  <2> QED
    BY <2>1, <2>2, <2>3
<1>19. Ups(l2, x2, P2, u2, k)
  <2> SUFFICES ASSUME NEW n \in 2..k PROVE P2[n] \in 1..(n - 1) /\ u2[n] <= u2[P2[n]]
    BY DEF Ups
  <2>0. n \in 1..k /\ n \in Nat
    BY <1>9
  <2>1. CASE n \in C
    <3>1. P2[n] = p /\ p < n /\ n # p /\ u[n] <= u[a]
      <4>1. P2[n] = p /\ u[n] <= u[a] /\ p < n
        BY <2>0, <2>1, <1>7, <1>10, <1>a
      <4> QED
        BY <4>1, <2>0, <1>f
    <3>2. u2[n] <= u2[p]
      BY <3>1, <2>0, <1>5
    <3> QED
      BY <3>1, <3>2, <2>0, <1>1
  <2>2. CASE n \notin C
    <3>1. P2[n] = P[n] /\ P[n] \in 1..k /\ P[n] < n /\ u[n] <= u[P[n]] /\ P[n] \in Nat
      BY <2>0, <2>2, <1>8, AtBelow
    <3>2. P[n] \in 1..(n - 1)
      BY <3>1, <2>0
    <3>3. u2[n] <= u[P[n]]
      <4>1. CASE n = p
        <5>1. a \in 2..k
          BY <1>1, <1>3
        <5>2. u[a] <= u[P[a]]
          BY <5>1, AtBelow
        <5> QED
          BY <4>1, <5>2, <1>3, <1>5
      <4>2. CASE n # p
        BY <4>2, <3>1, <2>0, <1>5
      <4> QED
        BY <4>1, <4>2
    <3> QED
      BY <3>1, <3>2, <3>3, <1>9
  <2> QED
    BY <2>1, <2>2
<1>20. Nested(l2, x2, P2, u2, k)
  <2> SUFFICES ASSUME NEW n \in 1..k, NEW y \in 1..k, n < y, y <= u2[n]
               PROVE  n <= P2[y] /\ u2[y] <= u2[n]
    BY DEF Nested
  <2>0. n \in Nat /\ y \in Nat /\ u[n] \in Nat /\ u[y] \in Nat /\ u[a] \in Nat
    BY <1>2
  <2>1. CASE n = p
    <3>1. u2[n] = u[a] /\ p < y /\ y <= u[a] /\ y # p /\ u2[y] = u[y]
      BY <2>0, <2>1, <1>5
    <3>2. CASE y \in C
      <4>1. P2[y] = p /\ u[y] <= u[a]
        BY <3>2, <1>7, <1>10
      <4> QED
        BY <4>1, <2>1, <3>1, <1>1
    <3>3. CASE y \notin C
      <4>1. P2[y] = P[y] /\ p < P[y] /\ P[y] \in 0..k
        BY <3>1, <3>3, <1>8, <1>c, AtEntry
      <4>2. u[y] <= u[a]
        <5>1. CASE a < y
          BY <3>1, <5>1, AtTwo
        <5>2. CASE y < a
          <6>1. ~(a <= u[y])
            <7>1. SUFFICES ASSUME a <= u[y] PROVE FALSE
              OBVIOUS
            <7>2. y <= P[a]
              BY <5>2, <7>1, AtTwo
            <7>3. y <= P[p]
              BY <7>2, <1>3
            <7> QED
              BY <7>3, <3>1, <1>4, <1>f, <2>0
          <6> QED
            BY <6>1, <1>1, <1>3, <2>0
        <5>3. y # a
          BY <3>3, <1>d
        <5> QED
          BY <5>1, <5>2, <5>3, <2>0, <1>1
      <4>3. p <= P[y]
        BY <4>1, <1>f, <1>0
      <4> QED
        BY <2>1, <3>1, <4>1, <4>2, <4>3
    <3> QED
      BY <3>2, <3>3
  <2>2. CASE n # p
    <3>1. u2[n] = u[n] /\ n <= P[y] /\ u[y] <= u[n]
      BY <2>2, <1>5, AtTwo
    <3>2. CASE y = p
      <4>1. P2[y] = P[y]
        BY <3>2, <1>3, <1>8
      <4>2. a \in 2..k
        BY <1>1, <1>3
      <4>3. u[a] <= u[P[p]]
        BY <4>2, <1>3, AtBelow
      <4>4. u[P[p]] <= u[n]
        <5>1. CASE n = P[p]
          BY <5>1, <2>0
        <5>2. CASE n < P[p]
          <6>1. P[p] <= u[n]
            BY <2>0, <3>1, <3>2, <1>4, <1>1, <1>2
          <6> QED
            BY <5>2, <6>1, <1>4, AtTwo
        <5> QED
          BY <5>1, <5>2, <2>0, <3>1, <3>2, <1>4
      <4>5. u[P[p]] \in Nat
        BY <1>2, <1>4
      <4>6. u2[y] <= u2[n]
        BY <3>1, <3>2, <4>3, <4>4, <4>5, <1>5, <2>0
      <4> QED
        BY <4>1, <4>6, <3>1
    <3>3. CASE y # p
      <4>1. u2[y] = u[y]
        BY <3>3, <1>5
      <4>2. n <= P2[y]
        <5>1. CASE y \in C
          <6>1. P2[y] = p /\ P[y] = P[p]
            BY <5>1, <1>7, <1>a
          <6>2. n <= P[p]
            BY <6>1, <3>1
          <6> QED
            BY <6>1, <6>2, <1>f, <1>4, <2>0
        <5>2. CASE y \notin C
          BY <5>2, <3>1, <1>8
        <5> QED
          BY <5>1, <5>2
      <4> QED
        BY <4>1, <4>2, <3>1
    <3> QED
      BY <3>2, <3>3
  <2> QED
    BY <2>1, <2>2
<1> QED
  BY <1>14, <1>15, <1>16, <1>17, <1>18, <1>19, <1>20 DEF Shape

(* What is below m, of which e comes last, follows m instead.              *)
Lifted(l, x, P, k, l2, x2, P2, m, e) ==
  \A n \in 1..k : /\ l2[n] = IF n = m THEN 0 ELSE l[n]
                  /\ x2[n] = IF n = m THEN l[m] ELSE IF n = e THEN x[m] ELSE x[n]
                  /\ P2[n] = IF P[n] = m THEN P[m] ELSE P[n]

LEMMA DissolveShape ==
  ASSUME NEW l, NEW x, NEW P, NEW u, NEW k, Shape(l, x, P, u, k),
         NEW m \in 2..k, NEW e \in 1..k, l[m] # 0, P[e] = m, x[e] = 0,
         NEW l2, NEW x2, NEW P2, NEW u2,
         Lifted(l, x, P, k, l2, x2, P2, m, e), u2 = [u EXCEPT ![m] = m]
  PROVE  Shape(l2, x2, P2, u2, k)
<1>a. \A n \in 1..k : /\ l2[n] = IF n = m THEN 0 ELSE l[n]
                      /\ x2[n] = IF n = m THEN l[m] ELSE IF n = e THEN x[m] ELSE x[n]
                      /\ P2[n] = IF P[n] = m THEN P[m] ELSE P[n]
  BY DEF Lifted
<1>0. k \in Nat /\ k > 0 /\ u[1] = k /\ x[1] = 0 /\ P[1] = 0
  BY ShapeFacts
<1>1. /\ k \in Nat /\ k > 0 /\ u[1] = k /\ x[1] = 0 /\ P[1] = 0 /\ 1 \in 1..k
      /\ m \in 1..k /\ m \in Nat /\ e \in Nat /\ m # 1 /\ u \in [1..k -> 1..k] /\ e # 1
  <2>1. u \in [1..k -> 1..k]
    BY DEF Shape, Typed
  <2>2. 1 \in 1..k /\ m \in 1..k /\ m \in Nat /\ e \in Nat /\ m # 1
    BY <1>0
  <2>3. e # 1
    BY <1>0, <2>2
  <2> QED
    BY <1>0, <2>1, <2>2, <2>3
<1>f. m \in 1..k /\ m \in Nat /\ e \in Nat
  BY <1>0
<1>2. \A n \in 1..k : n \in Nat /\ u[n] \in Nat /\ n <= u[n] /\ u[n] <= k
  BY AtEntry
<1>3. P[m] \in 1..k /\ P[m] \in Nat /\ P[m] < m /\ P[m] # m /\ m <= u[P[m]] /\ u[m] <= u[P[m]]
  BY AtBelow
<1>4. e \in 2..k /\ m < e /\ u[e] = u[m] /\ e # m
  <2>1. e \in 2..k
    BY <1>1
  <2>2. P[e] < e /\ u[e] = u[P[e]]
    BY <2>1, AtBelow
  <2> QED
    BY <2>1, <2>2, <1>1
<1>5. l[m] = m + 1 /\ m + 1 \in 1..k /\ P[m + 1] = m
  BY <1>f, AtEntry
<1>6. u2[m] = m /\ (\A n \in 1..k : n # m => u2[n] = u[n]) /\ u2 \in [1..k -> 1..k]
  BY <1>1
<1>7. \A n \in 1..k : P[n] = m => P2[n] = P[m]
  BY <1>a
<1>8. \A n \in 1..k : P[n] # m => P2[n] = P[n]
  BY <1>a
<1>9. x2[m] = m + 1 /\ x2[e] = x[m] /\ \A n \in 1..k : n # m /\ n # e => x2[n] = x[n]
  BY <1>1, <1>4, <1>5, <1>a
<1>10. l2[m] = 0 /\ \A n \in 1..k : n # m => l2[n] = l[n]
  BY <1>1, <1>a
<1>11. Typed(l2, x2, P2, u2, k)
  <2>1. ASSUME NEW n \in 1..k PROVE l2[n] \in 0..k /\ x2[n] \in 0..k /\ P2[n] \in 0..k
    <3>1. l[n] \in 0..k /\ x[n] \in 0..k /\ P[n] \in 0..k /\ x[m] \in 0..k
      BY SMTT(30), <1>1, AtEntry
    <3>2. l2[n] \in 0..k
      <4>1. 0 \in 0..k
        BY <1>0
      <4> QED
        BY <4>1, <3>1, <1>10
    <3>3. x2[n] \in 0..k
      BY <3>1, <1>1, <1>5, <1>9
    <3>4. P2[n] \in 0..k
      <4>1. P[m] \in 0..k
        BY <1>3, <1>0
      <4> QED
        BY <4>1, <3>1, <1>7, <1>8
    <3> QED
      BY <3>2, <3>3, <3>4
  <2> QED
    BY <1>1, <1>6, <2>1 DEF Typed
<1>12. Ends(l2, x2, P2, u2, k)
  <2>1. u2[1] = k /\ x2[1] = 0 /\ P2[1] = 0
    <3>1. P[1] # m /\ 1 # m /\ 1 # e
      BY <1>0, <1>1
    <3>2. P2[1] = P[1]
      BY <3>1, <1>1, <1>8
    <3> QED
      BY <3>1, <3>2, <1>1, <1>6, <1>9
  <2>2. ASSUME NEW n \in 1..k PROVE n <= u2[n] /\ (l2[n] = 0 => u2[n] = n)
    <3>1. CASE n = m
      BY <3>1, <1>1, <1>6
    <3>2. CASE n # m
      <4>1. n <= u[n] /\ (l[n] = 0 => u[n] = n)
        BY AtEntry
      <4> QED
        BY <3>2, <4>1, <1>6, <1>10
    <3> QED
      BY <3>1, <3>2
  <2> QED
    BY <2>1, <2>2 DEF Ends
<1>13. Downs(l2, x2, P2, u2, k)
  <2> SUFFICES ASSUME NEW n \in 1..k, l2[n] # 0 PROVE l2[n] = n + 1 /\ P2[l2[n]] = n
    BY DEF Downs
  <2>1. n # m
    BY <1>10
  <2>2. l2[n] = l[n] /\ l[n] = n + 1 /\ n + 1 \in 1..k /\ P[n + 1] = n
    BY <2>1, <1>10, AtEntry
  <2> QED
    BY <2>1, <2>2, <1>8
<1>14. Ons(l2, x2, P2, u2, k)
  <2> SUFFICES ASSUME NEW n \in 1..k, x2[n] # 0 PROVE x2[n] = u2[n] + 1 /\ P2[x2[n]] = P2[n]
    BY DEF Ons
  <2>1. CASE n = m
    BY <2>1, <1>3, <1>5, <1>6, <1>7, <1>8, <1>9
  <2>2. CASE n = e
    <3>1. x2[n] = x[m] /\ x[m] = u[m] + 1 /\ u[m] + 1 \in 1..k /\ P[u[m] + 1] = P[m]
      <4>1. x2[n] = x[m] /\ x[m] # 0
        BY <2>2, <1>9
      <4> QED
        BY <4>1, <1>f, AtEntry
    <3>2. P2[x2[n]] = P[m]
      BY <3>1, <1>3, <1>8
    <3>3. P2[n] = P[m] /\ u2[n] = u[m]
      BY <2>2, <1>4, <1>6, <1>7
    <3> QED
      BY <3>1, <3>2, <3>3
  <2>3. CASE n # m /\ n # e
    <3>1. x2[n] = x[n] /\ x[n] = u[n] + 1 /\ u[n] + 1 \in 1..k /\ P[u[n] + 1] = P[n] /\ u2[n] = u[n]
      BY <2>3, <1>6, <1>9, AtEntry
    <3>2. P2[u[n] + 1] = P2[n]
      BY <3>1, <1>7, <1>8
    <3> QED
      BY <3>1, <3>2
  <2> QED
    BY <2>1, <2>2, <2>3
<1>15. Lasts(l2, x2, P2, u2, k)
  <2> SUFFICES ASSUME NEW n \in 2..k, x2[n] = 0 PROVE u2[n] = u2[P2[n]]
    BY DEF Lasts
  <2>1. n \in 1..k /\ n # m /\ n \in Nat
    BY <1>1, <1>9
  <2>2. CASE n = e
    <3>1. x[m] = 0
      BY <2>2, <1>9
    <3>2. u[m] = u[P[m]]
      BY <3>1, AtBelow
    <3> QED
      BY <2>2, <3>2, <1>3, <1>4, <1>6, <1>7
  <2>3. CASE n # e
    <3>1. x[n] = 0 /\ u2[n] = u[n]
      BY <2>1, <2>3, <1>6, <1>9
    <3>2. u[n] = u[P[n]] /\ P[n] \in 1..k /\ P[n] < n
      BY <3>1, AtBelow
    <3>3. P[n] # m
      <4>1. SUFFICES ASSUME P[n] = m PROVE FALSE
        OBVIOUS
      <4>2. u[n] = u[e] /\ n <= u[n] /\ e <= u[e]
        BY <4>1, <3>2, <1>4, <1>2, <2>1
      <4>3. CASE n < e
        <5>1. n <= P[e]
          BY <4>2, <4>3, <2>1, AtTwo
        <5> QED
          BY <5>1, <4>1, <3>2, <2>1, <1>1
      <4>4. CASE e < n
        <5>1. e <= P[n]
          BY <4>2, <4>4, <2>1, AtTwo
        <5> QED
          BY <5>1, <4>1, <1>4, <1>1
      <4> QED
        BY <4>3, <4>4, <2>1, <2>3, <1>1
    <3> QED
      BY <2>1, <3>1, <3>2, <3>3, <1>6, <1>8
  <2> QED
    BY <2>2, <2>3
<1>16. Ups(l2, x2, P2, u2, k)
  <2> SUFFICES ASSUME NEW n \in 2..k PROVE P2[n] \in 1..(n - 1) /\ u2[n] <= u2[P2[n]]
    BY DEF Ups
  <2>1. /\ n \in 1..k /\ n \in Nat /\ P[n] \in 1..k /\ P[n] \in Nat /\ P[n] < n /\ u[n] <= u[P[n]]
        /\ n <= u[P[n]]
    BY AtBelow, <1>2
  <2>2. CASE P[n] = m
    <3>1. P2[n] = P[m] /\ n # m /\ u2[n] = u[n] /\ u2[P[m]] = u[P[m]]
      BY <2>1, <2>2, <1>3, <1>6, <1>7, <1>1
    <3>2. u[n] <= u[P[m]] /\ P[m] \in 1..(n - 1)
      BY <2>1, <2>2, <1>1, <1>2, <1>3
    <3> QED
      BY <3>1, <3>2
  <2>3. CASE P[n] # m
    <3>1. P2[n] = P[n] /\ u2[P[n]] = u[P[n]] /\ P[n] \in 1..(n - 1)
      BY <2>1, <2>3, <1>6, <1>8
    <3>2. u2[n] <= u[P[n]]
      BY <2>1, <1>6
    <3> QED
      BY <3>1, <3>2
  <2> QED
    BY <2>2, <2>3
<1>17. Nested(l2, x2, P2, u2, k)
  <2> SUFFICES ASSUME NEW n \in 1..k, NEW y \in 1..k, n < y, y <= u2[n]
               PROVE  n <= P2[y] /\ u2[y] <= u2[n]
    BY DEF Nested
  <2>1. n # m /\ u2[n] = u[n] /\ n \in Nat /\ y \in Nat
    BY <1>1, <1>2, <1>6
  <2>2. n <= P[y] /\ u[y] <= u[n]
    BY <2>1, AtTwo
  <2>3. u2[y] <= u2[n]
    BY <2>1, <2>2, <1>6
  <2>4. n <= P2[y]
    <3>1. CASE P[y] = m
      <4>1. n < m /\ m < y
        <5>1. y \in 2..k
          BY <2>1, <1>1
        <5>2. P[y] < y
          BY <5>1, AtBelow
        <5> QED
          BY <5>2, <2>1, <2>2, <3>1, <1>1
      <4>2. m <= u[n]
        BY <4>1, <2>1, <1>1, <1>2
      <4>3. n <= P[m]
        BY <4>1, <4>2, <1>1, AtTwo
      <4> QED
        BY <3>1, <4>3, <1>7
    <3>2. CASE P[y] # m
      BY <2>2, <3>2, <1>8
    <3> QED
      BY <3>1, <3>2
  <2> QED
    BY <2>3, <2>4
<1> QED
  BY <1>11, <1>12, <1>13, <1>14, <1>15, <1>16, <1>17 DEF Shape

(* The numbers that are counted up to from 0, and a least one of them.     *)
LEMMA Counting ==
  ASSUME NEW S, 0 \in S, \A n \in Nat : n \in S => n + 1 \in S
  PROVE  Nat \subseteq S
<1> DEFINE R == {p \in Nat \X Nat : p[1] < p[2]}
           T == Nat \ S
<1>1. IsWellFoundedOn(R, Nat)
  BY NatLessThanWellFounded DEF OpToRel
<1>2. SUFFICES ASSUME T # {} PROVE FALSE
  OBVIOUS
<1>3. PICK m \in T : \A y \in T : ~(<<y, m>> \in R)
  <2> HIDE DEF R, T
  <2>1. T \subseteq Nat
    BY DEF T
  <2> QED
    BY <1>1, <1>2, <2>1, WFMin
<1>4. m # 0 /\ m - 1 \in Nat /\ m - 1 < m
  BY <1>3
<1>5. m - 1 \in S
  BY <1>3, <1>4
<1> QED
  BY <1>3, <1>4, <1>5

LEMMA LeastExists ==
  ASSUME NEW T \in SUBSET Nat, T # {} PROVE \E x \in T : \A y \in T : x <= y
<1> DEFINE R == {p \in Nat \X Nat : p[1] < p[2]}
<1>1. IsWellFoundedOn(R, Nat)
  BY NatLessThanWellFounded DEF OpToRel
<1>2. PICK x \in T : \A y \in T : ~(<<y, x>> \in R)
  <2> HIDE DEF R
  <2> QED
    BY <1>1, WFMin
<1>3. \A y \in T : ~(y < x)
  BY <1>2
<1> QED
  BY <1>3

LEMMA GreatestExists ==
  ASSUME NEW k \in Nat, NEW T \in SUBSET (1..k), T # {} PROVE \E g \in T : \A y \in T : y <= g
<1> DEFINE S == {j \in Nat : \E z \in T : j = k - z}
<1>1. S # {}
  <2>1. PICK z \in T : TRUE
    OBVIOUS
  <2>2. k - z \in Nat /\ k - z = k - z
    OBVIOUS
  <2>3. k - z \in S
    BY <2>2
  <2> QED
    BY <2>3
<1>2. PICK j \in S : \A i \in S : j <= i
  <2> HIDE DEF S
  <2>1. S \in SUBSET Nat
    BY DEF S
  <2> QED
    BY <1>1, <2>1, LeastExists
<1>3. PICK g \in T : j = k - g
  BY <1>2
<1>4. ASSUME NEW y \in T PROVE y <= g
  <2>1. k - y \in S
    OBVIOUS
  <2>2. j <= k - y
    BY <1>2, <2>1
  <2> QED
    BY <1>3, <2>2
<1> QED
  BY <1>3, <1>4

(* The entries met from the first one below m on are those below it.       *)
Closed(x, S) == \A z \in S : x[z] # 0 => x[z] \in S
Below(P, k, m) == {y \in 1..k : P[y] = m}

LEMMA BelowIsClosed ==
  ASSUME NEW l, NEW x, NEW P, NEW u, NEW k, Shape(l, x, P, u, k), NEW m \in 1..k, l[m] # 0
  PROVE  l[m] \in Below(P, k, m) /\ Closed(x, Below(P, k, m))
<1> DEFINE B == {y \in 1..k : P[y] = m}
<1>1. l[m] \in B
  BY AtEntry
<1>2. ASSUME NEW z \in B, x[z] # 0 PROVE x[z] \in B
  <2>1. z \in 1..k /\ P[z] = m
    OBVIOUS
  <2>2. x[z] = u[z] + 1 /\ u[z] + 1 \in 1..k /\ P[u[z] + 1] = P[z]
    BY <1>2, <2>1, AtEntry
  <2> QED
    BY <2>1, <2>2
<1> QED
  BY <1>1, <1>2 DEF Closed, Below

LEMMA BelowIsMet ==
  ASSUME NEW l, NEW x, NEW P, NEW u, NEW k, Shape(l, x, P, u, k), NEW m \in 1..k, l[m] # 0,
         NEW S \in SUBSET (1..k), l[m] \in S, Closed(x, S), NEW y \in 1..k, P[y] = m
  PROVE  y \in S
<1> SUFFICES ASSUME y \notin S PROVE FALSE
  OBVIOUS
<1>1. k \in Nat /\ P[1] = 0 /\ m \in Nat /\ y \in Nat /\ m # 0
  BY ShapeFacts
<1>2. y \in 2..k
  BY <1>1
<1>3. P[y] < y /\ u[y] <= u[P[y]] /\ y <= u[P[y]]
  BY <1>2, AtBelow
<1>4. m < y /\ y <= u[m]
  BY <1>3
<1>5. l[m] = m + 1 /\ P[m + 1] = m /\ m + 1 \in 1..k
  BY AtEntry
<1> DEFINE T == {z \in S : P[z] = m /\ z < y}
<1>6. m + 1 \in T
  BY <1>1, <1>4, <1>5
<1>7. PICK g \in T : \A z \in T : z <= g
  <2> HIDE DEF T
  <2>1. T \in SUBSET (1..k) /\ T # {}
    BY <1>6 DEF T
  <2> QED
    BY <1>1, <2>1, GreatestExists
<1>8. g \in S /\ g \in 1..k /\ P[g] = m /\ g < y /\ g \in Nat
  BY <1>7
<1>9. g \in 2..k
  BY <1>1, <1>8
<1>10. P[g] < g /\ u[g] \in Nat /\ g <= u[g]
  BY <1>8, <1>9, AtBelow, AtEntry
<1>11. ~(y <= u[g])
  <2> SUFFICES ASSUME y <= u[g] PROVE FALSE
    OBVIOUS
  <2>1. g <= P[y]
    BY <1>8, AtTwo
  <2> QED
    BY <2>1, <1>8, <1>10, <1>1
<1>12. x[g] # 0
  <2> SUFFICES ASSUME x[g] = 0 PROVE FALSE
    OBVIOUS
  <2>1. u[g] = u[m]
    BY <1>8, <1>9, AtBelow
  <2> QED
    BY <2>1, <1>4, <1>11
<1>13. x[g] = u[g] + 1 /\ P[u[g] + 1] = m
  BY <1>8, <1>12, AtEntry
<1>14. u[g] + 1 \in S
  BY <1>8, <1>12, <1>13 DEF Closed
<1>15. u[g] + 1 < y
  <2>1. u[g] + 1 # y
    BY <1>14
  <2> QED
    BY <2>1, <1>1, <1>10, <1>11
<1>16. u[g] + 1 \in T
  BY <1>13, <1>14, <1>15
<1> QED
  BY <1>7, <1>8, <1>10, <1>16

LEMMA BelowEnds ==
  ASSUME NEW l, NEW x, NEW P, NEW u, NEW k, Shape(l, x, P, u, k), NEW m \in 1..k, l[m] # 0
  PROVE  \E e \in 1..k : P[e] = m /\ x[e] = 0
<1> DEFINE B == {y \in 1..k : P[y] = m}
<1>1. l[m] \in B /\ Closed(x, B) /\ k \in Nat
  BY BelowIsClosed, ShapeFacts DEF Below
<1>2. PICK e \in B : \A z \in B : z <= e
  <2> HIDE DEF B
  <2>1. B \in SUBSET (1..k)
    BY DEF B
  <2> QED
    BY <1>1, <2>1, GreatestExists
<1>3. ASSUME x[e] # 0 PROVE FALSE
  <2>1. x[e] = u[e] + 1 /\ u[e] \in Nat /\ e \in Nat /\ e <= u[e]
    BY <1>2, <1>3, AtEntry
  <2>2. x[e] \in B
    <3> HIDE DEF B
    <3> QED
      BY <1>1, <1>2, <1>3 DEF Closed
  <2>3. x[e] <= e
    BY <1>2, <2>2
  <2> QED
    BY <2>1, <2>3
<1> QED
  BY <1>2, <1>3
-----------------------------------------------------------------------------
(* The options that entries are being moved below: those entries have their*)
(* parent already, pa, but are still linked as if they followed it.        *)
Stages == {"each", "gather", "dissolve"}
FramesOf(k) == [menu : 1..k, stage : Stages, at : 0..k]
Gathering(st, p) == \E i \in 1..Len(st) : st[i].menu = p /\ st[i].stage = "gather"
Arounds(pa, st, k) ==
  [n \in 1..k |-> IF Gathering(st, pa[n]) THEN pa[pa[n]] ELSE pa[n]]

(* The calls of menu_finalize, from the root inwards, and how far each of  *)
(* them is.                                                                *)
Calls(pa, P, st, k) ==
  /\ st \in Seq(FramesOf(k))
  /\ Len(st) > 0 => st[1].menu = 1
  /\ \A i \in 1..Len(st) : P[st[i].menu] = pa[st[i].menu]
  /\ \A i \in 1..Len(st) : i < Len(st) => st[i].stage # "dissolve" /\ st[i].at = st[i + 1].menu
  /\ \A i, j \in 1..Len(st) : i < j => st[i].menu < st[j].menu
Loops(l, P, st) ==
  \A i \in 1..Len(st) :
    /\ st[i].stage = "each" => l[st[i].menu] # 0
    /\ st[i].stage # "gather" /\ st[i].at # 0 => P[st[i].at] = st[i].menu
Taken(x, pa, k, p, a) ==
  \A n \in 1..k : pa[n] = p =>
    /\ a # 0 /\ p < n /\ n <= a
    /\ n < a => x[n] # 0 /\ x[n] <= a /\ (x[n] = a \/ pa[x[n]] = p)
Reached(x, pa, P, u, k, p, a, top) ==
  a # 0 =>
    /\ p < a /\ P[a] = P[p] /\ pa[a] = (IF top THEN p ELSE pa[p])
    /\ x[p] = p + 1 /\ (a = p + 1 \/ pa[p + 1] = p)
    /\ \A y \in 1..k : p < y /\ (IF top THEN y <= u[a] ELSE y < a) => p <= pa[y]
GatherOf(l, x, pa, P, u, k, p, a, top) ==
  p # 1 /\ l[p] = 0 /\ Taken(x, pa, k, p, a) /\ Reached(x, pa, P, u, k, p, a, top)
Gathers(l, x, pa, P, st, u, k) ==
  \A i \in 1..Len(st) : st[i].stage = "gather" =>
    GatherOf(l, x, pa, P, u, k, st[i].menu, st[i].at, i = Len(st))
Held(l, x, pa, P, st, u, k) ==
  /\ P = Arounds(pa, st, k)
  /\ Calls(pa, P, st, k) /\ Loops(l, P, st)
  /\ Shape(l, x, P, u, k) /\ Gathers(l, x, pa, P, st, u, k)

LEMMA FrameAt ==
  ASSUME NEW pa, NEW P, NEW st, NEW k, Calls(pa, P, st, k)
  PROVE  /\ Len(st) \in Nat
         /\ \A i \in 1..Len(st) : /\ st[i] \in FramesOf(k) /\ st[i].menu \in 1..k
                                  /\ st[i].stage \in Stages /\ st[i].at \in 0..k
<1>1. st \in Seq(FramesOf(k))
  BY DEF Calls
<1>2. Len(st) \in Nat /\ \A i \in 1..Len(st) : st[i] \in FramesOf(k)
  BY <1>1, ElementOfSeq, LenProperties
<1> QED
  BY <1>2 DEF FramesOf

LEMMA Outermost ==
  ASSUME NEW pa, NEW P, NEW st, NEW k, k \in Nat, Calls(pa, P, st, k),
         NEW i \in 1..Len(st), i < Len(st)
  PROVE  /\ i + 1 \in 1..Len(st) /\ st[i].at = st[i + 1].menu
         /\ st[i].menu < st[Len(st)].menu /\ st[i].at <= st[Len(st)].menu
         /\ Len(st) \in 1..Len(st)
<1>1. Len(st) \in Nat
  BY FrameAt
<1>2. i + 1 \in 1..Len(st) /\ Len(st) \in 1..Len(st) /\ i < i + 1
  BY <1>1
<1>3. \A m, j \in 1..Len(st) : m < j => st[m].menu < st[j].menu
  BY DEF Calls
<1>4. st[i].at = st[i + 1].menu
  BY DEF Calls
<1>5. st[i].menu < st[Len(st)].menu
  BY <1>2, <1>3
<1>6. st[i + 1].menu \in 1..k /\ st[Len(st)].menu \in 1..k
  BY <1>2, FrameAt
<1>7. i + 1 = Len(st) \/ i + 1 < Len(st)
  BY <1>1, <1>2
<1>8. st[i + 1].menu <= st[Len(st)].menu
  BY <1>2, <1>3, <1>6, <1>7
<1> QED
  BY <1>2, <1>4, <1>5, <1>8

LEMMA AroundIs ==
  ASSUME NEW l, NEW x, NEW pa, NEW P, NEW st, NEW u, NEW k, Held(l, x, pa, P, st, u, k)
  PROVE  /\ \A n \in 1..k : Gathering(st, pa[n]) => P[n] = pa[pa[n]]
         /\ \A n \in 1..k : ~Gathering(st, pa[n]) => P[n] = pa[n]
BY DEF Held, Arounds

(* What an option gathers is at most as far as the entry come to.          *)
LEMMA Beyond ==
  ASSUME NEW l, NEW x, NEW pa, NEW P, NEW st, NEW u, NEW k, Held(l, x, pa, P, st, u, k),
         Len(st) > 0, NEW n \in 1..k, st[Len(st)].menu < n, Gathering(st, pa[n])
  PROVE  st[Len(st)].stage = "gather" /\ pa[n] = st[Len(st)].menu /\ n <= st[Len(st)].at
<1>1. Calls(pa, P, st, k) /\ Gathers(l, x, pa, P, st, u, k) /\ Shape(l, x, P, u, k)
  BY DEF Held
<1>2. k \in Nat /\ Len(st) \in Nat
  BY <1>1, ShapeFacts, FrameAt
<1>3. PICK i \in 1..Len(st) : st[i].menu = pa[n] /\ st[i].stage = "gather"
  BY DEF Gathering
<1>4. Taken(x, pa, k, st[i].menu, st[i].at)
  BY <1>1, <1>3 DEF Gathers, GatherOf
<1>5. n <= st[i].at
  BY <1>3, <1>4 DEF Taken
<1>6. CASE i = Len(st)
  BY <1>3, <1>5, <1>6
<1>7. CASE i < Len(st)
  <2>1. st[i].at <= st[Len(st)].menu /\ Len(st) \in 1..Len(st)
    BY <1>1, <1>2, <1>7, Outermost
  <2>2. st[i].at \in 0..k /\ st[Len(st)].menu \in 1..k
    BY <1>1, <2>1, FrameAt
  <2> QED
    BY <1>2, <1>5, <2>1, <2>2
<1> QED
  BY <1>2, <1>6, <1>7

(* An entry that is below the innermost menu, or further in, has its parent.*)
LEMMA Direct ==
  ASSUME NEW l, NEW x, NEW pa, NEW P, NEW st, NEW u, NEW k, Held(l, x, pa, P, st, u, k),
         Len(st) > 0, NEW n \in 1..k, st[Len(st)].menu <= P[n]
  PROVE  pa[n] = P[n]
<1>1. Calls(pa, P, st, k) /\ Gathers(l, x, pa, P, st, u, k) /\ Shape(l, x, P, u, k)
  BY DEF Held
<1>2. k \in Nat /\ Len(st) \in Nat /\ Len(st) \in 1..Len(st)
  BY <1>1, ShapeFacts, FrameAt
<1>3. SUFFICES ASSUME Gathering(st, pa[n]) PROVE FALSE
  BY AroundIs
<1>4. PICK i \in 1..Len(st) : st[i].menu = pa[n] /\ st[i].stage = "gather"
  BY <1>3 DEF Gathering
<1>5. st[i].menu # 1 /\ st[i].menu \in 1..k /\ st[Len(st)].menu \in 1..k
  BY <1>1, <1>2, <1>4, FrameAt DEF Gathers, GatherOf
<1>6. P[n] = pa[st[i].menu] /\ P[st[i].menu] = pa[st[i].menu]
  <2>1. P[n] = pa[pa[n]]
    BY <1>3, AroundIs
  <2>2. P[st[i].menu] = pa[st[i].menu]
    BY <1>1 DEF Calls
  <2> QED
    BY <1>4, <2>1, <2>2
<1>7. st[i].menu \in 2..k
  BY <1>2, <1>5
<1>8. P[st[i].menu] < st[i].menu /\ P[st[i].menu] \in Nat
  BY <1>1, <1>7, AtBelow
<1>9. st[i].menu <= st[Len(st)].menu
  <2>1. i = Len(st) \/ i < Len(st)
    BY <1>2
  <2> QED
    BY <1>1, <1>2, <1>5, <2>1, Outermost
<1> QED
  BY <1>2, <1>5, <1>6, <1>8, <1>9

(* Nothing has a parent that has nothing below it and gathers nothing.     *)
LEMMA Childless ==
  ASSUME NEW l, NEW x, NEW pa, NEW P, NEW st, NEW u, NEW k, Held(l, x, pa, P, st, u, k),
         NEW f \in 1..k, l[f] = 0, ~Gathering(st, f), NEW n \in 1..k
  PROVE  pa[n] # f
<1>1. SUFFICES ASSUME pa[n] = f PROVE FALSE
  OBVIOUS
<1>2. Shape(l, x, P, u, k)
  BY DEF Held
<1>3. P[n] = f
  BY <1>1, AroundIs
<1>4. k \in Nat /\ P[1] = 0 /\ f \in Nat /\ f # 0
  BY <1>2, ShapeFacts
<1>5. n \in 2..k
  BY <1>3, <1>4
<1>6. P[n] < n /\ n <= u[P[n]] /\ n \in Nat
  BY <1>2, <1>5, AtBelow
<1>7. u[f] = f
  BY <1>2, AtEntry
<1> QED
  BY <1>3, <1>4, <1>6, <1>7

LEMMA AroundsKept ==
  ASSUME NEW pa, NEW st, NEW st2, NEW k,
         \A n \in 1..k : Gathering(st, pa[n]) <=> Gathering(st2, pa[n])
  PROVE  Arounds(pa, st2, k) = Arounds(pa, st, k)
BY DEF Arounds

(* The calls that are not the innermost, which wait for it.                *)
Waiting(st, st2, d) == \A i \in 1..(d - 1) : st2[i] = st[i]

LEMMA MenusUpTo ==
  ASSUME NEW pa, NEW P, NEW st, NEW k, k \in Nat, Calls(pa, P, st, k), NEW i \in 1..Len(st)
  PROVE  st[i].menu <= st[Len(st)].menu
<1>1. Len(st) \in Nat /\ i \in Nat /\ st[i].menu \in 1..k
  BY FrameAt
<1>2. i = Len(st) \/ i < Len(st)
  BY <1>1
<1>3. CASE i < Len(st)
  <2>1. st[i].menu < st[Len(st)].menu /\ Len(st) \in 1..Len(st)
    BY <1>3, Outermost
  <2>2. st[Len(st)].menu \in 1..k
    BY <2>1, FrameAt
  <2> QED
    BY <1>1, <2>1, <2>2
<1> QED
  BY <1>1, <1>2, <1>3

(* menu_finalize is called for f.                                          *)
LEMMA EnterHeld ==
  ASSUME NEW l, NEW x, NEW pa, NEW P, NEW st, NEW u, NEW k, Held(l, x, pa, P, st, u, k),
         NEW d, d = Len(st), d > 0, NEW f \in 1..k, st[d].menu < f, P[f] = pa[f],
         st[d].stage # "dissolve",
         st[d].stage = "each" => P[f] = st[d].menu,
         st[d].stage = "gather" => GatherOf(l, x, pa, P, u, k, st[d].menu, f, FALSE),
         NEW st2, st2 \in Seq(FramesOf(k)), Len(st2) = d + 1, Waiting(st, st2, d),
         st2[d].menu = st[d].menu, st2[d].stage = st[d].stage, st2[d].at = f,
         st2[d + 1].menu = f, st2[d + 1].at = 0,
         st2[d + 1].stage = "each" => l[f] # 0,
         st2[d + 1].stage = "gather" => l[f] = 0
  PROVE  Held(l, x, pa, P, st2, u, k)
<1>1. /\ P = Arounds(pa, st, k) /\ Calls(pa, P, st, k) /\ Loops(l, P, st)
      /\ Shape(l, x, P, u, k) /\ Gathers(l, x, pa, P, st, u, k)
  BY DEF Held
<1>2. k \in Nat /\ Len(st) \in Nat /\ d \in Nat /\ d \in 1..Len(st)
  BY <1>1, ShapeFacts, FrameAt
<1>3. st[d].menu \in 1..k /\ st[d].menu \in Nat /\ f \in Nat /\ f # 0 /\ f # 1
  <2>1. st[d].menu \in 1..k
    BY <1>1, <1>2, FrameAt
  <2> QED
    BY <2>1, <1>2
<1>4. \A i \in 1..d : st2[i].menu = st[i].menu /\ st2[i].stage = st[i].stage
  <2> SUFFICES ASSUME NEW i \in 1..d PROVE st2[i].menu = st[i].menu /\ st2[i].stage = st[i].stage
    OBVIOUS
  <2>1. i = d \/ i \in 1..(d - 1)
    BY <1>2
  <2> QED
    BY <2>1 DEF Waiting
<1>5. \A i \in 1..d : st[i].menu \in Nat /\ st[i].menu < f
  <2> SUFFICES ASSUME NEW i \in 1..Len(st) PROVE st[i].menu \in Nat /\ st[i].menu < f
    OBVIOUS
  <2>1. st[i].menu \in 1..k /\ st[i].menu <= st[d].menu
    BY <1>1, <1>2, FrameAt, MenusUpTo
  <2> QED
    BY <2>1, <1>2, <1>3
<1>6. ~Gathering(st, f)
  BY <1>2, <1>3, <1>5 DEF Gathering
<1>7. \A i \in 1..Len(st2) : i = d + 1 \/ i \in 1..d
  BY <1>2
<1>8. \A n \in 1..k : Gathering(st, pa[n]) <=> Gathering(st2, pa[n])
  <2> SUFFICES ASSUME NEW n \in 1..k PROVE Gathering(st, pa[n]) <=> Gathering(st2, pa[n])
    OBVIOUS
  <2>1. ASSUME Gathering(st, pa[n]) PROVE Gathering(st2, pa[n])
    <3>1. PICK i \in 1..d : st[i].menu = pa[n] /\ st[i].stage = "gather"
      BY <2>1 DEF Gathering
    <3>2. i \in 1..Len(st2)
      BY <1>2
    <3> QED
      BY <1>4, <3>1, <3>2 DEF Gathering
  <2>2. ASSUME Gathering(st2, pa[n]) PROVE Gathering(st, pa[n])
    <3>1. PICK i \in 1..Len(st2) : st2[i].menu = pa[n] /\ st2[i].stage = "gather"
      BY <2>2 DEF Gathering
    <3>2. i # d + 1
      <4>1. SUFFICES ASSUME i = d + 1 PROVE FALSE
        OBVIOUS
      <4>2. pa[n] = f /\ l[f] = 0
        BY <3>1, <4>1
      <4> QED
        BY <1>6, <4>2, Childless
    <3>3. i \in 1..Len(st) /\ i \in 1..d
      BY <1>7, <3>2
    <3> QED
      BY <1>4, <3>1, <3>3 DEF Gathering
  <2> QED
    BY <2>1, <2>2
<1>9. P = Arounds(pa, st2, k)
  BY <1>1, <1>8, AroundsKept
<1>10. Calls(pa, P, st2, k)
  <2>1. st2[1].menu = 1
    <3>1. 1 \in 1..d
      BY <1>2
    <3> QED
      BY <1>1, <1>2, <1>4, <3>1 DEF Calls
  <2>2. ASSUME NEW i \in 1..Len(st2) PROVE P[st2[i].menu] = pa[st2[i].menu]
    <3>1. CASE i = d + 1
      BY <3>1
    <3>2. CASE i \in 1..d
      <4>1. P[st[i].menu] = pa[st[i].menu]
        BY <1>1, <3>2 DEF Calls
      <4> QED
        BY <1>4, <3>2, <4>1
    <3> QED
      BY <1>7, <3>1, <3>2
  <2>3. ASSUME NEW i \in 1..Len(st2), i < Len(st2)
        PROVE  st2[i].stage # "dissolve" /\ st2[i].at = st2[i + 1].menu
    <3>1. i \in 1..d /\ (i = d \/ i \in 1..(d - 1))
      BY <1>2, <2>3
    <3>2. CASE i = d
      BY <3>2
    <3>3. CASE i \in 1..(d - 1)
      <4>1. st2[i] = st[i] /\ i \in 1..Len(st) /\ i < Len(st) /\ i + 1 \in 1..d
        BY <1>2, <3>3 DEF Waiting
      <4>2. st[i].stage # "dissolve" /\ st[i].at = st[i + 1].menu
        BY <1>1, <4>1 DEF Calls
      <4> QED
        BY <1>4, <4>1, <4>2
    <3> QED
      BY <3>1, <3>2, <3>3
  <2>4. ASSUME NEW i \in 1..Len(st2), NEW j \in 1..Len(st2), i < j
        PROVE  st2[i].menu < st2[j].menu
    <3>1. i \in 1..d
      BY <1>2, <2>4
    <3>2. CASE j = d + 1
      BY <1>4, <1>5, <3>1, <3>2
    <3>3. CASE j \in 1..d
      <4>1. st[i].menu < st[j].menu
        BY <1>1, <2>4, <3>1, <3>3 DEF Calls
      <4> QED
        BY <1>4, <3>1, <3>3, <4>1
    <3> QED
      BY <1>7, <3>2, <3>3
  <2> QED
    BY <2>1, <2>2, <2>3, <2>4 DEF Calls
<1>11. Loops(l, P, st2)
  <2> SUFFICES ASSUME NEW i \in 1..Len(st2)
               PROVE  /\ st2[i].stage = "each" => l[st2[i].menu] # 0
                      /\ st2[i].stage # "gather" /\ st2[i].at # 0 => P[st2[i].at] = st2[i].menu
    BY DEF Loops
  <2>1. CASE i = d + 1
    BY <2>1
  <2>2. CASE i \in 1..d
    <3>1. st[i].stage = "each" => l[st[i].menu] # 0
      BY <1>1, <2>2 DEF Loops
    <3>2. st[i].stage # "gather" /\ st[i].at # 0 => P[st[i].at] = st[i].menu
      BY <1>1, <2>2 DEF Loops
    <3>3. CASE i = d
      <4>1. st[d].stage \in Stages
        BY <1>1, <1>2, FrameAt
      <4> QED
        BY <1>4, <2>2, <3>1, <3>3, <4>1 DEF Stages
    <3>4. CASE i # d
      <4>1. st2[i] = st[i]
        BY <1>2, <2>2, <3>4 DEF Waiting
      <4> QED
        BY <3>1, <3>2, <4>1
    <3> QED
      BY <3>3, <3>4
  <2> QED
    BY <1>7, <2>1, <2>2
<1>12. Gathers(l, x, pa, P, st2, u, k)
  <2> SUFFICES ASSUME NEW i \in 1..Len(st2), st2[i].stage = "gather"
               PROVE  GatherOf(l, x, pa, P, u, k, st2[i].menu, st2[i].at, i = Len(st2))
    BY DEF Gathers
  <2>1. CASE i = d + 1
    <3>1. st2[i].menu = f /\ st2[i].at = 0 /\ l[f] = 0
      BY <2>1
    <3>2. Taken(x, pa, k, f, 0)
      BY <1>6, <3>1, Childless DEF Taken
    <3>3. Reached(x, pa, P, u, k, f, 0, i = Len(st2))
      BY DEF Reached
    <3> QED
      BY <1>3, <3>1, <3>2, <3>3 DEF GatherOf
  <2>2. CASE i = d
    <3>1. (i = Len(st2)) = FALSE
      BY <1>2, <2>2
    <3>2. st[d].stage = "gather"
      BY <2>2
    <3>3. GatherOf(l, x, pa, P, u, k, st[d].menu, f, FALSE)
      BY <3>2
    <3>4. st2[i].menu = st[d].menu /\ st2[i].at = f
      BY <2>2
    <3> QED
      BY <3>1, <3>3, <3>4
  <2>3. CASE i \in 1..(d - 1)
    <3>1. (i = Len(st2)) = FALSE /\ (i = Len(st)) = FALSE /\ i \in 1..Len(st)
      BY <1>2, <2>3
    <3>2. st2[i] = st[i]
      BY <2>3 DEF Waiting
    <3>3. GatherOf(l, x, pa, P, u, k, st[i].menu, st[i].at, i = Len(st))
      BY <1>1, <3>1, <3>2 DEF Gathers
    <3> QED
      BY <3>1, <3>2, <3>3
  <2> QED
    BY <1>2, <1>7, <2>1, <2>2, <2>3
<1> QED
  BY <1>1, <1>9, <1>10, <1>11, <1>12 DEF Held

(* Where a waiting call was, nothing that it has gathered changes.         *)
Unmoved(l, x, pa, P, l2, x2, pa2, P2, k, b) ==
  /\ \A y \in 1..k : y < b => l2[y] = l[y] /\ x2[y] = x[y]
  /\ \A y \in 1..k : y <= b => pa2[y] = pa[y] /\ P2[y] = P[y]
  /\ \A y \in 1..k : b < y => pa2[y] = pa[y] \/ b <= pa2[y]

LEMMA StillGathered ==
  ASSUME NEW k \in Nat, NEW p \in 1..k, NEW a \in 1..k, NEW b \in 1..k, p < b, a <= b,
         NEW l, NEW x, NEW pa, NEW P, NEW u, GatherOf(l, x, pa, P, u, k, p, a, FALSE),
         NEW l2, NEW x2, NEW pa2, NEW P2, NEW u2,
         \A n \in 1..k : x[n] \in 0..k,
         Unmoved(l, x, pa, P, l2, x2, pa2, P2, k, b)
  PROVE  GatherOf(l2, x2, pa2, P2, u2, k, p, a, FALSE)
<1>0. /\ \A y \in 1..k : y < b => l2[y] = l[y] /\ x2[y] = x[y]
      /\ \A y \in 1..k : y <= b => pa2[y] = pa[y] /\ P2[y] = P[y]
      /\ \A y \in 1..k : b < y => pa2[y] = pa[y] \/ b <= pa2[y]
  BY DEF Unmoved
<1>1. p # 1 /\ l[p] = 0 /\ Taken(x, pa, k, p, a) /\ Reached(x, pa, P, u, k, p, a, FALSE)
  BY DEF GatherOf
<1>2. p # 1 /\ l2[p] = 0
  BY <1>0, <1>1
<1>3. Taken(x2, pa2, k, p, a)
  <2> SUFFICES ASSUME NEW n \in 1..k, pa2[n] = p
               PROVE  /\ a # 0 /\ p < n /\ n <= a
                      /\ n < a => x2[n] # 0 /\ x2[n] <= a /\ (x2[n] = a \/ pa2[x2[n]] = p)
    BY DEF Taken
  <2>1. pa[n] = p
    <3>1. CASE n <= b
      BY <1>0, <3>1
    <3>2. CASE b < n
      BY <1>0, <3>2
    <3> QED
      BY <3>1, <3>2
  <2>2. p < n /\ n <= a /\ (n < a => x[n] # 0 /\ x[n] <= a /\ (x[n] = a \/ pa[x[n]] = p))
    BY <1>1, <2>1 DEF Taken
  <2>3. ASSUME n < a PROVE x2[n] # 0 /\ x2[n] <= a /\ (x2[n] = a \/ pa2[x2[n]] = p)
    <3>1. x2[n] = x[n]
      BY <1>0, <2>3
    <3>2. x[n] # 0 /\ x[n] <= a /\ (x[n] = a \/ pa[x[n]] = p)
      BY <2>2, <2>3
    <3>3. x[n] \in 1..k /\ x[n] <= b
      <4>1. x[n] \in 0..k
        OBVIOUS
      <4> QED
        BY <3>2, <4>1
    <3>4. pa2[x[n]] = pa[x[n]]
      BY <1>0, <3>3
    <3> QED
      BY <3>1, <3>2, <3>4
  <2> QED
    BY <2>2, <2>3
<1>4. Reached(x2, pa2, P2, u2, k, p, a, FALSE)
  <2>1. /\ p < a /\ P[a] = P[p] /\ pa[a] = pa[p] /\ x[p] = p + 1 /\ (a = p + 1 \/ pa[p + 1] = p)
        /\ \A y \in 1..k : p < y /\ y < a => p <= pa[y]
    BY <1>1 DEF Reached
  <2>2. P2[a] = P[a] /\ P2[p] = P[p] /\ pa2[a] = pa[a] /\ pa2[p] = pa[p] /\ x2[p] = x[p]
    BY <1>0
  <2>3. pa2[p + 1] = pa[p + 1]
    <3>1. p + 1 \in 1..k /\ p + 1 <= b
      BY <2>1
    <3> QED
      BY <1>0, <3>1
  <2>4. ASSUME NEW y \in 1..k, p < y, y < a PROVE p <= pa2[y]
    <3>1. pa2[y] = pa[y]
      BY <1>0, <2>4
    <3> QED
      BY <2>1, <2>4, <3>1
  <2> QED
    BY <2>1, <2>2, <2>3, <2>4 DEF Reached
<1> QED
  BY <1>2, <1>3, <1>4 DEF GatherOf

(* The innermost call goes on to its last loop, or goes on in it.          *)
LEMMA LoopHeld ==
  ASSUME NEW l, NEW x, NEW pa, NEW P, NEW st, NEW u, NEW k, Held(l, x, pa, P, st, u, k),
         NEW d, d = Len(st), d > 0,
         st[d].stage = "gather" => st[d].at = 0,
         NEW st2, st2 \in Seq(FramesOf(k)), Len(st2) = d, Waiting(st, st2, d),
         st2[d].menu = st[d].menu, st2[d].stage = "dissolve",
         st2[d].at # 0 => P[st2[d].at] = st[d].menu
  PROVE  Held(l, x, pa, P, st2, u, k)
<1>1. /\ P = Arounds(pa, st, k) /\ Calls(pa, P, st, k) /\ Loops(l, P, st)
      /\ Shape(l, x, P, u, k) /\ Gathers(l, x, pa, P, st, u, k)
  BY DEF Held
<1>2. k \in Nat /\ d \in Nat /\ d \in 1..Len(st) /\ Len(st2) = Len(st)
  <2>1. k \in Nat /\ Len(st) \in Nat
    BY <1>1, ShapeFacts, FrameAt
  <2> QED
    BY <2>1
<1>3. \A i \in 1..Len(st) : i = d \/ (i \in 1..(d - 1) /\ i < d /\ i # d /\ st2[i] = st[i])
  BY <1>2 DEF Waiting
<1>4. \A i \in 1..Len(st) : st2[i].menu = st[i].menu
  BY <1>3
<1>5. \A n \in 1..k : Gathering(st, pa[n]) <=> Gathering(st2, pa[n])
  <2> SUFFICES ASSUME NEW n \in 1..k PROVE Gathering(st, pa[n]) <=> Gathering(st2, pa[n])
    OBVIOUS
  <2>1. ASSUME Gathering(st, pa[n]) PROVE Gathering(st2, pa[n])
    <3>1. PICK i \in 1..Len(st) : st[i].menu = pa[n] /\ st[i].stage = "gather"
      BY <2>1 DEF Gathering
    <3>2. i # d
      <4>1. SUFFICES ASSUME i = d PROVE FALSE
        OBVIOUS
      <4>2. st[d].stage = "gather" /\ st[d].at = 0
        BY <3>1, <4>1
      <4>3. Taken(x, pa, k, st[d].menu, st[d].at)
        BY <1>1, <1>2, <4>2 DEF Gathers, GatherOf
      <4> QED
        BY <3>1, <4>1, <4>2, <4>3 DEF Taken
    <3>3. st2[i] = st[i]
      BY <1>3, <3>2
    <3> QED
      BY <1>2, <3>1, <3>3 DEF Gathering
  <2>2. ASSUME Gathering(st2, pa[n]) PROVE Gathering(st, pa[n])
    <3>1. PICK i \in 1..Len(st) : st2[i].menu = pa[n] /\ st2[i].stage = "gather"
      BY <1>2, <2>2 DEF Gathering
    <3>2. st2[i] = st[i]
      BY <1>3, <3>1
    <3> QED
      BY <3>1, <3>2 DEF Gathering
  <2> QED
    BY <2>1, <2>2
<1>6. P = Arounds(pa, st2, k)
  BY <1>1, <1>5, AroundsKept
<1>7. Calls(pa, P, st2, k)
  <2>1. st2[1].menu = 1
    <3>1. 1 \in 1..Len(st)
      BY <1>2
    <3> QED
      BY <1>1, <1>2, <1>4, <3>1 DEF Calls
  <2>2. \A i \in 1..Len(st2) : P[st2[i].menu] = pa[st2[i].menu]
    BY <1>1, <1>2, <1>4 DEF Calls
  <2>3. ASSUME NEW i \in 1..Len(st2), i < Len(st2)
        PROVE  st2[i].stage # "dissolve" /\ st2[i].at = st2[i + 1].menu
    <3>1. i \in 1..Len(st) /\ i < Len(st) /\ i # d /\ i + 1 \in 1..Len(st)
      BY <1>2, <2>3
    <3>2. st[i].stage # "dissolve" /\ st[i].at = st[i + 1].menu
      BY <1>1, <3>1 DEF Calls
    <3> QED
      BY <1>3, <1>4, <3>1, <3>2
  <2>4. \A i, j \in 1..Len(st2) : i < j => st2[i].menu < st2[j].menu
    BY <1>1, <1>2, <1>4 DEF Calls
  <2> QED
    BY <2>1, <2>2, <2>3, <2>4 DEF Calls
<1>8. Loops(l, P, st2)
  <2> SUFFICES ASSUME NEW i \in 1..Len(st)
               PROVE  /\ st2[i].stage = "each" => l[st2[i].menu] # 0
                      /\ st2[i].stage # "gather" /\ st2[i].at # 0 => P[st2[i].at] = st2[i].menu
    BY <1>2 DEF Loops
  <2>1. CASE i = d
    BY <2>1
  <2>2. CASE i # d
    <3>1. st2[i] = st[i]
      BY <1>3, <2>2
    <3> QED
      BY <1>1, <3>1 DEF Loops
  <2> QED
    BY <2>1, <2>2
<1>9. Gathers(l, x, pa, P, st2, u, k)
  <2> SUFFICES ASSUME NEW i \in 1..Len(st), st2[i].stage = "gather"
               PROVE  GatherOf(l, x, pa, P, u, k, st2[i].menu, st2[i].at, i = Len(st))
    BY <1>2 DEF Gathers
  <2>1. i # d
    OBVIOUS
  <2>2. st2[i] = st[i]
    BY <1>3, <2>1
  <2>3. st[i].stage = "gather"
    BY <2>2
  <2>4. GatherOf(l, x, pa, P, u, k, st[i].menu, st[i].at, i = Len(st))
    BY <1>1, <2>3 DEF Gathers
  <2> QED
    BY <2>2, <2>4
<1> QED
  BY <1>1, <1>6, <1>7, <1>8, <1>9 DEF Held

(* The innermost call changes links only from its menu on.                 *)
LEMMA RelinkHeld ==
  ASSUME NEW l, NEW x, NEW pa, NEW P, NEW st, NEW u, NEW k, Held(l, x, pa, P, st, u, k),
         NEW d, d = Len(st), d > 0, NEW b, b = st[d].menu,
         NEW l2, NEW x2, NEW pa2, NEW P2, NEW u2,
         NEW st2, st2 \in Seq(FramesOf(k)), Len(st2) = d, Waiting(st, st2, d),
         st2[d].menu = b, st2[d].stage = "dissolve", st2[d].at # 0 => P2[st2[d].at] = b,
         P2 = Arounds(pa2, st2, k), Shape(l2, x2, P2, u2, k),
         Unmoved(l, x, pa, P, l2, x2, pa2, P2, k, b)
  PROVE  Held(l2, x2, pa2, P2, st2, u2, k)
<1>0. /\ \A y \in 1..k : y < b => l2[y] = l[y] /\ x2[y] = x[y]
      /\ \A y \in 1..k : y <= b => pa2[y] = pa[y] /\ P2[y] = P[y]
      /\ \A y \in 1..k : b < y => pa2[y] = pa[y] \/ b <= pa2[y]
  BY DEF Unmoved
<1>1. /\ P = Arounds(pa, st, k) /\ Calls(pa, P, st, k) /\ Loops(l, P, st)
      /\ Shape(l, x, P, u, k) /\ Gathers(l, x, pa, P, st, u, k)
  BY DEF Held
<1>2. k \in Nat /\ d \in Nat /\ d \in 1..Len(st) /\ Len(st2) = Len(st) /\ b \in 1..k
  <2>1. k \in Nat /\ Len(st) \in Nat
    BY <1>1, ShapeFacts, FrameAt
  <2>2. d \in 1..Len(st)
    BY <2>1
  <2> QED
    BY <1>1, <2>1, <2>2, FrameAt
<1>3. \A i \in 1..Len(st) : i = d \/ (i \in 1..(d - 1) /\ i < d /\ i # d /\ st2[i] = st[i])
  BY <1>2 DEF Waiting
<1>4. \A i \in 1..Len(st) : /\ st2[i].menu = st[i].menu /\ st[i].menu \in 1..k /\ st[i].menu <= b
                            /\ pa2[st[i].menu] = pa[st[i].menu] /\ P2[st[i].menu] = P[st[i].menu]
  <2> SUFFICES ASSUME NEW i \in 1..Len(st)
               PROVE  /\ st2[i].menu = st[i].menu /\ st[i].menu \in 1..k /\ st[i].menu <= b
                      /\ pa2[st[i].menu] = pa[st[i].menu] /\ P2[st[i].menu] = P[st[i].menu]
    OBVIOUS
  <2>1. st2[i].menu = st[i].menu
    BY <1>3
  <2>2. st[i].menu \in 1..k /\ st[i].menu <= b
    BY <1>1, <1>2, FrameAt, MenusUpTo
  <2> QED
    BY <1>0, <2>1, <2>2
<1>5. \A i \in 1..(d - 1) : /\ i \in 1..Len(st) /\ i < Len(st) /\ i # Len(st) /\ st2[i] = st[i]
                            /\ st[i].menu < b /\ st[i].at \in 1..k /\ st[i].at <= b
  <2> SUFFICES ASSUME NEW i \in 1..(d - 1)
               PROVE  /\ i \in 1..Len(st) /\ i < Len(st) /\ i # Len(st) /\ st2[i] = st[i]
                      /\ st[i].menu < b /\ st[i].at \in 1..k /\ st[i].at <= b
    OBVIOUS
  <2>1. i \in 1..Len(st) /\ i < Len(st) /\ i # Len(st) /\ st2[i] = st[i]
    BY <1>2 DEF Waiting
  <2>2. i + 1 \in 1..Len(st) /\ st[i].at = st[i + 1].menu /\ st[i].menu < b /\ st[i].at <= b
    BY <1>1, <1>2, <2>1, Outermost
  <2> QED
    BY <1>4, <2>1, <2>2
<1>6. Calls(pa2, P2, st2, k)
  <2>1. st2[1].menu = 1
    <3>1. 1 \in 1..Len(st)
      BY <1>2
    <3> QED
      BY <1>1, <1>2, <1>4, <3>1 DEF Calls
  <2>2. \A i \in 1..Len(st2) : P2[st2[i].menu] = pa2[st2[i].menu]
    <3>1. \A i \in 1..Len(st) : P[st[i].menu] = pa[st[i].menu]
      BY <1>1 DEF Calls
    <3> QED
      BY <1>2, <1>4, <3>1
  <2>3. ASSUME NEW i \in 1..Len(st2), i < Len(st2)
        PROVE  st2[i].stage # "dissolve" /\ st2[i].at = st2[i + 1].menu
    <3>1. i \in 1..(d - 1) /\ i \in 1..Len(st) /\ i < Len(st) /\ i + 1 \in 1..Len(st)
      BY <1>2, <2>3
    <3>2. st[i].stage # "dissolve" /\ st[i].at = st[i + 1].menu
      BY <1>1, <3>1 DEF Calls
    <3>3. st2[i] = st[i] /\ st2[i + 1].menu = st[i + 1].menu
      BY <1>4, <1>5, <3>1
    <3> QED
      BY <3>2, <3>3
  <2>4. \A i, j \in 1..Len(st2) : i < j => st2[i].menu < st2[j].menu
    <3>1. \A i, j \in 1..Len(st) : i < j => st[i].menu < st[j].menu
      BY <1>1 DEF Calls
    <3> QED
      BY <1>2, <1>4, <3>1
  <2> QED
    BY <2>1, <2>2, <2>3, <2>4 DEF Calls
<1>7. Loops(l2, P2, st2)
  <2> SUFFICES ASSUME NEW i \in 1..Len(st)
               PROVE  /\ st2[i].stage = "each" => l2[st2[i].menu] # 0
                      /\ st2[i].stage # "gather" /\ st2[i].at # 0 => P2[st2[i].at] = st2[i].menu
    BY <1>2 DEF Loops
  <2>1. CASE i = d
    BY <2>1
  <2>2. CASE i \in 1..(d - 1)
    <3>1. st2[i] = st[i] /\ st[i].menu < b /\ st[i].at \in 1..k /\ st[i].at <= b
      BY <1>5, <2>2
    <3>2. l2[st[i].menu] = l[st[i].menu] /\ P2[st[i].at] = P[st[i].at]
      BY <1>0, <1>4, <3>1
    <3>3. /\ st[i].stage = "each" => l[st[i].menu] # 0
          /\ st[i].stage # "gather" /\ st[i].at # 0 => P[st[i].at] = st[i].menu
      BY <1>1 DEF Loops
    <3> QED
      BY <3>1, <3>2, <3>3
  <2> QED
    BY <1>3, <2>1, <2>2
<1>8. Gathers(l2, x2, pa2, P2, st2, u2, k)
  <2> SUFFICES ASSUME NEW i \in 1..Len(st), st2[i].stage = "gather"
               PROVE  GatherOf(l2, x2, pa2, P2, u2, k, st2[i].menu, st2[i].at, i = Len(st))
    BY <1>2 DEF Gathers
  <2>1. i # d
    OBVIOUS
  <2>2. st2[i] = st[i] /\ (i = Len(st)) = FALSE /\ i \in 1..(d - 1)
    BY <1>3, <2>1
  <2>3. st[i].stage = "gather"
    BY <2>2
  <2>4. GatherOf(l, x, pa, P, u, k, st[i].menu, st[i].at, i = Len(st))
    BY <1>1, <2>3 DEF Gathers
  <2>5. GatherOf(l, x, pa, P, u, k, st[i].menu, st[i].at, FALSE)
    BY <2>2, <2>4
  <2>6. \A n \in 1..k : x[n] \in 0..k
    BY <1>1, AtEntry
  <2>7. st[i].menu \in 1..k /\ st[i].at \in 1..k /\ st[i].menu < b /\ st[i].at <= b
    BY <1>4, <1>5, <2>2
  <2>8. GatherOf(l2, x2, pa2, P2, u2, k, st[i].menu, st[i].at, FALSE)
    BY <1>2, <2>5, <2>6, <2>7, StillGathered
  <2> QED
    BY <2>2, <2>8
<1> QED
  BY <1>6, <1>7, <1>8 DEF Held

LEMMA MenusApart ==
  ASSUME NEW pa, NEW P, NEW st, NEW k, Calls(pa, P, st, k), k \in Nat,
         NEW i \in 1..Len(st), NEW j \in 1..Len(st), st[i].menu = st[j].menu
  PROVE  i = j
<1>1. Len(st) \in Nat /\ st[i].menu \in 1..k
  BY FrameAt
<1>2. st[i].menu < st[j].menu \/ st[j].menu < st[i].menu \/ i = j
  <2>1. i < j \/ j < i \/ i = j
    BY <1>1
  <2> QED
    BY <2>1 DEF Calls
<1> QED
  BY <1>1, <1>2

(* What the option p has gathered, up to a, is linked below it.            *)
LEMMA GatherHeld ==
  ASSUME NEW l, NEW x, NEW pa, NEW P, NEW st, NEW u, NEW k, Held(l, x, pa, P, st, u, k),
         NEW d, d = Len(st), d > 0, NEW p, NEW a, p = st[d].menu, a = st[d].at,
         st[d].stage = "gather", a # 0,
         NEW st2, st2 \in Seq(FramesOf(k)), Len(st2) = d, Waiting(st, st2, d),
         st2[d].menu = p, st2[d].stage = "dissolve", st2[d].at = 0,
         NEW l2, NEW x2,
         \A n \in 1..k : l2[n] = IF n = p THEN x[p] ELSE l[n],
         \A n \in 1..k : x2[n] = IF n = a THEN 0 ELSE IF n = p THEN x[a] ELSE x[n]
  PROVE  Held(l2, x2, pa, Arounds(pa, st2, k), st2, [u EXCEPT ![p] = u[a]], k)
<1> DEFINE C == {n \in 1..k : pa[n] = p}
           P2 == Arounds(pa, st2, k)
           u2 == [u EXCEPT ![p] = u[a]]
<1>1. /\ P = Arounds(pa, st, k) /\ Calls(pa, P, st, k) /\ Loops(l, P, st)
      /\ Shape(l, x, P, u, k) /\ Gathers(l, x, pa, P, st, u, k)
  BY DEF Held
<1>2. k \in Nat /\ Len(st) \in Nat /\ d \in 1..Len(st) /\ d \in Nat
  BY <1>1, ShapeFacts, FrameAt
<1>3. p \in 1..k /\ a \in 0..k /\ a \in 1..k
  <2>1. p \in 1..k /\ a \in 0..k
    BY <1>1, <1>2, FrameAt
  <2> QED
    BY <1>2, <2>1
<1>4. GatherOf(l, x, pa, P, u, k, p, a, TRUE)
  <2>1. GatherOf(l, x, pa, P, u, k, st[d].menu, st[d].at, d = Len(st))
    BY <1>1, <1>2 DEF Gathers
  <2>2. (d = Len(st)) = TRUE
    OBVIOUS
  <2> QED
    BY <2>1, <2>2
<1>5. p # 1 /\ l[p] = 0 /\ Taken(x, pa, k, p, a) /\ Reached(x, pa, P, u, k, p, a, TRUE)
  BY <1>4 DEF GatherOf
<1>6. /\ p < a /\ P[a] = P[p] /\ pa[a] = p /\ x[p] = p + 1 /\ (a = p + 1 \/ pa[p + 1] = p)
      /\ \A y \in 1..k : p < y /\ y <= u[a] => p <= pa[y]
  BY <1>5 DEF Reached
<1>7. \A n \in C : /\ p < n /\ n <= a
                   /\ n < a => x[n] # 0 /\ x[n] <= a /\ (x[n] = a \/ pa[x[n]] = p)
  BY <1>5 DEF Taken
<1>8. p \in 2..k
  BY <1>2, <1>3, <1>5
<1>9. Gathering(st, p) /\ P[p] = pa[p]
  <2>1. Gathering(st, p)
    BY <1>2 DEF Gathering
  <2>2. P[p] = pa[p]
    BY <1>1, <1>2 DEF Calls
  <2> QED
    BY <2>1, <2>2
<1>10. \A n \in C : P[n] = P[p]
  <2> SUFFICES ASSUME NEW n \in C PROVE P[n] = P[p]
    OBVIOUS
  <2>1. Gathering(st, pa[n]) /\ n \in 1..k
    BY <1>9
  <2>2. P[n] = pa[pa[n]]
    BY <2>1, AroundIs
  <2> QED
    BY <1>9, <2>2
<1>11. Movable(l, x, P, u, k, p, a, C)
  <2>1. a \in C /\ p + 1 \in C
    <3>1. p + 1 \in 1..k
      BY <1>2, <1>3, <1>6
    <3> QED
      BY <1>3, <1>6, <3>1
  <2>2. ASSUME NEW n \in C, n < a PROVE x[n] # 0 /\ x[n] <= a /\ x[n] \in C
    <3>1. x[n] # 0 /\ x[n] <= a /\ (x[n] = a \/ pa[x[n]] = p)
      BY <1>7, <2>2
    <3>2. x[n] \in 0..k
      BY <1>1, AtEntry
    <3>3. x[n] \in 1..k
      BY <1>2, <3>1, <3>2
    <3> QED
      BY <2>1, <3>1, <3>3
  <2>3. ASSUME NEW y \in 1..k, p < y, y <= u[a] PROVE y \in C \/ p < P[y]
    <3>1. p <= pa[y]
      BY <1>6, <2>3
    <3>2. CASE pa[y] = p
      BY <3>2
    <3>3. CASE pa[y] # p
      <4>1. ~Gathering(st, pa[y])
        BY <1>2, <2>3, <3>3, Beyond
      <4>2. P[y] = pa[y]
        BY <4>1, AroundIs
      <4>3. P[y] \in 0..k
        BY <1>1, AtEntry
      <4> QED
        BY <1>2, <1>3, <3>1, <3>3, <4>2, <4>3
    <3> QED
      BY <3>2, <3>3
  <2>4. \A n \in C : n \in 1..k /\ p < n /\ n <= a /\ P[n] = P[p]
    BY <1>7, <1>10
  <2> HIDE DEF C
  <2> QED
    BY <1>5, <1>6, <2>1, <2>2, <2>3, <2>4 DEF Movable
<1>12. \A g : Gathering(st2, g) <=> Gathering(st, g) /\ g # p
  <2> SUFFICES ASSUME NEW g PROVE Gathering(st2, g) <=> Gathering(st, g) /\ g # p
    OBVIOUS
  <2>1. \A i \in 1..Len(st) : i = d \/ (i # d /\ st2[i] = st[i])
    BY <1>2 DEF Waiting
  <2>2. ASSUME Gathering(st2, g) PROVE Gathering(st, g) /\ g # p
    <3>1. PICK i \in 1..Len(st) : st2[i].menu = g /\ st2[i].stage = "gather"
      BY <2>2 DEF Gathering
    <3>2. i # d /\ st2[i] = st[i]
      BY <2>1, <3>1
    <3>3. g # p
      BY <1>1, <1>2, <3>1, <3>2, MenusApart
    <3> QED
      BY <3>1, <3>2, <3>3 DEF Gathering
  <2>3. ASSUME Gathering(st, g), g # p PROVE Gathering(st2, g)
    <3>1. PICK i \in 1..Len(st) : st[i].menu = g /\ st[i].stage = "gather"
      BY <2>3 DEF Gathering
    <3>2. i # d
      BY <2>3, <3>1
    <3>3. st2[i] = st[i] /\ i \in 1..Len(st2)
      BY <2>1, <3>2
    <3> QED
      BY <3>1, <3>3 DEF Gathering
  <2> QED
    BY <2>2, <2>3
<1>13. \A n \in 1..k : P2[n] = IF n \in C THEN p ELSE P[n]
  <2> SUFFICES ASSUME NEW n \in 1..k PROVE P2[n] = IF n \in C THEN p ELSE P[n]
    OBVIOUS
  <2>1. P2[n] = IF Gathering(st2, pa[n]) THEN pa[pa[n]] ELSE pa[n]
    BY DEF Arounds
  <2>2. P[n] = IF Gathering(st, pa[n]) THEN pa[pa[n]] ELSE pa[n]
    BY <1>1 DEF Arounds
  <2>3. CASE pa[n] = p
    BY <1>12, <2>1, <2>3
  <2>4. CASE pa[n] # p
    BY <1>12, <2>1, <2>2, <2>4
  <2> QED
    BY <2>3, <2>4
<1>14. Moved(l, x, P, k, l2, x2, P2, p, a, C)
  <2> HIDE DEF C, P2
  <2> QED
    BY <1>13 DEF Moved
<1>15. Shape(l2, x2, P2, u2, k)
  <2> HIDE DEF C, P2
  <2>1. PICK w : w = u2
    OBVIOUS
  <2>2. Shape(l2, x2, P2, w, k)
    BY <1>1, <1>3, <1>8, <1>11, <1>14, <2>1, GatherShape
  <2> QED
    BY <2>1, <2>2
<1>16. Unmoved(l, x, pa, P, l2, x2, pa, P2, k, p)
  <2> SUFFICES ASSUME NEW y \in 1..k
               PROVE  /\ y < p => l2[y] = l[y] /\ x2[y] = x[y]
                      /\ y <= p => P2[y] = P[y]
    BY DEF Unmoved
  <2>1. ASSUME y < p PROVE l2[y] = l[y] /\ x2[y] = x[y]
    <3>1. y # p /\ y # a
      BY <1>2, <1>3, <1>6, <2>1
    <3> QED
      BY <3>1
  <2>2. ASSUME y <= p PROVE P2[y] = P[y]
    <3>1. y \notin C
      BY <1>2, <1>3, <1>7, <2>2
    <3> QED
      BY <1>13, <3>1
  <2> QED
    BY <2>1, <2>2
<1> HIDE DEF C, P2, u2
<1>17. P2 = Arounds(pa, st2, k)
  BY DEF P2
<1>18. Held(l2, x2, pa, P2, st2, u2, k)
  BY <1>15, <1>16, <1>17, RelinkHeld
<1> QED
  BY <1>18 DEF P2, u2

(* What is below m follows it, up to the entry e.                          *)
Dissolved(l, x, pa, P, k, l2, x2, pa2, m, e, c) ==
  /\ \A n \in 1..k : l2[n] = IF n = m THEN 0 ELSE l[n]
  /\ \A n \in 1..k : x2[n] = IF n = m THEN l[m] ELSE IF n = e THEN x[m] ELSE x[n]
  /\ \A n \in 1..k : pa2[n] = IF P[n] = m THEN c ELSE pa[n]

(* What is below m, an entry of the innermost menu c, follows m instead.   *)
LEMMA DissolveHeld ==
  ASSUME NEW l, NEW x, NEW pa, NEW P, NEW st, NEW u, NEW k, Held(l, x, pa, P, st, u, k),
         NEW d, d = Len(st), d > 0, NEW c, c = st[d].menu, st[d].stage = "dissolve",
         NEW m \in 1..k, P[m] = c, l[m] # 0, NEW e \in 1..k, P[e] = m, x[e] = 0,
         NEW st2, st2 \in Seq(FramesOf(k)), Len(st2) = d, Waiting(st, st2, d),
         st2[d].menu = c, st2[d].stage = "dissolve", st2[d].at = m,
         NEW l2, NEW x2, NEW pa2,
         Dissolved(l, x, pa, P, k, l2, x2, pa2, m, e, c)
  PROVE  Held(l2, x2, pa2, Arounds(pa2, st2, k), st2, [u EXCEPT ![m] = m], k)
<1>0. /\ \A n \in 1..k : l2[n] = IF n = m THEN 0 ELSE l[n]
      /\ \A n \in 1..k : x2[n] = IF n = m THEN l[m] ELSE IF n = e THEN x[m] ELSE x[n]
      /\ \A n \in 1..k : pa2[n] = IF P[n] = m THEN c ELSE pa[n]
  BY DEF Dissolved
<1> USE <1>0
<1> DEFINE P2 == Arounds(pa2, st2, k)
           u2 == [u EXCEPT ![m] = m]
<1>1. /\ P = Arounds(pa, st, k) /\ Calls(pa, P, st, k) /\ Loops(l, P, st)
      /\ Shape(l, x, P, u, k) /\ Gathers(l, x, pa, P, st, u, k)
  BY DEF Held
<1>2. k \in Nat /\ Len(st) \in Nat /\ d \in 1..Len(st) /\ d \in Nat /\ P[1] = 0
  BY <1>1, ShapeFacts, FrameAt
<1>3. c \in 1..k /\ c \in Nat /\ c # 0 /\ m \in Nat
  <2>1. c \in 1..k
    BY <1>1, <1>2, FrameAt
  <2> QED
    BY <2>1, <1>2
<1>4. m \in 2..k /\ c < m
  <2>1. m \in 2..k
    BY <1>2, <1>3
  <2>2. P[m] < m
    BY <1>1, <2>1, AtBelow
  <2> QED
    BY <2>1, <2>2
<1>5. e \in 2..k /\ m < e /\ e \in Nat
  <2>1. e \in 2..k
    BY <1>2, <1>3, <1>4
  <2>2. P[e] < e
    BY <1>1, <2>1, AtBelow
  <2> QED
    BY <2>1, <2>2, <1>2
<1>6. \A y \in 1..k : y <= c => y \in Nat /\ P[y] # m
  <2> SUFFICES ASSUME NEW y \in 1..k, y <= c PROVE y \in Nat /\ P[y] # m
    OBVIOUS
  <2>1. CASE y = 1
    BY <2>1, <1>2, <1>3, <1>4
  <2>2. CASE y \in 2..k
    <3>1. P[y] < y /\ P[y] \in Nat /\ y \in Nat
      BY <1>1, <1>2, <2>2, AtBelow
    <3> QED
      BY <1>3, <1>4, <3>1
  <2> QED
    BY <1>2, <2>1, <2>2
<1>7. \A i \in 1..Len(st) : st2[i].menu = st[i].menu /\ st2[i].stage = st[i].stage
  <2> SUFFICES ASSUME NEW i \in 1..Len(st) PROVE st2[i].menu = st[i].menu /\ st2[i].stage = st[i].stage
    OBVIOUS
  <2>1. i = d \/ i \in 1..(d - 1)
    BY <1>2
  <2> QED
    BY <2>1 DEF Waiting
<1>8. \A g : Gathering(st2, g) <=> Gathering(st, g)
  BY <1>7 DEF Gathering
<1>9. ~Gathering(st, c)
  <2> SUFFICES ASSUME Gathering(st, c) PROVE FALSE
    OBVIOUS
  <2>1. PICK i \in 1..Len(st) : st[i].menu = c /\ st[i].stage = "gather"
    BY DEF Gathering
  <2>2. i = d
    BY <1>1, <1>2, <2>1, MenusApart
  <2> QED
    BY <2>1, <2>2
<1>10. \A g : Gathering(st, g) => g \in 1..k /\ g <= c
  <2> SUFFICES ASSUME NEW g, Gathering(st, g) PROVE g \in 1..k /\ g <= c
    OBVIOUS
  <2>1. PICK i \in 1..Len(st) : st[i].menu = g
    BY DEF Gathering
  <2> QED
    BY SMTT(30), <1>1, <1>2, <2>1, FrameAt, MenusUpTo
<1>11. \A n \in 1..k : P2[n] = IF P[n] = m THEN P[m] ELSE P[n]
  <2> SUFFICES ASSUME NEW n \in 1..k PROVE P2[n] = IF P[n] = m THEN P[m] ELSE P[n]
    OBVIOUS
  <2>1. P2[n] = IF Gathering(st2, pa2[n]) THEN pa2[pa2[n]] ELSE pa2[n]
    BY DEF Arounds
  <2>2. P[n] = IF Gathering(st, pa[n]) THEN pa[pa[n]] ELSE pa[n]
    BY <1>1 DEF Arounds
  <2>3. CASE P[n] = m
    <3>1. pa2[n] = c
      BY <2>3
    <3>2. P2[n] = c
      BY <1>8, <1>9, <2>1, <3>1
    <3> QED
      BY <2>3, <3>2
  <2>4. CASE P[n] # m /\ ~Gathering(st, pa[n])
    <3>1. pa2[n] = pa[n]
      BY <2>4
    <3> QED
      BY <1>8, <2>1, <2>2, <2>4, <3>1
  <2>5. CASE P[n] # m /\ Gathering(st, pa[n])
    <3>1. pa2[n] = pa[n]
      BY <2>5
    <3>2. pa[n] \in 1..k /\ P[pa[n]] # m
      BY <1>6, <1>10, <2>5
    <3>3. pa2[pa[n]] = pa[pa[n]]
      BY <3>2
    <3> QED
      BY <1>8, <2>1, <2>2, <2>5, <3>1, <3>3
  <2> QED
    BY <2>3, <2>4, <2>5
<1> HIDE DEF P2
<1>12. Lifted(l, x, P, k, l2, x2, P2, m, e)
  BY <1>11 DEF Lifted
<1>13. Shape(l2, x2, P2, u2, k)
  <2>1. PICK w : w = u2
    OBVIOUS
  <2>2. Shape(l2, x2, P2, w, k)
    BY <1>1, <1>4, <1>12, <2>1, DissolveShape
  <2> QED
    BY <2>1, <2>2
<1>14. Unmoved(l, x, pa, P, l2, x2, pa2, P2, k, c)
  <2> SUFFICES ASSUME NEW y \in 1..k
               PROVE  /\ y < c => l2[y] = l[y] /\ x2[y] = x[y]
                      /\ y <= c => pa2[y] = pa[y] /\ P2[y] = P[y]
                      /\ c < y => pa2[y] = pa[y] \/ c <= pa2[y]
    BY DEF Unmoved
  <2>1. ASSUME y < c PROVE l2[y] = l[y] /\ x2[y] = x[y]
    <3>1. y # m /\ y # e
      BY <1>2, <1>3, <1>4, <1>5, <2>1
    <3> QED
      BY <3>1
  <2>2. ASSUME y <= c PROVE pa2[y] = pa[y] /\ P2[y] = P[y]
    BY <1>6, <1>11, <2>2
  <2>3. pa2[y] = pa[y] \/ c <= pa2[y]
    BY <1>3
  <2> QED
    BY <2>1, <2>2, <2>3
<1>15. P2[m] = c
  BY <1>3, <1>4, <1>11
<1> HIDE DEF u2
<1>16. P2 = Arounds(pa2, st2, k)
  BY DEF P2
<1>17. Held(l2, x2, pa2, P2, st2, u2, k)
  BY <1>13, <1>14, <1>15, <1>16, RelinkHeld
<1> QED
  BY <1>17 DEF P2, u2

(* menu_finalize returns: what was called for an entry that its caller     *)
(* gathers sets the parent of it.                                          *)
LEMMA ReturnHeld ==
  ASSUME NEW l, NEW x, NEW pa, NEW P, NEW st, NEW u, NEW k, Held(l, x, pa, P, st, u, k),
         NEW d, d = Len(st), d > 0, NEW m, m = st[d].menu, st[d].stage = "dissolve",
         NEW st2, st2 \in Seq(FramesOf(k)), Len(st2) = d - 1, Waiting(st, st2, d),
         NEW pa2,
         \A n \in 1..k : pa2[n] = IF d > 1 /\ st[d - 1].stage = "gather" /\ n = m
                                  THEN st[d - 1].menu ELSE pa[n]
  PROVE  Held(l, x, pa2, P, st2, u, k)
<1>1. /\ P = Arounds(pa, st, k) /\ Calls(pa, P, st, k) /\ Loops(l, P, st)
      /\ Shape(l, x, P, u, k) /\ Gathers(l, x, pa, P, st, u, k)
  BY DEF Held
<1>2. k \in Nat /\ Len(st) \in Nat /\ d \in 1..Len(st) /\ d \in Nat
  BY <1>1, ShapeFacts, FrameAt
<1>3. m \in 1..k /\ m \in Nat
  <2>1. m \in 1..k
    BY <1>1, <1>2, FrameAt
  <2> QED
    BY <2>1, <1>2
<1>4. \A i \in 1..Len(st2) : /\ i \in 1..Len(st) /\ i < Len(st) /\ i \in 1..(d - 1) /\ st2[i] = st[i]
                             /\ st[i].menu \in 1..k /\ st[i].menu < m /\ st[i].menu # m
                             /\ st[i].at \in 1..k
  <2> SUFFICES ASSUME NEW i \in 1..Len(st2)
               PROVE  /\ i \in 1..Len(st) /\ i < Len(st) /\ i \in 1..(d - 1) /\ st2[i] = st[i]
                      /\ st[i].menu \in 1..k /\ st[i].menu < m /\ st[i].menu # m
                      /\ st[i].at \in 1..k
    OBVIOUS
  <2>1. i \in 1..Len(st) /\ i < Len(st) /\ i \in 1..(d - 1)
    BY <1>2
  <2>2. st2[i] = st[i]
    BY <2>1 DEF Waiting
  <2>3. st[i].menu \in 1..k /\ st[i].menu < m /\ i + 1 \in 1..Len(st) /\ st[i].at = st[i + 1].menu
    <3>1. st[i].menu \in 1..k
      BY <1>1, <2>1, FrameAt
    <3>2. i + 1 \in 1..Len(st) /\ st[i].at = st[i + 1].menu /\ st[i].menu < st[Len(st)].menu
      BY <1>1, <1>2, <2>1, Outermost
    <3> QED
      BY <3>1, <3>2
  <2>4. st[i + 1].menu \in 1..k
    BY <1>1, <2>3, FrameAt
  <2> QED
    BY <1>2, <1>3, <2>1, <2>2, <2>3, <2>4
<1>5. \A i \in 1..Len(st) : i = d \/ (i # d /\ i \in 1..Len(st2))
  BY <1>2
<1>6. \A g : Gathering(st2, g) <=> Gathering(st, g)
  BY <1>4, <1>5 DEF Gathering
<1>7. \A g : Gathering(st, g) => g \in 1..k /\ g # m
  <2> SUFFICES ASSUME NEW g, Gathering(st2, g) PROVE g \in 1..k /\ g # m
    BY <1>6
  <2>1. PICK i \in 1..Len(st2) : st2[i].menu = g
    BY DEF Gathering
  <2> QED
    BY <1>4, <2>1
<1> DEFINE gathered == d > 1 /\ st[d - 1].stage = "gather"
           q == st[d - 1].menu
<1>8. ASSUME gathered
      PROVE  /\ d - 1 \in 1..Len(st2) /\ q \in 1..k /\ q < m /\ q # m /\ st[d - 1].at = m
             /\ GatherOf(l, x, pa, P, u, k, q, m, FALSE)
  <2>1. d - 1 \in 1..Len(st2) /\ d - 1 \in 1..Len(st) /\ d - 1 < Len(st) /\ (d - 1) + 1 = d
    BY <1>2, <1>8
  <2>2. st[d - 1].at = st[(d - 1) + 1].menu
    BY <1>1, <2>1 DEF Calls
  <2>3. GatherOf(l, x, pa, P, u, k, st[d - 1].menu, st[d - 1].at, d - 1 = Len(st))
    BY <1>1, <1>8, <2>1 DEF Gathers
  <2>4. (d - 1 = Len(st)) = FALSE
    BY <2>1, <1>2
  <2>5. st[d - 1].at = m
    BY <2>1, <2>2
  <2> QED
    BY <1>4, <2>1, <2>3, <2>4, <2>5
<1>9. \A n \in 1..k : n # m => pa2[n] = pa[n]
  OBVIOUS
<1>10. (gathered => pa2[m] = q) /\ (~gathered => pa2[m] = pa[m])
  BY <1>3
<1> HIDE DEF gathered, q
<1>11. \A n \in 1..k : P[n] = IF Gathering(st2, pa2[n]) THEN pa2[pa2[n]] ELSE pa2[n]
  <2> SUFFICES ASSUME NEW n \in 1..k
               PROVE  P[n] = IF Gathering(st2, pa2[n]) THEN pa2[pa2[n]] ELSE pa2[n]
    OBVIOUS
  <2>1. P[n] = IF Gathering(st, pa[n]) THEN pa[pa[n]] ELSE pa[n]
    BY <1>1 DEF Arounds
  <2>2. CASE n = m /\ gathered
    <3>1. pa2[n] = q /\ q \in 1..k /\ q # m /\ GatherOf(l, x, pa, P, u, k, q, m, FALSE)
      BY <1>8, <1>10, <2>2
    <3>2. Gathering(st2, q)
      <4>1. d - 1 \in 1..Len(st2)
        BY <1>8, <2>2
      <4>2. st2[d - 1] = st[d - 1]
        BY <1>4, <4>1
      <4>3. st[d - 1].stage = "gather" /\ st[d - 1].menu = q
        BY <2>2 DEF gathered, q
      <4> QED
        BY <4>1, <4>2, <4>3 DEF Gathering
    <3>3. pa2[q] = pa[q]
      BY <1>9, <3>1
    <3>4. P[m] = P[q]
      BY <1>2, <1>3, <3>1 DEF GatherOf, Reached
    <3>5. P[q] = pa[q]
      <4>1. PICK i \in 1..Len(st) : st[i].menu = q
        BY <1>6, <3>2 DEF Gathering
      <4> QED
        BY <1>1, <4>1 DEF Calls
    <3> QED
      BY <2>2, <3>1, <3>2, <3>3, <3>4, <3>5
  <2>3. CASE ~(n = m /\ gathered)
    <3>1. pa2[n] = pa[n]
      BY <1>9, <1>10, <2>3
    <3>2. CASE Gathering(st, pa[n])
      <4>1. pa2[pa[n]] = pa[pa[n]]
        BY <1>7, <1>9, <3>2
      <4> QED
        BY <1>6, <2>1, <3>1, <3>2, <4>1
    <3>3. CASE ~Gathering(st, pa[n])
      BY <1>6, <2>1, <3>1, <3>3
    <3> QED
      BY <3>2, <3>3
  <2> QED
    BY <2>2, <2>3
<1>12. P = Arounds(pa2, st2, k)
  <2>1. P = [n \in 1..k |-> P[n]]
    BY <1>1 DEF Arounds
  <2> QED
    BY <1>11, <2>1 DEF Arounds
<1>13. Calls(pa2, P, st2, k)
  <2>1. ASSUME Len(st2) > 0 PROVE st2[1].menu = 1
    <3>1. 1 \in 1..Len(st2)
      BY <1>2, <2>1
    <3> QED
      BY <1>1, <1>2, <1>4, <3>1 DEF Calls
  <2>2. ASSUME NEW i \in 1..Len(st2) PROVE P[st2[i].menu] = pa2[st2[i].menu]
    <3>1. st2[i] = st[i] /\ i \in 1..Len(st) /\ pa2[st[i].menu] = pa[st[i].menu]
      BY <1>4, <1>9
    <3>2. P[st[i].menu] = pa[st[i].menu]
      BY <1>1, <3>1 DEF Calls
    <3> QED
      BY <3>1, <3>2
  <2>3. ASSUME NEW i \in 1..Len(st2), i < Len(st2)
        PROVE  st2[i].stage # "dissolve" /\ st2[i].at = st2[i + 1].menu
    <3>1. i + 1 \in 1..Len(st2)
      BY <1>2, <2>3
    <3>2. st2[i] = st[i] /\ st2[i + 1] = st[i + 1] /\ i \in 1..Len(st) /\ i < Len(st)
      BY <1>4, <3>1
    <3> QED
      BY <1>1, <3>2 DEF Calls
  <2>4. ASSUME NEW i \in 1..Len(st2), NEW j \in 1..Len(st2), i < j
        PROVE  st2[i].menu < st2[j].menu
    <3>1. st2[i] = st[i] /\ st2[j] = st[j] /\ i \in 1..Len(st) /\ j \in 1..Len(st)
      BY <1>4
    <3> QED
      BY <1>1, <2>4, <3>1 DEF Calls
  <2> QED
    BY <2>1, <2>2, <2>3, <2>4 DEF Calls
<1>14. Loops(l, P, st2)
  BY SMTT(30), <1>1, <1>4 DEF Loops
<1>15. Gathers(l, x, pa2, P, st2, u, k)
  <2> SUFFICES ASSUME NEW i \in 1..Len(st2), st2[i].stage = "gather"
               PROVE  GatherOf(l, x, pa2, P, u, k, st2[i].menu, st2[i].at, i = Len(st2))
    BY DEF Gathers
  <2>1. /\ i \in 1..Len(st) /\ i < Len(st) /\ i \in 1..(d - 1) /\ st2[i] = st[i]
        /\ st[i].menu \in 1..k /\ st[i].at \in 1..k
    BY <1>4
  <2>2. GatherOf(l, x, pa, P, u, k, st[i].menu, st[i].at, FALSE)
    <3>1. (i = Len(st)) = FALSE
      BY <1>2, <2>1
    <3>2. GatherOf(l, x, pa, P, u, k, st[i].menu, st[i].at, i = Len(st))
      BY <1>1, <2>1 DEF Gathers
    <3> QED
      BY <3>1, <3>2
  <2>3. CASE i < d - 1
    <3>1. (i = Len(st2)) = FALSE
      BY <1>2, <2>3
    <3> DEFINE b == st[d - 1].menu
    <3>2. d - 1 \in 1..Len(st2) /\ i + 1 \in 1..Len(st2)
      BY <1>2, <2>1, <2>3
    <3>3. b \in 1..k /\ b < m /\ st[i].menu < b
      <4>1. st[i].menu < st[d - 1].menu
        BY <1>1, <1>4, <2>1, <2>3, <3>2 DEF Calls
      <4> QED
        BY <1>4, <3>2, <4>1
    <3>4. st[i].at <= b
      <4>1. st[i].at = st[i + 1].menu /\ st[i + 1].menu \in 1..k
        BY <1>1, <1>4, <2>1, <3>2 DEF Calls
      <4>2. i + 1 = d - 1 \/ i + 1 < d - 1
        BY <1>2, <2>1, <2>3
      <4>3. CASE i + 1 < d - 1
        <5>1. st[i + 1].menu < st[d - 1].menu
          BY <1>1, <1>4, <3>2, <4>3 DEF Calls
        <5> QED
          BY <1>2, <3>3, <4>1, <5>1
      <4> QED
        BY <1>2, <3>3, <4>1, <4>2, <4>3
    <3>5. Unmoved(l, x, pa, P, l, x, pa2, P, k, b)
      <4> SUFFICES ASSUME NEW y \in 1..k
                   PROVE  (y <= b => pa2[y] = pa[y]) /\ (b < y => pa2[y] = pa[y] \/ b <= pa2[y])
        BY DEF Unmoved
      <4>1. ASSUME y <= b PROVE pa2[y] = pa[y]
        BY <1>2, <1>3, <1>9, <3>3, <4>1
      <4>2. pa2[y] = pa[y] \/ pa2[y] = b
        OBVIOUS
      <4> QED
        BY <3>3, <4>1, <4>2
    <3> HIDE DEF b
    <3>6. \A n \in 1..k : x[n] \in 0..k
      BY <1>1, AtEntry
    <3>7. GatherOf(l, x, pa2, P, u, k, st[i].menu, st[i].at, FALSE)
      BY <1>2, <2>1, <2>2, <3>3, <3>4, <3>5, <3>6, StillGathered
    <3> QED
      BY <2>1, <3>1, <3>7
  <2>4. CASE i = d - 1
    <3>1. (i = Len(st2)) = TRUE
      BY <2>4
    <3>2. gathered /\ st[i].menu = q
      BY <1>2, <2>1, <2>4 DEF gathered, q
    <3>3. q \in 1..k /\ q < m /\ q # m /\ st[i].at = m /\ pa2[m] = q /\ q \in Nat
      BY <1>2, <1>8, <1>10, <2>4, <3>2
    <3>4. q # 1 /\ l[q] = 0 /\ Taken(x, pa, k, q, m) /\ Reached(x, pa, P, u, k, q, m, FALSE)
      BY <1>8, <3>2 DEF GatherOf
    <3>5. Taken(x, pa2, k, q, m)
      <4> SUFFICES ASSUME NEW n \in 1..k, pa2[n] = q
                   PROVE  /\ m # 0 /\ q < n /\ n <= m
                          /\ n < m => x[n] # 0 /\ x[n] <= m /\ (x[n] = m \/ pa2[x[n]] = q)
        BY DEF Taken
      <4>1. CASE n = m
        BY <1>2, <1>3, <3>3, <4>1
      <4>2. CASE n # m
        <5>1. pa[n] = q
          BY <1>9, <4>2
        <5>2. /\ m # 0 /\ q < n /\ n <= m
              /\ n < m => x[n] # 0 /\ x[n] <= m /\ (x[n] = m \/ pa[x[n]] = q)
          BY <3>4, <5>1 DEF Taken
        <5>3. x[n] \in 0..k
          BY <1>1, AtEntry
        <5>4. x[n] # 0 /\ x[n] # m => pa2[x[n]] = pa[x[n]]
          BY <1>2, <1>9, <5>3
        <5> QED
          BY <5>2, <5>4
      <4> QED
        BY <4>1, <4>2
    <3>6. Reached(x, pa2, P, u, k, q, m, TRUE)
      <4>1. /\ q < m /\ P[m] = P[q] /\ x[q] = q + 1 /\ (m = q + 1 \/ pa[q + 1] = q)
            /\ \A y \in 1..k : q < y /\ y < m => q <= pa[y]
        BY <1>2, <1>3, <3>4 DEF Reached
      <4>2. m = q + 1 \/ pa2[q + 1] = q
        <5>1. q + 1 \in 1..k
          BY <1>2, <1>3, <3>3
        <5> QED
          BY <1>9, <4>1, <5>1
      <4>3. ASSUME NEW y \in 1..k, q < y, y <= u[m] PROVE q <= pa2[y]
        <5>1. CASE y = m
          BY <3>3, <5>1
        <5>2. CASE y < m
          <6>1. pa2[y] = pa[y] /\ q <= pa[y]
            BY <1>3, <1>9, <4>1, <4>3, <5>2
          <6> QED
            BY <6>1
        <5>3. CASE m < y
          <6>1. m <= P[y]
            BY <1>1, <1>3, <4>3, <5>3, AtTwo
          <6>2. pa[y] = P[y]
            BY <6>1, Direct
          <6>3. pa2[y] = pa[y] /\ P[y] \in 0..k
            BY <1>1, <1>3, <1>9, <5>3, AtEntry
          <6> QED
            BY <1>2, <1>3, <3>3, <6>1, <6>2, <6>3
        <5> QED
          BY <1>2, <1>3, <5>1, <5>2, <5>3
      <4> QED
        BY <3>3, <4>1, <4>2, <4>3 DEF Reached
    <3>7. GatherOf(l, x, pa2, P, u, k, q, m, TRUE)
      BY <3>4, <3>5, <3>6 DEF GatherOf
    <3> QED
      BY <2>1, <3>1, <3>2, <3>3, <3>7
  <2> QED
    BY <1>2, <2>1, <2>3, <2>4
<1> QED
  BY <1>1, <1>12, <1>13, <1>14, <1>15 DEF Held
-----------------------------------------------------------------------------
(* While it is read, the tree grows at its end: the entries around the next*)
(* one are those that current_menu is in.                                  *)
Growing(u) ==
  /\ \A y \in Declared : y <= current /\ current <= u[y] => u[y] = Len(entry) /\ next[y] = Nil
  /\ last[2] = "list" => list[last[1]] = Nil /\ last[1] = current /\ current = Len(entry)
  /\ last[2] = "next" => /\ last[1] # Root /\ next[last[1]] = Nil
                         /\ parent[last[1]] = current /\ u[last[1]] = Len(entry)

Placed == Arounds(parent, stack, Len(entry))

TreeInv ==
  /\ TypeOK /\ IsFiniteSet(scanned) /\ entry[Root] = RootMenu
  /\ \A n \in Entries \ Declared : list[n] = Nil /\ next[n] = Nil /\ parent[n] = Nil
  /\ stack # <<>> <=> phase = "finalizing"
  /\ \E u \in [Declared -> Declared] :
       /\ Held(list, next, parent, Placed, stack, u, Len(entry))
       /\ phase = "reading" => Growing(u)

LEMMA EmptyStack == Len(<<>>) = 0 /\ \A S : <<>> \in Seq(S)
BY EmptySeq

LEMMA IdleHeld ==
  ASSUME NEW l, NEW x, NEW pa, NEW u, NEW k \in Nat
  PROVE  /\ \A n \in 1..k : Arounds(pa, <<>>, k)[n] = pa[n]
         /\ Held(l, x, pa, Arounds(pa, <<>>, k), <<>>, u, k)
              <=> Shape(l, x, Arounds(pa, <<>>, k), u, k)
<1>1. Len(<<>>) = 0 /\ 1..0 = {} /\ <<>> \in Seq(FramesOf(k))
  BY EmptyStack
<1>2. \A g : ~Gathering(<<>>, g)
  BY <1>1 DEF Gathering
<1>3. \A n \in 1..k : Arounds(pa, <<>>, k)[n] = pa[n]
  BY <1>2 DEF Arounds
<1> DEFINE P == Arounds(pa, <<>>, k)
<1> HIDE DEF P
<1>4. Calls(pa, P, <<>>, k)
  BY <1>1 DEF Calls
<1>5. Loops(l, P, <<>>) /\ Gathers(l, x, pa, P, <<>>, u, k)
  BY <1>1 DEF Loops, Gathers
<1>6. Held(l, x, pa, P, <<>>, u, k) <=> Shape(l, x, P, u, k)
  BY <1>4, <1>5 DEF Held, P
<1> QED
  BY <1>3, <1>6 DEF P

LEMMA TreeFacts ==
  ASSUME TreeInv
  PROVE  /\ MaxEntries \in Nat /\ Len(entry) \in Nat /\ Len(entry) >= 1 /\ Len(entry) <= MaxEntries + 1
         /\ Declared = 1..Len(entry) /\ 1..Len(entry) \subseteq Entries /\ 1 \in 1..Len(entry)
         /\ list \in [Entries -> 0..(MaxEntries + 1)] /\ next \in [Entries -> 0..(MaxEntries + 1)]
         /\ parent \in [Entries -> 0..(MaxEntries + 1)]
         /\ Links = [Entries -> 0..(MaxEntries + 1)]
         /\ current \in 1..Len(entry) /\ last[1] \in 1..Len(entry) /\ last[2] \in {"list", "next"}
         /\ last = <<last[1], last[2]>>
<1>1. TypeOK /\ MaxEntries \in Nat
  BY MenuAssumption DEF TreeInv
<1>2. Len(entry) \in Nat /\ Len(entry) >= 1 /\ Len(entry) <= MaxEntries + 1
  BY <1>1 DEF TypeOK, Entries
<1>3. Declared = 1..Len(entry)
  <2>1. entry \in Seq(Statements \cup {RootMenu})
    BY <1>1 DEF TypeOK
  <2> QED
    BY <2>1, LenProperties DEF Declared
<1>4. 1..Len(entry) \subseteq Entries /\ 1 \in 1..Len(entry)
  BY <1>1, <1>2 DEF Entries
<1>5. {Nil} \cup Entries = 0..(MaxEntries + 1)
  BY <1>1 DEF Nil, Entries
<1>6. Links = [Entries -> 0..(MaxEntries + 1)]
  BY <1>5 DEF Links
<1>7. list \in Links /\ next \in Links /\ parent \in Links
  BY <1>1 DEF TypeOK
<1>8. current \in Declared /\ last \in Declared \X {"list", "next"}
  BY <1>1 DEF TypeOK
<1> QED
  BY <1>1, <1>2, <1>3, <1>4, <1>6, <1>7, <1>8

LEMMA TreeHeld ==
  ASSUME TreeInv
  PROVE  \E u \in [1..Len(entry) -> 1..Len(entry)] :
           /\ Held(list, next, parent, Placed, stack, u, Len(entry))
           /\ phase = "reading" => Growing(u)
BY TreeFacts DEF TreeInv

LEMMA TreeStart == TreeInit => TreeInv
<1> SUFFICES ASSUME TreeInit PROVE TreeInv
  OBVIOUS
<1>1. /\ entry = <<RootMenu>> /\ current = 1 /\ last = <<1, "list">>
      /\ list = [n \in Entries |-> 0] /\ next = list /\ parent = list
      /\ fileOf = [n \in Entries |-> Main] /\ open = <<Main>> /\ scanned = {}
      /\ stack = <<>> /\ phase = "reading"
  BY DEF TreeInit, Root, Nil
<1>2. MaxEntries \in Nat /\ Main \in Files
  BY MenuAssumption
<1>3. Len(entry) = 1 /\ Declared = {1} /\ 1..1 = {1} /\ Declared = 1..Len(entry) /\ 1 \in Entries
  BY <1>1, <1>2 DEF Declared, Entries
<1>4. TypeOK
  <2>1. entry \in Seq(Statements \cup {RootMenu}) /\ Len(entry) \in Entries
    BY <1>1, <1>3
  <2>2. list \in Links /\ next \in Links /\ parent \in Links
    BY <1>1 DEF Links, Nil
  <2>3. current \in Declared /\ last \in Declared \X {"list", "next"}
    BY <1>1, <1>3
  <2>4. fileOf \in [Entries -> Files] /\ open \in Seq(Files) /\ scanned \subseteq Files
    BY <1>1, <1>2
  <2>5. stack \in Seq(Frames)
    BY <1>1, EmptyStack
  <2> QED
    BY <1>1, <2>1, <2>2, <2>3, <2>4, <2>5 DEF TypeOK
<1>5. IsFiniteSet(scanned) /\ entry[Root] = RootMenu
  BY <1>1, FS_EmptySet DEF Root
<1>6. \A n \in Entries : list[n] = 0 /\ next[n] = 0 /\ parent[n] = 0
  BY <1>1
<1>7. PICK u : u = [n \in {1} |-> 1]
  OBVIOUS
<1>8. u \in [1..1 -> 1..1] /\ u[1] = 1
  BY <1>3, <1>7
<1>9. Placed = Arounds(parent, <<>>, 1)
  BY <1>1, <1>3 DEF Placed
<1>10. Placed[1] = 0
  <2>1. Placed[1] = parent[1]
    BY <1>3, <1>9, IdleHeld
  <2> QED
    BY <1>3, <1>6, <2>1
<1>11. Shape(list, next, Placed, u, 1)
  <2>1. \A n \in 1..1 : n = 1 /\ list[n] = 0 /\ next[n] = 0 /\ Placed[n] = 0 /\ u[n] = 1
    BY <1>3, <1>6, <1>8, <1>10
  <2>2. 2..1 = {} /\ \A n, y \in 1..1 : ~(n < y)
    OBVIOUS
  <2>3. Typed(list, next, Placed, u, 1) /\ Ends(list, next, Placed, u, 1)
    BY <1>3, <1>8, <2>1 DEF Typed, Ends
  <2>4. Downs(list, next, Placed, u, 1) /\ Ons(list, next, Placed, u, 1)
    BY <2>1 DEF Downs, Ons
  <2>5. Lasts(list, next, Placed, u, 1) /\ Ups(list, next, Placed, u, 1) /\ Nested(list, next, Placed, u, 1)
    BY <2>2 DEF Lasts, Ups, Nested
  <2> QED
    BY <2>3, <2>4, <2>5 DEF Shape
<1>12. Held(list, next, parent, Placed, stack, u, Len(entry))
  BY <1>1, <1>3, <1>9, <1>11, IdleHeld
<1>13. Growing(u)
  <2>1. \A y \in Declared : u[y] = Len(entry) /\ next[y] = Nil
    BY <1>3, <1>6, <1>8 DEF Nil
  <2>2. last[2] = "list" /\ last[1] = current /\ current = Len(entry) /\ list[last[1]] = Nil
    BY <1>1, <1>3, <1>6 DEF Nil
  <2> QED
    BY <2>1, <2>2 DEF Growing
<1>14. u \in [Declared -> Declared]
  BY <1>3, <1>8
<1>15. (stack # <<>>) <=> (phase = "finalizing")
  BY <1>1
<1>16. \A n \in Entries \ Declared : list[n] = Nil /\ next[n] = Nil /\ parent[n] = Nil
  BY <1>6 DEF Nil
<1> QED
  BY <1>4, <1>5, <1>12, <1>13, <1>14, <1>15, <1>16 DEF TreeInv

LEMMA LinkStep ==
  ASSUME TreeInv, NEW s \in Statements, Link(s) PROVE TreeInv'
<1> DEFINE k == Len(entry)
           n0 == Len(entry) + 1
<1>1. TypeOK /\ IsFiniteSet(scanned) /\ entry[Root] = RootMenu /\ (stack # <<>> <=> phase = "finalizing")
      /\ \A n \in Entries \ Declared : list[n] = Nil /\ next[n] = Nil /\ parent[n] = Nil
  BY DEF TreeInv
<1>2. /\ MaxEntries \in Nat /\ k \in Nat /\ k >= 1 /\ k <= MaxEntries + 1
      /\ Declared = 1..k /\ 1..k \subseteq Entries /\ 1 \in 1..k
      /\ list \in [Entries -> 0..(MaxEntries + 1)] /\ next \in [Entries -> 0..(MaxEntries + 1)]
      /\ parent \in [Entries -> 0..(MaxEntries + 1)]
      /\ current \in 1..k /\ last[1] \in 1..k /\ last[2] \in {"list", "next"}
  BY TreeFacts
<1>3. /\ phase = "reading" /\ open # <<>> /\ Bounded
      /\ entry' = Append(entry, s)
      /\ list' = (IF last[2] = "list" THEN [list EXCEPT ![last[1]] = n0] ELSE list)
      /\ next' = (IF last[2] = "next" THEN [next EXCEPT ![last[1]] = n0] ELSE next)
      /\ parent' = [parent EXCEPT ![n0] = current]
      /\ fileOf' = [fileOf EXCEPT ![n0] = Last(open)]
      /\ last' = LastPointer(s, n0)
      /\ current' = (IF s.kind \in Blocks THEN n0 ELSE current)
      /\ open' = open /\ scanned' = scanned /\ stack' = stack /\ phase' = phase
  BY DEF Link, Reading
<1>a. MaxEntries \in Nat /\ k \in Nat /\ k >= 1 /\ k <= MaxEntries + 1
  BY <1>2
<1>b. current \in 1..k /\ last[1] \in 1..k /\ last[2] \in {"list", "next"}
  BY <1>2
<1>4. stack = <<>>
  BY <1>1, <1>3
<1>5. open \in Seq(Files) /\ Len(open) \in Nat /\ Len(open) >= 1 /\ Last(open) \in Files
  <2>1. open \in Seq(Files)
    BY <1>1 DEF TypeOK
  <2>2. Len(open) \in Nat /\ Len(open) >= 1 /\ Len(open) \in 1..Len(open)
    BY <1>3, <2>1, EmptySeq
  <2> QED
    BY <2>1, <2>2, ElementOfSeq DEF Last
<1>6. n0 \in Entries /\ n0 \in Nat /\ n0 <= MaxEntries + 1
  <2>1. Cardinality(scanned) \in Nat
    BY <1>1, FS_CardinalityType
  <2>2. Len(entry) + Len(open) + Cardinality(scanned) <= MaxEntries + 1
    BY <1>3 DEF Bounded
  <2> QED
    BY <1>a, <1>5, <2>1, <2>2 DEF Entries
<1>7. /\ entry' \in Seq(Statements \cup {RootMenu}) /\ Len(entry') = k + 1 /\ entry'[1] = entry[1]
      /\ Declared' = 1..(k + 1)
  <2>1. entry \in Seq(Statements \cup {RootMenu}) /\ s \in Statements \cup {RootMenu}
    BY <1>1 DEF TypeOK
  <2>2. /\ Append(entry, s) \in Seq(Statements \cup {RootMenu}) /\ Len(Append(entry, s)) = k + 1
        /\ Append(entry, s)[1] = entry[1]
    BY <1>2, <2>1, AppendProperties
  <2>3. entry' \in Seq(Statements \cup {RootMenu}) /\ Len(entry') = k + 1 /\ entry'[1] = entry[1]
    BY <1>3, <2>2
  <2>4. DOMAIN entry' = 1..(k + 1)
    BY <2>3, LenProperties
  <2> QED
    BY <2>3, <2>4 DEF Declared
<1>8. PICK l2, x2, p2 : l2 = list' /\ x2 = next' /\ p2 = parent'
  OBVIOUS
<1>9. /\ \A n \in 1..k : /\ l2[n] = IF last[2] = "list" /\ n = last[1] THEN k + 1 ELSE list[n]
                         /\ x2[n] = IF last[2] = "next" /\ n = last[1] THEN k + 1 ELSE next[n]
                         /\ p2[n] = parent[n]
  <2> SUFFICES ASSUME NEW n \in 1..k
               PROVE  /\ l2[n] = IF last[2] = "list" /\ n = last[1] THEN k + 1 ELSE list[n]
                      /\ x2[n] = IF last[2] = "next" /\ n = last[1] THEN k + 1 ELSE next[n]
                      /\ p2[n] = parent[n]
    OBVIOUS
  <2>1. n \in Entries /\ n # n0
    <3>1. n \in Entries
      BY <1>2
    <3> QED
      BY <1>a, <3>1
  <2>2. l2[n] = IF last[2] = "list" /\ n = last[1] THEN k + 1 ELSE list[n]
    BY <1>2, <1>3, <1>8, <2>1
  <2>3. x2[n] = IF last[2] = "next" /\ n = last[1] THEN k + 1 ELSE next[n]
    BY <1>2, <1>3, <1>8, <2>1
  <2>4. p2[n] = parent[n]
    BY <1>2, <1>3, <1>8, <2>1
  <2> QED
    BY <2>2, <2>3, <2>4
<1>10. l2[k + 1] = 0 /\ x2[k + 1] = 0 /\ p2[k + 1] = current
  <2>1. n0 \in Entries \ Declared /\ last[1] # n0
    BY <1>2, <1>6
  <2>2. list[n0] = 0 /\ next[n0] = 0
    BY <1>1, <2>1 DEF Nil
  <2>3. l2[n0] = 0
    BY <1>2, <1>3, <1>8, <2>1, <2>2
  <2>4. x2[n0] = 0
    BY <1>2, <1>3, <1>8, <2>1, <2>2
  <2>5. p2[n0] = current
    BY <1>2, <1>3, <1>6, <1>8
  <2> QED
    BY <2>3, <2>4, <2>5
<1>11. PICK u \in [1..k -> 1..k] : /\ Held(list, next, parent, Placed, stack, u, k)
                                   /\ phase = "reading" => Growing(u)
  BY TreeHeld
<1> DEFINE P == Arounds(parent, <<>>, k)
           P2 == Arounds(p2, <<>>, k + 1)
<1>12. Shape(list, next, P, u, k) /\ \A n \in 1..k : P[n] = parent[n]
  <2>0. Placed = P /\ stack = <<>>
    BY <1>4 DEF Placed
  <2>1. Held(list, next, parent, P, <<>>, u, k)
    BY <1>11, <2>0
  <2> QED
    BY <1>2, <2>1, IdleHeld
<1>13. \A n \in 1..(k + 1) : P2[n] = p2[n]
  BY <1>2, <1>6, IdleHeld
<1>14. /\ \A y \in 1..k : y <= current /\ current <= u[y] => u[y] = k /\ next[y] = 0
       /\ last[2] = "list" => list[last[1]] = 0 /\ last[1] = current /\ current = k
       /\ last[2] = "next" => /\ last[1] # 1 /\ next[last[1]] = 0
                              /\ parent[last[1]] = current /\ u[last[1]] = k
  <2>1. phase = "reading"
    BY <1>3
  <2>2. Growing(u)
    BY <1>11, <2>1
  <2>3. Declared = 1..k
    BY <1>2
  <2> QED
    BY <2>2, <2>3 DEF Growing, Root, Nil
<1> DEFINE u2 == [n \in 1..(k + 1) |->
                    IF n = k + 1 \/ (n <= current /\ current <= u[n]) THEN k + 1 ELSE u[n]]
<1>15. PICK z, c, way, w : z = last[1] /\ c = current /\ way = last[2] /\ w = u2
  OBVIOUS
<1>16. w = [n \in 1..(k + 1) |-> IF n = k + 1 \/ (n <= c /\ c <= u[n]) THEN k + 1 ELSE u[n]]
  BY <1>15
<1> HIDE DEF u2
<1>17. Shape(l2, x2, P2, w, k + 1)
  <2> HIDE DEF P, P2, k
  <2>1. z \in 1..k /\ c \in 1..k /\ way \in {"list", "next"}
    BY <1>2, <1>15
  <2>2. \A n \in 1..k : /\ l2[n] = IF way = "list" /\ n = z THEN k + 1 ELSE list[n]
                        /\ x2[n] = IF way = "next" /\ n = z THEN k + 1 ELSE next[n]
                        /\ P2[n] = P[n]
    <3> SUFFICES ASSUME NEW n \in 1..k
                 PROVE  /\ l2[n] = IF way = "list" /\ n = z THEN k + 1 ELSE list[n]
                        /\ x2[n] = IF way = "next" /\ n = z THEN k + 1 ELSE next[n]
                        /\ P2[n] = P[n]
      OBVIOUS
    <3>1. n \in 1..(k + 1)
      BY <1>2
    <3>2. P2[n] = P[n]
      BY <1>9, <1>12, <1>13, <3>1
    <3> QED
      BY <1>9, <1>15, <3>2
  <2>3. l2[k + 1] = 0 /\ x2[k + 1] = 0 /\ P2[k + 1] = c
    <3>1. k + 1 \in 1..(k + 1)
      BY <1>2
    <3> QED
      BY <1>10, <1>13, <1>15, <3>1
  <2>4. \A y \in 1..k : y <= c /\ c <= u[y] => u[y] = k /\ next[y] = 0
    BY <1>14, <1>15
  <2>5. way = "list" => list[z] = 0 /\ z = c /\ c = k
    BY <1>14, <1>15
  <2>6. way = "next" => z # 1 /\ next[z] = 0 /\ P[z] = c /\ u[z] = k
    BY <1>12, <1>14, <1>15, <2>1
  <2>7. Shape(list, next, P, u, k)
    BY <1>12
  <2> QED
    <3>1. AtEnd(list, next, P, u, k, way, z, c)
      BY <2>4, <2>5, <2>6 DEF AtEnd
    <3>2. Linked(list, next, P, k, l2, x2, P2, way, z, c)
      BY <2>2, <2>3 DEF Linked
    <3>3. Stretched(u, w, k, c)
      BY <1>16 DEF Stretched
    <3> QED
      BY <2>1, <2>7, <3>1, <3>2, <3>3, LinkShape
<1>18. Held(l2, x2, p2, P2, <<>>, w, k + 1)
  BY <1>2, <1>6, <1>17, IdleHeld
<1>19. w \in [1..(k + 1) -> 1..(k + 1)]
  <2> HIDE DEF P2
  <2> QED
    BY <1>17 DEF Shape, Typed
<1>20. w[k + 1] = k + 1 /\ \A n \in 1..k : ~(n <= current /\ current <= u[n]) => w[n] = u[n] /\ w[n] # k + 1
  <2>1. k + 1 \in 1..(k + 1)
    BY <1>2
  <2>2. \A n \in 1..k : n \in 1..(k + 1) /\ n # k + 1 /\ u[n] \in 1..k /\ u[n] # k + 1
    <3>1. \A j \in 1..k : j \in 1..(k + 1) /\ j # k + 1
      BY <1>a
    <3>2. \A n \in 1..k : u[n] \in 1..k
      BY <1>11
    <3> HIDE DEF k
    <3> QED
      BY <3>1, <3>2
  <2> QED
    BY <1>15, <2>1, <2>2 DEF u2
<1> HIDE DEF P2, P
<1>21. Growing(w)'
  <2>1. \A y \in 1..(k + 1) : y <= current' /\ current' <= w[y] => w[y] = k + 1 /\ next'[y] = 0
    <3> SUFFICES ASSUME NEW y \in 1..(k + 1), y <= current', current' <= w[y]
                 PROVE  w[y] = k + 1 /\ x2[y] = 0
      BY <1>8
    <3>0. w[y] \in 1..(k + 1) /\ y \in Nat /\ current \in Nat /\ current <= k
      BY <1>a, <1>b, <1>19
    <3>1. CASE y = k + 1
      BY <1>10, <1>20, <3>1
    <3>2. CASE y # k + 1
      <4>1. y \in 1..k
        BY <1>2, <3>2
      <4>2. current' = current \/ current' = k + 1
        BY <1>3
      <4>3. y <= current /\ current <= u[y]
        <5>1. CASE current' = k + 1
          <6>1. w[y] = k + 1
            BY <1>2, <3>0, <5>1
          <6> QED
            BY <1>20, <4>1, <6>1
        <5>2. CASE current' = current
          BY <1>20, <4>1, <5>2
        <5> QED
          BY <4>2, <5>1, <5>2
      <4>4. w[y] = k + 1
        BY <1>2, <1>15, <4>1, <4>3 DEF u2
      <4>5. next[y] = 0 /\ u[y] = k
        BY <1>14, <4>1, <4>3
      <4>6. ~(last[2] = "next" /\ y = last[1])
        <5> SUFFICES ASSUME last[2] = "next", y = last[1] PROVE FALSE
          OBVIOUS
        <5>1. y # 1 /\ P[y] = current
          BY <1>12, <1>14, <4>1
        <5>2. y \in 2..k
          BY <1>2, <4>1, <5>1
        <5>3. P[y] < y
          BY <1>12, <5>2, AtBelow
        <5> QED
          BY <3>0, <4>3, <5>1, <5>3
      <4> QED
        BY <1>9, <4>1, <4>4, <4>5, <4>6
    <3> QED
      BY <3>1, <3>2
  <2>2. CASE s.kind \in Blocks
    <3>1. last' = <<k + 1, "list">> /\ current' = k + 1
      BY <1>3, <2>2 DEF LastPointer
    <3>2. last'[1] = k + 1 /\ last'[2] = "list"
      BY <3>1
    <3>3. list'[k + 1] = 0
      BY <1>8, <1>10
    <3> QED
      BY <1>7, <2>1, <3>1, <3>2, <3>3 DEF Growing, Root, Nil
  <2>3. CASE s.kind \notin Blocks
    <3>1. last' = <<k + 1, "next">> /\ current' = current
      BY <1>3, <2>3 DEF LastPointer
    <3>2. last'[1] = k + 1 /\ last'[2] = "next" /\ k + 1 # 1
      BY <1>2, <3>1
    <3>3. next'[k + 1] = 0 /\ parent'[k + 1] = current
      BY <1>8, <1>10
    <3> QED
      BY <1>7, <1>20, <2>1, <3>1, <3>2, <3>3 DEF Growing, Root, Nil
  <2> QED
    BY <2>2, <2>3
<1>22. Placed' = P2
  BY <1>3, <1>4, <1>7, <1>8 DEF Placed, P2
<1>23. TypeOK'
  <2>1. Len(entry') \in Entries /\ entry' \in Seq(Statements \cup {RootMenu})
    BY <1>6, <1>7
  <2>2. list' \in Links /\ next' \in Links /\ parent' \in Links
    <3>0. n0 \in 0..(MaxEntries + 1) /\ current \in 0..(MaxEntries + 1)
      BY <1>2, <1>6
    <3>1. list' \in [Entries -> 0..(MaxEntries + 1)]
      BY <1>2, <1>3, <3>0
    <3>2. next' \in [Entries -> 0..(MaxEntries + 1)]
      BY <1>2, <1>3, <3>0
    <3>3. parent' \in [Entries -> 0..(MaxEntries + 1)]
      BY <1>2, <1>3, <3>0
    <3> QED
      BY <3>1, <3>2, <3>3, TreeFacts
  <2>3. current' \in Declared'
    BY <1>2, <1>3, <1>7
  <2>4. last' \in Declared' \X {"list", "next"}
    BY <1>2, <1>3, <1>7 DEF LastPointer
  <2>5. fileOf' \in [Entries -> Files] /\ open' \in Seq(Files) /\ scanned' \subseteq Files
    <3>1. fileOf \in [Entries -> Files] /\ scanned \subseteq Files
      BY <1>1 DEF TypeOK
    <3> QED
      BY <1>3, <1>5, <3>1
  <2>6. stack' \in Seq(Frames)
    BY <1>3, <1>4, EmptyStack
  <2>7. phase' = "reading"
    BY <1>3
  <2> QED
    BY <2>1, <2>2, <2>3, <2>4, <2>5, <2>6, <2>7 DEF TypeOK
<1>24. \A n \in Entries \ Declared' : list'[n] = Nil /\ next'[n] = Nil /\ parent'[n] = Nil
  <2> SUFFICES ASSUME NEW n \in Entries \ Declared'
               PROVE  list'[n] = Nil /\ next'[n] = Nil /\ parent'[n] = Nil
    OBVIOUS
  <2>1. n \in Entries \ Declared /\ n # n0 /\ n # last[1]
    BY SMTT(30), <1>2, <1>7
  <2>2. list[n] = Nil /\ next[n] = Nil /\ parent[n] = Nil
    BY <1>1, <2>1
  <2>3. list'[n] = Nil
    BY <1>3, <2>1, <2>2
  <2>4. next'[n] = Nil
    BY <1>3, <2>1, <2>2
  <2>5. parent'[n] = Nil
    BY <1>3, <2>1, <2>2
  <2> QED
    BY <2>3, <2>4, <2>5
<1>25. Held(list', next', parent', Placed', stack', w, Len(entry'))
  BY <1>3, <1>4, <1>7, <1>8, <1>18, <1>22
<1>26. entry'[Root] = RootMenu /\ IsFiniteSet(scanned') /\ (stack' # <<>> <=> phase' = "finalizing")
  BY <1>1, <1>3, <1>7 DEF Root
<1>28. w \in [Declared' -> Declared'] /\ Held(list', next', parent', Placed', stack', w, Len(entry'))
       /\ Growing(w)'
  BY <1>7, <1>19, <1>21, <1>25
<1> QED
  BY <1>23, <1>24, <1>26, <1>28 DEF TreeInv

(* The grammar comes to the end of a block or of a file, or to another     *)
(* file: the tree stays as it is.                                          *)
LEMMA ReadOn ==
  ASSUME TreeInv, phase = "reading", UNCHANGED <<entry, links, fileOf, stack>>,
         current' \in Declared, last' \in Declared \X {"list", "next"},
         open' \in Seq(Files), scanned' \subseteq Files, IsFiniteSet(scanned'),
         phase' \in {"reading", "failed", "exited"},
         \A u : /\ Held(list, next, parent, Placed, stack, u, Len(entry)) /\ Growing(u)
                /\ phase' = "reading"
                => Growing(u)'
  PROVE  TreeInv'
<1>1. /\ entry' = entry /\ list' = list /\ next' = next /\ parent' = parent
      /\ fileOf' = fileOf /\ stack' = stack /\ Declared' = Declared /\ Placed' = Placed
  BY DEF links, Declared, Placed
<1>2. TypeOK /\ entry[Root] = RootMenu /\ (stack # <<>> <=> phase = "finalizing")
  BY DEF TreeInv
<1>3. \A n \in Entries \ Declared : list[n] = Nil /\ next[n] = Nil /\ parent[n] = Nil
  BY DEF TreeInv
<1>4. TypeOK'
  BY <1>1, <1>2 DEF TypeOK
<1>5. stack' = <<>> /\ phase' # "finalizing"
  BY <1>1, <1>2
<1>6. PICK u \in [Declared -> Declared] :
        /\ Held(list, next, parent, Placed, stack, u, Len(entry))
        /\ phase = "reading" => Growing(u)
  BY DEF TreeInv
<1>7. Held(list', next', parent', Placed', stack', u, Len(entry'))
  BY <1>1, <1>6
<1>8. phase' = "reading" => Growing(u)'
  BY <1>6
<1>9. u \in [Declared' -> Declared']
  BY <1>1, <1>6
<1>10. (\A n \in Entries \ Declared : list[n] = Nil /\ next[n] = Nil /\ parent[n] = Nil)'
  BY <1>1, <1>3
<1>11. (entry[Root] = RootMenu)' /\ (stack # <<>> <=> phase = "finalizing")'
  BY <1>1, <1>2, <1>5
<1> QED
  BY <1>4, <1>7, <1>8, <1>9, <1>10, <1>11 DEF TreeInv

LEMMA StillGrowing ==
  ASSUME UNCHANGED <<entry, links, current, last>>, NEW u, Growing(u)
  PROVE  Growing(u)'
<1>1. /\ entry' = entry /\ list' = list /\ next' = next /\ parent' = parent
      /\ current' = current /\ last' = last
  BY DEF links
<1> QED
  BY <1>1 DEF Growing, Declared

LEMMA EndStep ==
  ASSUME TreeInv, NEW kind, End(kind) PROVE TreeInv'
<1>1. TypeOK /\ IsFiniteSet(scanned)
  BY DEF TreeInv
<1>2. /\ phase = "reading" /\ UNCHANGED <<entry, links, fileOf, stack>>
      /\ open' = open /\ scanned' = scanned
  BY DEF End, Reading
<1>3. /\ current \in Declared /\ last \in Declared \X {"list", "next"}
      /\ open \in Seq(Files) /\ scanned \subseteq Files
  BY <1>1 DEF TypeOK
<1>4. CASE ~Matches(kind)
  <2>1. phase' = "failed" /\ current' = current /\ last' = last
    BY <1>4 DEF End
  <2> QED
    BY <1>1, <1>2, <1>3, <2>1, ReadOn
<1>5. CASE Matches(kind)
  <2>1. last' = <<current, "next">> /\ current' = parent[current] /\ phase' = phase /\ current # 1
    BY <1>5 DEF End, Matches, Root
  <2>2. PICK k : k = Len(entry)
    OBVIOUS
  <2>3. k \in Nat /\ Declared = 1..k /\ current \in 1..k
    BY <2>2, TreeFacts
  <2>4. current \in 2..k /\ stack = <<>>
    BY <1>2, <2>1, <2>3 DEF TreeInv
  <2>5. PICK c, P : c = current /\ P = Arounds(parent, <<>>, k)
    OBVIOUS
  <2>6. ASSUME NEW u, Held(list, next, parent, Placed, stack, u, Len(entry))
        PROVE  /\ Shape(list, next, P, u, k) /\ \A n \in 1..k : P[n] = parent[n]
    <3>1. Placed = P
      BY <2>2, <2>4, <2>5 DEF Placed
    <3>2. Held(list, next, parent, P, <<>>, u, k)
      BY <2>2, <2>4, <2>6, <3>1
    <3> QED
      BY <2>3, <2>5, <3>2, IdleHeld
  <2>7. PICK v \in [Declared -> Declared] : Held(list, next, parent, Placed, stack, v, Len(entry))
    BY DEF TreeInv
  <2>8. parent[c] \in 1..k /\ P[c] = parent[c]
    <3>1. Shape(list, next, P, v, k) /\ P[c] = parent[c] /\ c \in 2..k
      BY <2>3, <2>4, <2>5, <2>6, <2>7
    <3> QED
      BY <3>1, AtBelow
  <2>9. current' \in Declared /\ last' \in Declared \X {"list", "next"} /\ last'[1] = c /\ last'[2] = "next"
    BY <2>1, <2>3, <2>5, <2>8
  <2>10. ASSUME NEW u, Held(list, next, parent, Placed, stack, u, Len(entry)), Growing(u)
         PROVE  Growing(u)'
    <3>1. Shape(list, next, P, u, k)
      BY <2>6, <2>10
    <3>2. \A y \in 1..k : y <= c /\ c <= u[y] => u[y] = k /\ next[y] = 0
      BY <2>2, <2>3, <2>5, <2>10 DEF Growing, Nil
    <3>3. c \in 2..k /\ c \in 1..k /\ c \in Nat
      BY <2>3, <2>4, <2>5
    <3>4. c <= u[c] /\ u[c] = k /\ next[c] = 0
      <4>1. c <= u[c]
        BY <3>1, <3>3, AtEntry
      <4> QED
        BY <3>2, <3>3, <4>1
    <3>5. P[c] \in 1..k /\ P[c] \in Nat /\ P[c] < c /\ u[c] <= u[P[c]] /\ u[P[c]] \in Nat /\ u[P[c]] <= k
      BY <3>1, <3>3, AtBelow
    <3>6. ASSUME NEW y \in 1..k, y <= P[c], P[c] <= u[y] PROVE u[y] = k /\ next[y] = 0
      <4>1. u[P[c]] <= u[y]
        <5>1. CASE y = P[c]
          BY <3>5, <5>1
        <5>2. CASE y < P[c]
          BY <3>1, <3>5, <3>6, <5>2, AtTwo
        <5> QED
          BY <2>3, <3>5, <3>6, <5>1, <5>2
      <4>2. u[y] \in Nat /\ u[y] <= k /\ y \in Nat
        BY <2>3, <3>1, AtEntry
      <4>3. y <= c /\ c <= u[y]
        <5>1. y <= c
          BY <3>3, <3>5, <3>6, <4>2
        <5>2. k \in Nat /\ c <= k /\ k <= u[P[c]]
          BY <2>3, <3>3, <3>4, <3>5
        <5>3. k <= u[y]
          BY <3>5, <4>1, <4>2, <5>2
        <5> QED
          BY <3>3, <4>2, <5>1, <5>2, <5>3
      <4> QED
        BY <3>2, <4>3
    <3>7. entry' = entry /\ list' = list /\ next' = next /\ parent' = parent /\ current' = P[c]
      BY <1>2, <2>1, <2>5, <2>8 DEF links
    <3>8. \A y \in Declared' : y <= current' /\ current' <= u[y] => u[y] = Len(entry') /\ next'[y] = Nil
      BY <2>2, <2>3, <3>6, <3>7 DEF Declared, Nil
    <3>9. last'[1] # Root /\ next'[last'[1]] = Nil /\ parent'[last'[1]] = current' /\ u[last'[1]] = Len(entry')
      BY <2>2, <2>8, <2>9, <3>3, <3>4, <3>7 DEF Root, Nil
    <3> QED
      BY <2>9, <3>8, <3>9 DEF Growing
  <2> QED
    BY <1>1, <1>2, <1>3, <2>1, <2>9, <2>10, ReadOn
<1> QED
  BY <1>4, <1>5

LEMMA FileSteps ==
  ASSUME TreeInv, (\E f \in Files : Source(f)) \/ EndFile PROVE TreeInv'
<1>1. TypeOK /\ IsFiniteSet(scanned)
  BY DEF TreeInv
<1>2. /\ current \in Declared /\ last \in Declared \X {"list", "next"}
      /\ open \in Seq(Files) /\ scanned \subseteq Files
  BY <1>1 DEF TypeOK
<1>3. /\ phase = "reading" /\ open # <<>> /\ UNCHANGED <<entry, links, fileOf, stack>>
      /\ current' = current /\ last' = last
  BY DEF Source, EndFile, Reading
<1>4. \A u : Growing(u) => Growing(u)'
  BY <1>3, StillGrowing
<1>5. /\ open' \in Seq(Files) /\ scanned' \subseteq Files /\ IsFiniteSet(scanned')
      /\ phase' \in {"reading", "failed", "exited"}
  <2>1. ASSUME NEW f \in Files, Source(f)
        PROVE  open' \in Seq(Files) /\ scanned' = scanned /\ phase' \in {"reading", "exited"}
    <3>1. Append(open, f) \in Seq(Files)
      BY <1>2, AppendProperties
    <3>2. (open' = open \/ open' = Append(open, f)) /\ scanned' = scanned /\ (phase' = phase \/ phase' = "exited")
      BY <2>1 DEF Source
    <3> QED
      BY <1>2, <1>3, <3>1, <3>2
  <2>2. ASSUME EndFile
        PROVE  /\ open' \in Seq(Files) /\ scanned' \subseteq Files /\ IsFiniteSet(scanned')
               /\ phase' \in {"reading", "failed"}
    <3>1. Len(open) \in Nat /\ Len(open) \in 1..Len(open) /\ \A i \in 1..Len(open) : open[i] \in Files
      BY <1>2, <1>3, EmptySeq, LenProperties, ElementOfSeq
    <3>2. open' = SubSeq(open, 1, Len(open) - 1) /\ scanned' = scanned \cup {open[Len(open)]}
      BY <2>2 DEF EndFile, Front, Last
    <3>3. open' \in Seq(Files)
      BY <3>1, <3>2, SubSeqProperties
    <3>4. IsFiniteSet(scanned') /\ scanned' \subseteq Files
      <4>1. IsFiniteSet(scanned \cup {open[Len(open)]})
        BY <1>1, FS_AddElement
      <4> QED
        BY <1>2, <3>1, <3>2, <4>1
    <3>5. phase' = phase \/ phase' = "failed"
      BY <2>2 DEF EndFile
    <3> QED
      BY <1>3, <3>3, <3>4, <3>5
  <2> QED
    BY <1>1, <1>2, <2>1, <2>2
<1> QED
  BY <1>2, <1>3, <1>4, <1>5, ReadOn

(* Steps of menu_finalize.                                                 *)
LEMMA FinalizeOn ==
  ASSUME TreeInv, UNCHANGED readVars, list' \in Links, next' \in Links, parent' \in Links,
         \A n \in Entries \ Declared : list'[n] = Nil /\ next'[n] = Nil /\ parent'[n] = Nil,
         phase' \in {"finalizing", "finalized"}, stack' # <<>> <=> phase' = "finalizing",
         NEW u, NEW P, Held(list', next', parent', P, stack', u, Len(entry))
  PROVE  TreeInv'
<1>1. /\ entry' = entry /\ current' = current /\ last' = last /\ fileOf' = fileOf
      /\ open' = open /\ scanned' = scanned /\ Declared' = Declared
  BY DEF readVars, Declared
<1>2. TypeOK /\ IsFiniteSet(scanned) /\ entry[Root] = RootMenu
  BY DEF TreeInv
<1>3. Declared = 1..Len(entry) /\ 1..Len(entry) \subseteq Entries /\ MaxEntries \in Nat
  BY TreeFacts
<1>4. stack' \in Seq(FramesOf(Len(entry))) /\ P = Arounds(parent', stack', Len(entry))
      /\ u \in [1..Len(entry) -> 1..Len(entry)]
  BY DEF Held, Calls, Shape, Typed
<1>5. FramesOf(Len(entry)) \subseteq Frames
  <2>1. 0..Len(entry) \subseteq {Nil} \cup Entries
    BY <1>3 DEF Nil, Entries
  <2> QED
    BY <1>3, <2>1 DEF FramesOf, Frames, Stages
<1>6. stack' \in Seq(Frames)
  BY <1>4, <1>5, SeqMonotonic
<1>7. TypeOK'
  BY <1>1, <1>2, <1>6 DEF TypeOK
<1>8. Placed' = P
  BY <1>1, <1>4 DEF Placed
<1>9. Held(list', next', parent', Placed', stack', u, Len(entry'))
  BY <1>1, <1>8
<1>10. phase' # "reading"
  OBVIOUS
<1>11. u \in [Declared' -> Declared']
  BY <1>1, <1>3, <1>4
<1>12. (entry[Root] = RootMenu)' /\ IsFiniteSet(scanned')
  BY <1>1, <1>2
<1>13. (\A n \in Entries \ Declared : list[n] = Nil /\ next[n] = Nil /\ parent[n] = Nil)'
  BY <1>1
<1>14. \E w \in [Declared' -> Declared'] :
         /\ Held(list', next', parent', Placed', stack', w, Len(entry'))
         /\ phase' = "reading" => Growing(w)'
  BY <1>9, <1>10, <1>11
<1> QED
  BY <1>7, <1>12, <1>13, <1>14 DEF TreeInv

TopSet(st, d, f, s) == s = [st EXCEPT ![d] = f]
LEMMA SetTop ==
  ASSUME NEW k, NEW st, st \in Seq(FramesOf(k)), NEW d, d = Len(st), d > 0, NEW f, f \in FramesOf(k),
         NEW s, TopSet(st, d, f, s)
  PROVE  s \in Seq(FramesOf(k)) /\ Len(s) = d /\ Waiting(st, s, d) /\ s[d] = f
<1>0. s = [st EXCEPT ![d] = f]
  BY DEF TopSet
<1>1. d \in Nat /\ d > 0
  BY LenProperties
<1>2. d \in 1..Len(st)
  BY <1>1
<1>3. /\ s \in Seq(FramesOf(k)) /\ Len(s) = Len(st)
      /\ \A j \in 1..Len(st) : s[j] = IF j = d THEN f ELSE st[j]
  BY ONLY <1>2, st \in Seq(FramesOf(k)), f \in FramesOf(k), <1>0, ExceptSeq
<1>4. \A j \in 1..(d - 1) : j \in 1..Len(st) /\ j # d
  BY <1>1
<1> QED
  BY <1>1, <1>2, <1>3, <1>4 DEF Waiting

(* The frame of the innermost call.                                        *)
LEMMA TopIs ==
  ASSUME TreeInv, stack # <<>>
  PROVE  /\ phase = "finalizing" /\ stack \in Seq(FramesOf(Len(entry)))
         /\ Len(stack) \in Nat /\ Len(stack) > 0 /\ Len(stack) \in 1..Len(stack)
         /\ Last(stack) = stack[Len(stack)] /\ Caller = stack[Len(stack)].menu
         /\ stack[Len(stack)].menu \in 1..Len(entry) /\ stack[Len(stack)].at \in 0..Len(entry)
         /\ stack[Len(stack)].stage \in Stages
         /\ stack[Len(stack)] = [menu |-> Caller, stage |-> Last(stack).stage, at |-> Last(stack).at]
<1>1. phase = "finalizing"
  BY DEF TreeInv
<1>2. PICK u : Held(list, next, parent, Placed, stack, u, Len(entry))
  BY TreeHeld
<1>3. stack \in Seq(FramesOf(Len(entry)))
  BY <1>2 DEF Held, Calls
<1>4. Len(stack) \in Nat /\ Len(stack) > 0
  BY <1>3, EmptySeq
<1>5. Len(stack) \in 1..Len(stack)
  BY <1>4
<1>6. stack[Len(stack)] \in FramesOf(Len(entry))
  BY <1>3, <1>5, ElementOfSeq
<1> QED
  BY <1>1, <1>3, <1>4, <1>5, <1>6 DEF FramesOf, Last, Caller

LEMMA EnterSets ==
  ASSUME TreeInv, stack # <<>>, NEW f \in 1..Len(entry), Enter(f), NEW d, d = Len(stack)
  PROVE  /\ stack' \in Seq(FramesOf(Len(entry))) /\ Len(stack') = d + 1 /\ Waiting(stack, stack', d)
         /\ stack'[d].menu = stack[d].menu /\ stack'[d].stage = stack[d].stage /\ stack'[d].at = f
         /\ stack'[d + 1].menu = f /\ stack'[d + 1].at = 0
         /\ stack'[d + 1].stage = "each" => list[f] # 0
         /\ stack'[d + 1].stage = "gather" => list[f] = 0
         /\ stack' # <<>>
<1> DEFINE k == Len(entry)
           g == [menu |-> stack[d].menu, stage |-> stack[d].stage, at |-> f]
<1>1. /\ stack \in Seq(FramesOf(k)) /\ d \in Nat /\ d > 0 /\ stack[d].menu \in 1..k
      /\ stack[d].stage \in Stages /\ k \in Nat /\ d \in 1..Len(stack)
      /\ stack[d] = [menu |-> stack[d].menu, stage |-> stack[d].stage, at |-> stack[d].at]
  BY TopIs, TreeFacts
<1>2. g \in FramesOf(k)
  BY <1>1 DEF FramesOf
<1>3. [stack EXCEPT ![d].at = f] = [stack EXCEPT ![d] = g]
  <2>1. [stack[d] EXCEPT !.at = f] = g
    BY <1>1
  <2>2. [stack EXCEPT ![d].at = f] = [stack EXCEPT ![d] = [stack[d] EXCEPT !.at = f]]
    OBVIOUS
  <2> QED
    BY <2>1, <2>2
<1>4. PICK s : s = [stack EXCEPT ![d] = g]
  OBVIOUS
<1>5. s \in Seq(FramesOf(k)) /\ Len(s) = d /\ Waiting(stack, s, d) /\ s[d] = g
  <2>1. PICK st, h, c : st = stack /\ h = g /\ c = k
    OBVIOUS
  <2> HIDE DEF g, k
  <2>2. st \in Seq(FramesOf(c)) /\ d = Len(st) /\ d > 0 /\ h \in FramesOf(c)
    BY <1>1, <1>2, <2>1
  <2>3. TopSet(st, d, h, s)
    BY <1>4, <2>1 DEF TopSet
  <2>4. s \in Seq(FramesOf(c)) /\ Len(s) = d /\ Waiting(st, s, d) /\ s[d] = h
    BY ONLY <2>2, <2>3, SetTop
  <2> QED
    BY <2>1, <2>4
<1>6. Call(f) \in FramesOf(k)
  BY <1>1 DEF Call, FramesOf, Stages, Nil
<1>7. stack' = Append(s, Call(f))
  BY <1>3, <1>4 DEF Enter
<1>8. /\ Append(s, Call(f)) \in Seq(FramesOf(k)) /\ Len(Append(s, Call(f))) = d + 1
      /\ (\A i \in 1..d : Append(s, Call(f))[i] = s[i]) /\ Append(s, Call(f))[d + 1] = Call(f)
  BY <1>5, <1>6, AppendProperties
<1>9. Waiting(stack, stack', d)
  BY <1>1, <1>5, <1>7, <1>8 DEF Waiting
<1>10. stack'[d] = g /\ stack'[d + 1] = Call(f)
  BY <1>1, <1>5, <1>7, <1>8
<1>11. /\ Call(f).menu = f /\ Call(f).at = 0
       /\ Call(f).stage = "each" => list[f] # 0
       /\ Call(f).stage = "gather" => list[f] = 0
  BY DEF Call, Nil
<1>12. stack' # <<>>
  BY <1>1, <1>7, <1>8, EmptySeq
<1> QED
  BY <1>7, <1>8, <1>9, <1>10, <1>11, <1>12

LEMMA ThenSets ==
  ASSUME TreeInv, stack # <<>>, NEW stage \in Stages, Then(stage), NEW d, d = Len(stack)
  PROVE  /\ stack' \in Seq(FramesOf(Len(entry))) /\ Len(stack') = d /\ Waiting(stack, stack', d)
         /\ stack'[d].menu = stack[d].menu /\ stack'[d].stage = stage /\ stack'[d].at = 0
         /\ stack' # <<>>
<1> DEFINE k == Len(entry)
           g == [menu |-> stack[d].menu, stage |-> stage, at |-> 0]
<1>1. /\ stack \in Seq(FramesOf(k)) /\ d \in Nat /\ d > 0 /\ stack[d].menu \in 1..k /\ k \in Nat
      /\ stack[d] = [menu |-> stack[d].menu, stage |-> stack[d].stage, at |-> stack[d].at]
  BY TopIs, TreeFacts
<1>2. g \in FramesOf(k)
  BY <1>1 DEF FramesOf
<1>3. stack' = [stack EXCEPT ![d] = g]
  <2>1. [stack[d] EXCEPT !.stage = stage, !.at = Nil] = g
    <3>1. PICK m, o, a : m = stack[d].menu /\ o = stack[d].stage /\ a = stack[d].at
      OBVIOUS
    <3>2. stack[d] = [menu |-> m, stage |-> o, at |-> a]
      BY <1>1, <3>1
    <3>3. PICK r : r = [menu |-> m, stage |-> stage, at |-> a]
      OBVIOUS
    <3>4. [[menu |-> m, stage |-> o, at |-> a] EXCEPT !.stage = stage] = r
      BY <3>3
    <3>5. [r EXCEPT !.at = 0] = [menu |-> m, stage |-> stage, at |-> 0]
      BY <3>3
    <3>6. [stack[d] EXCEPT !.stage = stage, !.at = Nil] = [[stack[d] EXCEPT !.stage = stage] EXCEPT !.at = Nil]
      OBVIOUS
    <3> QED
      BY <3>1, <3>2, <3>4, <3>5, <3>6 DEF Nil
  <2>2. stack' = [stack EXCEPT ![d] = [stack[d] EXCEPT !.stage = stage, !.at = Nil]]
    BY DEF Then
  <2> QED
    BY <2>1, <2>2
<1>4. PICK s : s = [stack EXCEPT ![d] = g]
  OBVIOUS
<1>5. s \in Seq(FramesOf(k)) /\ Len(s) = d /\ Waiting(stack, s, d) /\ s[d] = g
  <2>1. PICK st, h, c : st = stack /\ h = g /\ c = k
    OBVIOUS
  <2> HIDE DEF g, k
  <2>2. st \in Seq(FramesOf(c)) /\ d = Len(st) /\ d > 0 /\ h \in FramesOf(c)
    BY <1>1, <1>2, <2>1
  <2>3. TopSet(st, d, h, s)
    BY <1>4, <2>1 DEF TopSet
  <2>4. s \in Seq(FramesOf(c)) /\ Len(s) = d /\ Waiting(st, s, d) /\ s[d] = h
    BY ONLY <2>2, <2>3, SetTop
  <2> QED
    BY <2>1, <2>4
<1>6. s # <<>>
  BY <1>1, <1>5, EmptySeq
<1> QED
  BY <1>3, <1>4, <1>5, <1>6

(* A call goes on and nothing is linked anew.                              *)
LEMMA StackOn ==
  ASSUME TreeInv, stack # <<>>, UNCHANGED <<readVars, links, phase>>, stack' # <<>>,
         NEW u, NEW P, Held(list, next, parent, P, stack', u, Len(entry))
  PROVE  TreeInv'
<1>1. list' = list /\ next' = next /\ parent' = parent /\ phase' = phase /\ UNCHANGED readVars
  BY DEF links
<1>2. phase = "finalizing" /\ TypeOK
  BY DEF TreeInv
<1>3. list' \in Links /\ next' \in Links /\ parent' \in Links
  BY <1>1, <1>2 DEF TypeOK
<1>4. \A n \in Entries \ Declared : list'[n] = Nil /\ next'[n] = Nil /\ parent'[n] = Nil
  BY <1>1 DEF TreeInv
<1>5. Held(list', next', parent', P, stack', u, Len(entry))
  BY <1>1
<1>6. phase' \in {"finalizing", "finalized"} /\ (stack' # <<>> <=> phase' = "finalizing")
  BY <1>1, <1>2
<1> QED
  BY <1>1, <1>3, <1>4, <1>5, <1>6, FinalizeOn

(* What the innermost call comes to next.                                  *)
LEMMA FollowingIs ==
  ASSUME TreeInv, NEW stage, Doing(stage), NEW d, d = Len(stack)
  PROVE  /\ stack # <<>> /\ d \in Nat /\ d > 0 /\ stack[d].stage = stage /\ Caller = stack[d].menu
         /\ Last(stack).at = stack[d].at
         /\ stack[d].at # 0 => Following = next[stack[d].at]
         /\ stack[d].at = 0 /\ stage = "gather" => Following = next[stack[d].menu]
         /\ stack[d].at = 0 /\ stage # "gather" => Following = list[stack[d].menu]
<1>1. stack # <<>> /\ Last(stack).stage = stage
  BY DEF Doing
<1>2. d \in Nat /\ d > 0 /\ Last(stack) = stack[d] /\ Caller = stack[d].menu
  BY <1>1, TopIs
<1>3. Last(stack).at # 0 => Following = next[Last(stack).at]
  BY DEF Following, Nil
<1>4. Last(stack).at = 0 /\ stage = "gather" => Following = next[Caller]
  BY <1>1 DEF Following, Nil, Doing
<1>5. Last(stack).at = 0 /\ stage # "gather" => Following = list[Caller]
  BY <1>1 DEF Following, Nil, Doing
<1> QED
  BY <1>1, <1>2, <1>3, <1>4, <1>5

LEMMA LoopFollows ==
  ASSUME NEW l, NEW x, NEW pa, NEW P, NEW st, NEW u, NEW k, Held(l, x, pa, P, st, u, k),
         NEW d, d = Len(st), d > 0, st[d].stage # "gather", NEW f, f # 0,
         st[d].at # 0 => f = x[st[d].at], st[d].at = 0 => f = l[st[d].menu]
  PROVE  f \in 1..k /\ P[f] = st[d].menu /\ st[d].menu < f /\ P[f] = pa[f]
<1>1. Calls(pa, P, st, k) /\ Loops(l, P, st) /\ Shape(l, x, P, u, k)
  BY DEF Held
<1>2. k \in Nat /\ d \in Nat /\ d \in 1..Len(st) /\ P[1] = 0
  <2>1. k \in Nat /\ Len(st) \in Nat /\ P[1] = 0
    BY <1>1, ShapeFacts, FrameAt
  <2> QED
    BY <2>1
<1>3. st[d].menu \in 1..k /\ st[d].at \in 0..k
  BY <1>1, <1>2, FrameAt
<1>4. f \in 1..k /\ P[f] = st[d].menu
  <2>1. CASE st[d].at = 0
    <3>1. l[st[d].menu] # 0 /\ f = l[st[d].menu]
      BY <2>1
    <3>2. f = st[d].menu + 1 /\ st[d].menu + 1 \in 1..k /\ P[st[d].menu + 1] = st[d].menu
      BY <1>1, <1>3, <3>1, AtEntry
    <3> QED
      BY <3>2
  <2>2. CASE st[d].at # 0
    <3>1. st[d].at \in 1..k /\ P[st[d].at] = st[d].menu
      BY <1>1, <1>2, <1>3, <2>2 DEF Loops
    <3>2. PICK a : a = st[d].at
      OBVIOUS
    <3>3. x[a] # 0 /\ f = x[a] /\ a \in 1..k
      BY <2>2, <3>1, <3>2
    <3>4. f = u[a] + 1 /\ u[a] + 1 \in 1..k /\ P[u[a] + 1] = P[a]
      BY <1>1, <3>3, AtEntry
    <3> QED
      BY <3>1, <3>2, <3>4
  <2> QED
    BY <2>1, <2>2
<1>5. st[d].menu < f
  <2>1. f \in 2..k
    BY <1>2, <1>3, <1>4
  <2> QED
    BY <1>1, <1>4, <2>1, AtBelow
<1>6. P[f] = pa[f]
  <2>1. ~Gathering(st, pa[f])
    BY <1>2, <1>4, <1>5, Beyond
  <2> QED
    BY <1>4, <2>1, AroundIs
<1> QED
  BY <1>4, <1>5, <1>6

OnTo(l, x, pa, P, u, k, p, f) == GatherOf(l, x, pa, P, u, k, p, f, FALSE)
GoesOn(x, st, d, p, a, f) ==
  /\ d = Len(st) /\ d > 0 /\ st[d].stage = "gather" /\ p = st[d].menu /\ a = st[d].at
  /\ f # 0 /\ f = IF a # 0 THEN x[a] ELSE x[p]

LEMMA GatherFollows ==
  ASSUME NEW l, NEW x, NEW pa, NEW P, NEW st, NEW u, NEW k, Held(l, x, pa, P, st, u, k),
         NEW d, NEW p, NEW a, NEW f, GoesOn(x, st, d, p, a, f)
  PROVE  f \in 1..k /\ p < f /\ P[f] = pa[f] /\ OnTo(l, x, pa, P, u, k, p, f)
<1>0. /\ d = Len(st) /\ d > 0 /\ st[d].stage = "gather" /\ p = st[d].menu /\ a = st[d].at
      /\ f # 0 /\ (a # 0 => f = x[a]) /\ (a = 0 => f = x[p])
  BY DEF GoesOn
<1>1. Calls(pa, P, st, k) /\ Gathers(l, x, pa, P, st, u, k) /\ Shape(l, x, P, u, k)
  BY DEF Held
<1>2. k \in Nat /\ d \in Nat /\ d \in 1..Len(st)
  <2>1. k \in Nat /\ Len(st) \in Nat
    BY <1>1, ShapeFacts, FrameAt
  <2> QED
    BY <1>0, <2>1
<1>3. p \in 1..k /\ a \in 0..k /\ p \in Nat /\ P[p] = pa[p]
  <2>1. p \in 1..k /\ a \in 0..k
    BY <1>0, <1>1, <1>2, FrameAt
  <2>2. P[p] = pa[p]
    BY <1>0, <1>1, <1>2 DEF Calls
  <2> QED
    BY <2>1, <2>2
<1>4. GatherOf(l, x, pa, P, u, k, p, a, TRUE)
  <2>1. GatherOf(l, x, pa, P, u, k, st[d].menu, st[d].at, d = Len(st))
    BY <1>1, <1>2, <1>0 DEF Gathers
  <2>2. (d = Len(st)) = TRUE
    BY <1>0
  <2> QED
    BY <1>0, <2>1, <2>2
<1>5. p # 1 /\ l[p] = 0 /\ Taken(x, pa, k, p, a) /\ Reached(x, pa, P, u, k, p, a, TRUE)
  BY <1>4 DEF GatherOf
<1>6. CASE a = 0
  <2>1. \A n \in 1..k : pa[n] # p
    BY <1>5, <1>6 DEF Taken
  <2>2. x[p] # 0 /\ f = x[p] /\ u[p] = p
    BY <1>0, <1>1, <1>3, <1>5, <1>6, AtEntry
  <2>3. f = p + 1 /\ f \in 1..k /\ P[f] = P[p]
    <3>1. x[p] = u[p] + 1 /\ u[p] + 1 \in 1..k /\ P[u[p] + 1] = P[p]
      BY <1>1, <1>3, <2>2, AtEntry
    <3> QED
      BY <2>2, <3>1
  <2>4. p < f
    BY <1>3, <2>3
  <2>5. P[f] = pa[f]
    <3>1. ~Gathering(st, pa[f])
      BY <2>1, <2>3, <2>4, <1>0, Beyond
    <3> QED
      BY <2>3, <3>1, AroundIs
  <2>6. Taken(x, pa, k, p, f)
    BY <2>1 DEF Taken
  <2>7. ~\E y \in 1..k : p < y /\ y < f
    BY <1>3, <2>3
  <2>8. Reached(x, pa, P, u, k, p, f, FALSE)
    BY <1>3, <2>2, <2>3, <2>4, <2>5, <2>7 DEF Reached
  <2> QED
    BY <1>5, <2>3, <2>4, <2>5, <2>6, <2>8 DEF GatherOf, OnTo
<1>7. CASE a # 0
  <2>1. a \in 1..k /\ a \in Nat /\ x[a] # 0 /\ f = x[a]
    BY <1>0, <1>2, <1>3, <1>7
  <2>2. p < a /\ P[a] = P[p] /\ pa[a] = p /\ x[p] = p + 1 /\ (a = p + 1 \/ pa[p + 1] = p)
    BY <1>5, <1>7 DEF Reached
  <2>3. \A y \in 1..k : p < y /\ y <= u[a] => p <= pa[y]
    BY <1>5, <1>7 DEF Reached
  <2>4. f = u[a] + 1 /\ f \in 1..k /\ P[f] = P[p] /\ u[a] \in Nat /\ a <= u[a]
    <3>1. x[a] = u[a] + 1 /\ u[a] + 1 \in 1..k /\ P[u[a] + 1] = P[a] /\ u[a] \in Nat /\ a <= u[a]
      BY <1>1, <2>1, AtEntry
    <3> QED
      BY <2>1, <2>2, <3>1
  <2>5. p < f /\ a < f
    BY <1>3, <2>1, <2>2, <2>4
  <2>6. P[f] = pa[f]
    <3>1. ~Gathering(st, pa[f])
      <4>1. SUFFICES ASSUME Gathering(st, pa[f]) PROVE FALSE
        OBVIOUS
      <4>2. f <= a
        BY <2>4, <2>5, <4>1, <1>0, Beyond
      <4> QED
        BY <2>1, <2>4, <2>5, <4>2
    <3> QED
      BY <2>4, <3>1, AroundIs
  <2>7. Taken(x, pa, k, p, f)
    <3> SUFFICES ASSUME NEW n \in 1..k, pa[n] = p
                 PROVE  p < n /\ n <= f /\ (n < f => x[n] # 0 /\ x[n] <= f /\ (x[n] = f \/ pa[x[n]] = p))
      BY <2>1 DEF Taken
    <3>1. p < n /\ n <= a
      BY <1>5 DEF Taken
    <3>2. n <= f
      BY <2>1, <2>4, <2>5, <3>1
    <3>3. CASE n = a
      <4>1. x[n] = f /\ f # 0 /\ f <= f
        <5>1. f \in Nat
          BY <1>2, <2>4
        <5>2. x[n] = f /\ f # 0
          BY <2>1, <3>3
        <5> QED
          BY <5>1, <5>2
      <4> QED
        BY <3>1, <3>2, <4>1
    <3>4. CASE n < a
      <4>1. x[n] # 0 /\ x[n] <= a /\ (x[n] = a \/ pa[x[n]] = p)
        BY <1>5, <3>4 DEF Taken
      <4>2. x[n] \in 0..k
        BY <1>1, AtEntry
      <4>3. x[n] <= f
        BY <1>2, <2>1, <2>4, <2>5, <4>1, <4>2
      <4>4. pa[x[n]] = p
        BY <2>2, <4>1
      <4> QED
        BY <3>1, <3>2, <4>1, <4>3, <4>4
    <3> QED
      BY <2>1, <3>1, <3>3, <3>4
  <2>8. Reached(x, pa, P, u, k, p, f, FALSE)
    <3>1. \A y \in 1..k : p < y /\ y < f => p <= pa[y]
      BY <2>3, <2>4
    <3>2. pa[f] = pa[p] /\ (f = p + 1 \/ pa[p + 1] = p)
      BY <1>3, <2>2, <2>4, <2>6
    <3> QED
      BY <2>2, <2>4, <2>5, <3>1, <3>2 DEF Reached
  <2> QED
    BY <1>5, <2>4, <2>5, <2>6, <2>7, <2>8 DEF GatherOf, OnTo
<1> QED
  BY <1>6, <1>7

LEMMA EachStep ==
  ASSUME TreeInv, Each PROVE TreeInv'
<1>1. PICK k, l, x, pa, P, st, d :
        k = Len(entry) /\ l = list /\ x = next /\ pa = parent /\ P = Placed /\ st = stack /\ d = Len(stack)
  OBVIOUS
<1>2. PICK u : Held(l, x, pa, P, st, u, k)
  BY <1>1, TreeHeld
<1>3. PICK f, st2 : f = Following /\ st2 = stack'
  OBVIOUS
<1>4. Doing("each") /\ f # 0 /\ Enter(f) /\ UNCHANGED <<readVars, links, phase>>
  BY <1>3 DEF Each, Nil
<1>5. /\ st # <<>> /\ d \in Nat /\ d > 0 /\ st[d].stage = "each"
      /\ st[d].at # 0 => f = x[st[d].at]
      /\ st[d].at = 0 => f = l[st[d].menu]
  BY <1>1, <1>3, <1>4, FollowingIs
<1>6. f \in 1..k /\ P[f] = st[d].menu /\ st[d].menu < f /\ P[f] = pa[f]
  BY <1>1, <1>2, <1>4, <1>5, LoopFollows
<1>7. /\ st2 \in Seq(FramesOf(k)) /\ Len(st2) = d + 1 /\ Waiting(st, st2, d)
      /\ st2[d].menu = st[d].menu /\ st2[d].stage = st[d].stage /\ st2[d].at = f
      /\ st2[d + 1].menu = f /\ st2[d + 1].at = 0
      /\ st2[d + 1].stage = "each" => l[f] # 0
      /\ st2[d + 1].stage = "gather" => l[f] = 0
      /\ st2 # <<>>
  <2>1. stack # <<>> /\ f \in 1..Len(entry) /\ Enter(f) /\ d = Len(stack)
    BY <1>1, <1>4, <1>5, <1>6
  <2>2. /\ stack' \in Seq(FramesOf(Len(entry))) /\ Len(stack') = d + 1 /\ Waiting(stack, stack', d)
        /\ stack'[d].menu = stack[d].menu /\ stack'[d].stage = stack[d].stage /\ stack'[d].at = f
        /\ stack'[d + 1].menu = f /\ stack'[d + 1].at = 0
        /\ stack'[d + 1].stage = "each" => list[f] # 0
        /\ stack'[d + 1].stage = "gather" => list[f] = 0
        /\ stack' # <<>>
    BY SMTT(30), <2>1, EnterSets
  <2> QED
    BY <1>1, <1>3, <2>2
<1>8. Held(l, x, pa, P, st2, u, k)
  BY <1>1, <1>2, <1>5, <1>6, <1>7, EnterHeld
<1> QED
  BY <1>1, <1>3, <1>4, <1>5, <1>7, <1>8, StackOn

LEMMA GatherStep ==
  ASSUME TreeInv, Gather PROVE TreeInv'
<1>1. PICK k, l, x, pa, P, st, d :
        k = Len(entry) /\ l = list /\ x = next /\ pa = parent /\ P = Placed /\ st = stack /\ d = Len(stack)
  OBVIOUS
<1>2. PICK u : Held(l, x, pa, P, st, u, k)
  BY <1>1, TreeHeld
<1>3. PICK f, st2 : f = Following /\ st2 = stack'
  OBVIOUS
<1>4. Doing("gather") /\ f # 0 /\ Enter(f) /\ UNCHANGED <<readVars, links, phase>>
  BY <1>3 DEF Gather, Nil
<1>5. /\ st # <<>> /\ d \in Nat /\ d > 0 /\ st[d].stage = "gather"
      /\ st[d].at # 0 => f = x[st[d].at]
      /\ st[d].at = 0 => f = x[st[d].menu]
  BY <1>1, <1>3, <1>4, FollowingIs
<1>6. f \in 1..k /\ st[d].menu < f /\ P[f] = pa[f] /\ GatherOf(l, x, pa, P, u, k, st[d].menu, f, FALSE)
  <2>1. PICK p, a : p = st[d].menu /\ a = st[d].at
    OBVIOUS
  <2>2. f \in 1..k /\ p < f /\ P[f] = pa[f] /\ OnTo(l, x, pa, P, u, k, p, f)
    <3>1. /\ Held(l, x, pa, P, st, u, k) /\ d = Len(st) /\ d > 0 /\ st[d].stage = "gather" /\ f # 0
          /\ p = st[d].menu /\ a = st[d].at /\ (a # 0 => f = x[a]) /\ (a = 0 => f = x[p])
      BY <1>1, <1>2, <1>4, <1>5, <2>1
    <3>2. GoesOn(x, st, d, p, a, f)
      BY <3>1 DEF GoesOn
    <3> QED
      BY ONLY <3>1, <3>2, GatherFollows
  <2> QED
    BY <2>1, <2>2 DEF OnTo
<1>7. /\ st2 \in Seq(FramesOf(k)) /\ Len(st2) = d + 1 /\ Waiting(st, st2, d)
      /\ st2[d].menu = st[d].menu /\ st2[d].stage = st[d].stage /\ st2[d].at = f
      /\ st2[d + 1].menu = f /\ st2[d + 1].at = 0
      /\ st2[d + 1].stage = "each" => l[f] # 0
      /\ st2[d + 1].stage = "gather" => l[f] = 0
      /\ st2 # <<>>
  <2>1. stack # <<>> /\ f \in 1..Len(entry) /\ Enter(f) /\ d = Len(stack)
    BY <1>1, <1>4, <1>5, <1>6
  <2>2. /\ stack' \in Seq(FramesOf(Len(entry))) /\ Len(stack') = d + 1 /\ Waiting(stack, stack', d)
        /\ stack'[d].menu = stack[d].menu /\ stack'[d].stage = stack[d].stage /\ stack'[d].at = f
        /\ stack'[d + 1].menu = f /\ stack'[d + 1].at = 0
        /\ stack'[d + 1].stage = "each" => list[f] # 0
        /\ stack'[d + 1].stage = "gather" => list[f] = 0
        /\ stack' # <<>>
    BY SMTT(30), <2>1, EnterSets
  <2> QED
    BY <1>1, <1>3, <2>2
<1>8. Held(l, x, pa, P, st2, u, k)
  BY <1>1, <1>2, <1>5, <1>6, <1>7, EnterHeld
<1> QED
  BY <1>1, <1>3, <1>4, <1>5, <1>7, <1>8, StackOn

LEMMA EachDoneStep ==
  ASSUME TreeInv, EachDone PROVE TreeInv'
<1>1. PICK k, l, x, pa, P, st, d :
        k = Len(entry) /\ l = list /\ x = next /\ pa = parent /\ P = Placed /\ st = stack /\ d = Len(stack)
  OBVIOUS
<1>2. PICK u : Held(l, x, pa, P, st, u, k)
  BY <1>1, TreeHeld
<1>3. PICK st2 : st2 = stack'
  OBVIOUS
<1>4. Doing("each") /\ Then("dissolve") /\ UNCHANGED <<readVars, links, phase>>
  BY DEF EachDone
<1>5. st # <<>> /\ d \in Nat /\ d > 0 /\ st[d].stage = "each"
  BY <1>1, <1>4, FollowingIs
<1>6. "dissolve" \in Stages
  BY DEF Stages
<1>7. /\ st2 \in Seq(FramesOf(k)) /\ Len(st2) = d /\ Waiting(st, st2, d)
      /\ st2[d].menu = st[d].menu /\ st2[d].stage = "dissolve" /\ st2[d].at = 0 /\ st2 # <<>>
  BY <1>1, <1>3, <1>4, <1>5, <1>6, ThenSets
<1>8. Held(l, x, pa, P, st2, u, k)
  BY <1>1, <1>2, <1>5, <1>7, LoopHeld
<1> QED
  BY <1>1, <1>3, <1>4, <1>5, <1>7, <1>8, StackOn

(* conf_parse calls menu_finalize for the root.                            *)
LEMMA FinalizeStep ==
  ASSUME TreeInv, Finalize PROVE TreeInv'
<1>1. PICK k, l, x, pa, st : k = Len(entry) /\ l = list /\ x = next /\ pa = parent /\ st = <<Call(1)>>
  OBVIOUS
<1>2. /\ phase = "reading" /\ stack' = st /\ phase' = "finalizing"
      /\ UNCHANGED readVars /\ list' = l /\ next' = x /\ parent' = pa
  BY <1>1 DEF Finalize, Root, links
<1>3. stack = <<>> /\ entry[1] = RootMenu /\ TypeOK
  BY <1>2 DEF TreeInv, Root
<1>4. k \in Nat /\ 1 \in 1..k /\ k >= 1
  BY <1>1, TreeFacts
<1>5. PICK u : Held(list, next, parent, Placed, stack, u, Len(entry))
  BY TreeHeld
<1>6. PICK P0 : P0 = Arounds(pa, <<>>, k)
  OBVIOUS
<1>7. Shape(l, x, P0, u, k) /\ \A n \in 1..k : P0[n] = pa[n]
  <2>1. Placed = P0
    BY <1>1, <1>3, <1>6 DEF Placed
  <2>2. Held(l, x, pa, P0, <<>>, u, k)
    BY <1>1, <1>3, <1>5, <2>1
  <2> QED
    BY <1>4, <1>6, <2>2, IdleHeld
<1>8. PICK c : c = Call(1)
  OBVIOUS
<1>9. /\ c.menu = 1 /\ c.at = 0 /\ c.stage \in {"each", "dissolve"} /\ c \in FramesOf(k)
      /\ (c.stage = "each" => l[1] # 0)
  <2>1. entry[1].kind = "menu"
    BY <1>3 DEF RootMenu
  <2>2. ~IsSymbol(1)
    BY <2>1 DEF IsSymbol
  <2>3. c = [menu |-> 1, at |-> 0, stage |-> IF list[1] # 0 THEN "each" ELSE "dissolve"]
    BY <1>8, <2>2 DEF Call, Nil
  <2> QED
    BY <1>1, <1>4, <2>3 DEF FramesOf, Stages
<1>10. st = <<c>> /\ Len(st) = 1 /\ st[1] = c /\ 1..1 = {1} /\ st \in Seq(FramesOf(k)) /\ st # <<>>
  <2>1. st = <<c>>
    BY <1>1, <1>8
  <2> QED
    BY <1>9, <2>1
<1>11. \A p : ~Gathering(st, p)
  BY <1>9, <1>10 DEF Gathering
<1>12. Arounds(pa, st, k) = P0
  <2>1. \A p : ~Gathering(<<>>, p)
    BY EmptyStack DEF Gathering
  <2> QED
    BY <1>6, <1>11, <2>1, AroundsKept
<1>13. Calls(pa, P0, st, k)
  <2>1. \A i \in 1..Len(st) : i = 1 /\ st[i].menu = 1 /\ ~(i < Len(st))
    BY <1>9, <1>10
  <2>2. P0[1] = pa[1]
    BY <1>4, <1>7
  <2>3. \A i, j \in 1..Len(st) : ~(i < j)
    BY <1>10
  <2> QED
    BY <1>9, <1>10, <2>1, <2>2, <2>3 DEF Calls
<1>14. Loops(l, P0, st) /\ Gathers(l, x, pa, P0, st, u, k)
  BY <1>9, <1>10 DEF Loops, Gathers
<1>15. Held(l, x, pa, P0, st, u, k)
  BY <1>7, <1>12, <1>13, <1>14 DEF Held
<1>16. list' \in Links /\ next' \in Links /\ parent' \in Links
  BY <1>1, <1>2, <1>3 DEF TypeOK
<1>17. \A n \in Entries \ Declared : list'[n] = Nil /\ next'[n] = Nil /\ parent'[n] = Nil
  BY <1>1, <1>2 DEF TreeInv
<1>18. Held(list', next', parent', P0, stack', u, Len(entry))
  BY <1>1, <1>2, <1>15
<1>19. phase' \in {"finalizing", "finalized"} /\ (stack' # <<>> <=> phase' = "finalizing")
  BY <1>2, <1>10
<1> QED
  BY <1>2, <1>16, <1>17, <1>18, <1>19, FinalizeOn

LEMMA GatherDoneStep ==
  ASSUME TreeInv, GatherDone PROVE TreeInv'
<1>1. PICK k, l, x, pa, P, st, d :
        k = Len(entry) /\ l = list /\ x = next /\ pa = parent /\ P = Placed /\ st = stack /\ d = Len(stack)
  OBVIOUS
<1>2. PICK u : Held(l, x, pa, P, st, u, k)
  BY <1>1, TreeHeld
<1>3. PICK st2, l2, x2 : st2 = stack' /\ l2 = list' /\ x2 = next'
  OBVIOUS
<1>4. /\ Doing("gather") /\ Then("dissolve") /\ UNCHANGED readVars
      /\ parent' = pa /\ phase' = phase /\ Gathered(Caller, Last(stack).at)
  BY <1>1 DEF GatherDone
<1>5. PICK p, a : p = st[d].menu /\ a = st[d].at
  OBVIOUS
<1>6. /\ stack # <<>> /\ d \in Nat /\ d > 0 /\ st[d].stage = "gather" /\ Gathered(p, a)
  BY <1>1, <1>4, <1>5, FollowingIs
<1>7. "dissolve" \in Stages
  BY DEF Stages
<1>8. /\ st2 \in Seq(FramesOf(k)) /\ Len(st2) = d /\ Waiting(st, st2, d)
      /\ st2[d].menu = st[d].menu /\ st2[d].stage = "dissolve" /\ st2[d].at = 0 /\ st2 # <<>>
  <2>1. stack # <<>> /\ Then("dissolve") /\ d = Len(stack)
    BY <1>1, <1>4, <1>6
  <2>2. /\ stack' \in Seq(FramesOf(Len(entry))) /\ Len(stack') = d /\ Waiting(stack, stack', d)
        /\ stack'[d].menu = stack[d].menu /\ stack'[d].stage = "dissolve" /\ stack'[d].at = 0
        /\ stack' # <<>>
    BY <1>7, <2>1, ThenSets
  <2> QED
    BY <1>1, <1>3, <2>2
<1>9. CASE a = 0
  <2>1. list' = list /\ next' = next
    BY <1>6, <1>9 DEF Gathered, Nil
  <2>2. Held(l, x, pa, P, st2, u, k)
    BY <1>1, <1>2, <1>5, <1>6, <1>8, <1>9, LoopHeld
  <2>3. UNCHANGED <<readVars, links, phase>>
    BY <1>1, <1>4, <2>1 DEF links
  <2> QED
    BY <1>1, <1>3, <1>6, <1>8, <2>2, <2>3, StackOn
<1>10. CASE a # 0
  <2>1. l2 = [list EXCEPT ![p] = x[p]] /\ x2 = [next EXCEPT ![p] = x[a], ![a] = 0]
    BY <1>1, <1>3, <1>6, <1>10 DEF Gathered, Nil
  <2>2. PICK slots : slots = 0..(MaxEntries + 1)
    OBVIOUS
  <2>3. /\ list \in [Entries -> slots] /\ next \in [Entries -> slots] /\ parent \in [Entries -> slots] /\ 0 \in slots
        /\ Links = [Entries -> slots] /\ Declared = 1..k /\ 1..k \subseteq Entries
    <3>1. MaxEntries \in Nat
      BY MenuAssumption
    <3>2. 0 \in 0..(MaxEntries + 1)
      BY <3>1
    <3> QED
      BY <1>1, <2>2, <3>2, TreeFacts
  <2>4. p \in 1..k /\ a \in 1..k
    <3>1. p \in 1..k /\ a \in 0..k /\ k \in Nat
      BY <1>1, <1>5, <1>6, TopIs, TreeFacts
    <3> QED
      BY <1>10, <3>1
  <2>5. p \in Entries /\ a \in Entries
    BY <2>3, <2>4
  <2>6. \A n \in Entries : /\ l2[n] = IF n = p THEN x[p] ELSE l[n]
                           /\ x2[n] = IF n = a THEN 0 ELSE IF n = p THEN x[a] ELSE x[n]
    <3> SUFFICES ASSUME NEW n \in Entries
                 PROVE  /\ l2[n] = IF n = p THEN x[p] ELSE l[n]
                        /\ x2[n] = IF n = a THEN 0 ELSE IF n = p THEN x[a] ELSE x[n]
      OBVIOUS
    <3>1. l2[n] = IF n = p THEN x[p] ELSE l[n]
      BY <1>1, <2>1, <2>3
    <3>2. x2[n] = IF n = a THEN 0 ELSE IF n = p THEN x[a] ELSE x[n]
      BY <1>1, <2>1, <2>3, <2>5
    <3> QED
      BY <3>1, <3>2
  <2>7. /\ \A n \in 1..k : l2[n] = IF n = p THEN x[p] ELSE l[n]
        /\ \A n \in 1..k : x2[n] = IF n = a THEN 0 ELSE IF n = p THEN x[a] ELSE x[n]
    BY <2>3, <2>6
  <2>8. PICK P2, u2 : P2 = Arounds(pa, st2, k) /\ u2 = [u EXCEPT ![p] = u[a]]
    OBVIOUS
  <2>9. Held(l2, x2, pa, P2, st2, u2, k)
    <3>1. Held(l2, x2, pa, Arounds(pa, st2, k), st2, [u EXCEPT ![p] = u[a]], k)
      BY <1>1, <1>2, <1>5, <1>6, <1>8, <1>10, <2>7, GatherHeld
    <3> QED
      BY <2>8, <3>1
  <2>10. list' \in Links /\ next' \in Links /\ parent' \in Links
    <3>1. x[p] \in slots /\ x[a] \in slots
      BY <1>1, <2>3, <2>5
    <3>2. l2 \in [Entries -> slots]
      BY <2>1, <2>3, <3>1
    <3>3. x2 \in [Entries -> slots]
      BY <2>1, <2>3, <3>1
    <3> QED
      BY <1>1, <1>3, <1>4, <2>3, <3>2, <3>3
  <2>11. \A n \in Entries \ Declared : list'[n] = Nil /\ next'[n] = Nil /\ parent'[n] = Nil
    <3> SUFFICES ASSUME NEW n \in Entries \ Declared PROVE l2[n] = 0 /\ x2[n] = 0 /\ pa[n] = 0
      BY <1>3, <1>4 DEF Nil
    <3>1. l[n] = 0 /\ x[n] = 0 /\ pa[n] = 0 /\ n \in Entries
      BY <1>1 DEF TreeInv, Nil
    <3>2. n # p /\ n # a
      BY <2>3, <2>4
    <3> QED
      BY <2>6, <3>1, <3>2
  <2>12. phase' \in {"finalizing", "finalized"} /\ (stack' # <<>> <=> phase' = "finalizing")
    <3>1. phase = "finalizing"
      BY <1>6 DEF TreeInv
    <3> QED
      BY <1>3, <1>4, <1>8, <3>1
  <2>13. Held(list', next', parent', P2, stack', u2, Len(entry))
    BY <1>1, <1>3, <1>4, <2>9
  <2> QED
    BY <1>4, <2>10, <2>11, <2>12, <2>13, FinalizeOn
<1> QED
  BY <1>9, <1>10

ComesTo(f) == stack' = [stack EXCEPT ![Len(stack)].at = f]
LEMMA AtSets ==
  ASSUME TreeInv, stack # <<>>, NEW f \in 1..Len(entry), NEW d, d = Len(stack),
         ComesTo(f)
  PROVE  /\ stack' \in Seq(FramesOf(Len(entry))) /\ Len(stack') = d /\ Waiting(stack, stack', d)
         /\ stack'[d].menu = stack[d].menu /\ stack'[d].stage = stack[d].stage /\ stack'[d].at = f
         /\ stack' # <<>>
<1> DEFINE k == Len(entry)
           g == [menu |-> stack[d].menu, stage |-> stack[d].stage, at |-> f]
<1>1. /\ stack \in Seq(FramesOf(k)) /\ d \in Nat /\ d > 0 /\ stack[d].menu \in 1..k
      /\ stack[d].stage \in Stages /\ k \in Nat /\ d \in 1..Len(stack)
      /\ stack[d] = [menu |-> stack[d].menu, stage |-> stack[d].stage, at |-> stack[d].at]
  BY TopIs, TreeFacts
<1>2. g \in FramesOf(k)
  BY <1>1 DEF FramesOf
<1>3. stack' = [stack EXCEPT ![d] = g]
  <2>1. [stack[d] EXCEPT !.at = f] = g
    BY <1>1
  <2>2. [stack EXCEPT ![d].at = f] = [stack EXCEPT ![d] = [stack[d] EXCEPT !.at = f]]
    OBVIOUS
  <2> QED
    BY <2>1, <2>2 DEF ComesTo
<1>4. PICK s : s = [stack EXCEPT ![d] = g]
  OBVIOUS
<1>5. s \in Seq(FramesOf(k)) /\ Len(s) = d /\ Waiting(stack, s, d) /\ s[d] = g
  <2>1. PICK st, h, c : st = stack /\ h = g /\ c = k
    OBVIOUS
  <2> HIDE DEF g, k
  <2>2. st \in Seq(FramesOf(c)) /\ d = Len(st) /\ d > 0 /\ h \in FramesOf(c)
    BY <1>1, <1>2, <2>1
  <2>3. TopSet(st, d, h, s)
    BY <1>4, <2>1 DEF TopSet
  <2>4. s \in Seq(FramesOf(c)) /\ Len(s) = d /\ Waiting(st, s, d) /\ s[d] = h
    BY ONLY <2>2, <2>3, SetTop
  <2> QED
    BY <2>1, <2>4
<1>6. s # <<>>
  BY <1>1, <1>5, EmptySeq
<1> QED
  BY <1>3, <1>4, <1>5, <1>6

(* What follows the first entry below m, and where that ends.              *)
LEMMA ChainIs ==
  ASSUME TreeInv, NEW P, NEW u, NEW k, k = Len(entry), Shape(list, next, P, u, k),
         NEW m \in 1..k, list[m] # 0
  PROVE  /\ Chain(list[m]) = {y \in 1..k : P[y] = m}
         /\ EndOf(Chain(list[m])) \in 1..k /\ P[EndOf(Chain(list[m]))] = m
         /\ next[EndOf(Chain(list[m]))] = 0
<1>1. PICK l, x, B : l = list /\ x = next /\ B = {y \in 1..k : P[y] = m}
  OBVIOUS
<1>2. Shape(l, x, P, u, k) /\ l[m] # 0 /\ Declared = 1..k
  BY <1>1, TreeFacts
<1>3. l[m] \in B /\ Closed(x, B) /\ B \subseteq 1..k
  <2>1. l[m] \in Below(P, k, m) /\ Closed(x, Below(P, k, m))
    BY <1>2, BelowIsClosed
  <2>2. B = Below(P, k, m)
    BY <1>1 DEF Below
  <2> QED
    BY <1>1, <2>1, <2>2
<1>4. \A S : (\A z \in S : next[z] # Nil => next[z] \in S) <=> Closed(x, S)
  BY <1>1 DEF Closed, Nil
<1>5. ASSUME NEW y \in Chain(list[m]) PROVE y \in B
  <2>1. B \in SUBSET Declared /\ list[m] \in B /\ \A z \in B : next[z] # Nil => next[z] \in B
    BY <1>1, <1>2, <1>3, <1>4
  <2> QED
    BY <1>5, <2>1 DEF Chain
<1>6. ASSUME NEW y \in B PROVE y \in Chain(list[m])
  <2>1. y \in 1..k /\ P[y] = m
    BY <1>1
  <2>2. ASSUME NEW S \in SUBSET Declared, list[m] \in S, \A z \in S : next[z] # Nil => next[z] \in S
        PROVE  y \in S
    <3>1. S \in SUBSET (1..k) /\ l[m] \in S /\ Closed(x, S)
      BY <1>1, <1>2, <1>4, <2>2
    <3> QED
      BY <1>2, <2>1, <3>1, BelowIsMet
  <2> QED
    BY <1>2, <2>1, <2>2 DEF Chain
<1>7. Chain(list[m]) = B
  BY <1>5, <1>6
<1>8. PICK e \in 1..k : P[e] = m /\ x[e] = 0
  BY <1>2, BelowEnds
<1>9. e \in B /\ next[e] = Nil
  BY <1>1, <1>8 DEF Nil
<1>10. EndOf(B) \in B /\ next[EndOf(B)] = Nil
  BY <1>9 DEF EndOf
<1> QED
  BY <1>1, <1>7, <1>10 DEF Nil

LEMMA DissolveStep ==
  ASSUME TreeInv, Dissolve PROVE TreeInv'
<1>1. PICK k, l, x, pa, P, st, d :
        k = Len(entry) /\ l = list /\ x = next /\ pa = parent /\ P = Placed /\ st = stack /\ d = Len(stack)
  OBVIOUS
<1>2. PICK u : Held(l, x, pa, P, st, u, k)
  BY <1>1, TreeHeld
<1>3. PICK m, st2, l2, x2, pa2 : m = Following /\ st2 = stack' /\ l2 = list' /\ x2 = next' /\ pa2 = parent'
  OBVIOUS
<1>4. Doing("dissolve") /\ m # 0 /\ ComesTo(m) /\ UNCHANGED readVars /\ phase' = phase
  BY <1>1, <1>3 DEF Dissolve, Nil, ComesTo
<1>5. /\ stack # <<>> /\ d \in Nat /\ d > 0 /\ st[d].stage = "dissolve" /\ Caller = st[d].menu
      /\ st[d].at # 0 => m = x[st[d].at]
      /\ st[d].at = 0 => m = l[st[d].menu]
  BY <1>1, <1>3, <1>4, FollowingIs
<1>6. m \in 1..k /\ P[m] = st[d].menu /\ st[d].menu < m /\ P[m] = pa[m]
  BY <1>1, <1>2, <1>4, <1>5, LoopFollows
<1>7. /\ st2 \in Seq(FramesOf(k)) /\ Len(st2) = d /\ Waiting(st, st2, d)
      /\ st2[d].menu = st[d].menu /\ st2[d].stage = st[d].stage /\ st2[d].at = m /\ st2 # <<>>
  <2>1. m \in 1..Len(entry) /\ d = Len(stack)
    BY <1>1, <1>6
  <2>2. /\ stack' \in Seq(FramesOf(Len(entry))) /\ Len(stack') = d /\ Waiting(stack, stack', d)
        /\ stack'[d].menu = stack[d].menu /\ stack'[d].stage = stack[d].stage /\ stack'[d].at = m
        /\ stack' # <<>>
    BY <1>4, <1>5, <2>1, AtSets
  <2> QED
    BY <1>1, <1>3, <2>2
<1>8. CASE UNCHANGED links
  <2>1. Held(l, x, pa, P, st2, u, k)
    BY <1>1, <1>2, <1>5, <1>6, <1>7, LoopHeld
  <2>2. UNCHANGED <<readVars, links, phase>>
    BY <1>4, <1>8
  <2> QED
    BY <1>1, <1>3, <1>5, <1>7, <2>1, <2>2, StackOn
<1>9. CASE ~(UNCHANGED links)
  <2>1. l[m] # 0
    BY <1>1, <1>3, <1>9 DEF Dissolve, Nil
  <2>2. PICK below, e, c : below = Chain(l[m]) /\ e = EndOf(below) /\ c = st[d].menu
    OBVIOUS
  <2>3. /\ l2 = [list EXCEPT ![m] = 0] /\ x2 = [next EXCEPT ![e] = x[m], ![m] = l[m]]
        /\ pa2 = [n \in Entries |-> IF n \in below THEN c ELSE parent[n]]
    BY <1>1, <1>3, <1>5, <1>9, <2>2 DEF Dissolve, Nil
  <2>4. Shape(l, x, P, u, k)
    BY <1>2 DEF Held
  <2>5. below = {y \in 1..k : P[y] = m} /\ e \in 1..k /\ P[e] = m /\ x[e] = 0
    <3>1. Shape(list, next, P, u, k) /\ list[m] # 0 /\ k = Len(entry)
      BY <1>1, <2>1, <2>4
    <3>2. /\ Chain(list[m]) = {y \in 1..k : P[y] = m}
          /\ EndOf(Chain(list[m])) \in 1..k /\ P[EndOf(Chain(list[m]))] = m
          /\ next[EndOf(Chain(list[m]))] = 0
      BY <1>6, <3>1, ChainIs
    <3> QED
      BY <1>1, <2>2, <3>2
  <2>6. PICK slots : slots = 0..(MaxEntries + 1)
    OBVIOUS
  <2>7. /\ list \in [Entries -> slots] /\ next \in [Entries -> slots] /\ parent \in [Entries -> slots] /\ 0 \in slots
        /\ Links = [Entries -> slots] /\ Declared = 1..k /\ 1..k \subseteq Entries /\ 1..k \subseteq slots
    <3>1. MaxEntries \in Nat
      BY MenuAssumption
    <3>2. 0 \in 0..(MaxEntries + 1) /\ Entries \subseteq 0..(MaxEntries + 1)
      BY <3>1 DEF Entries
    <3> QED
      BY <1>1, <2>6, <3>2, TreeFacts
  <2>8. m \in Entries /\ e \in Entries /\ c \in 1..k
    <3>1. c \in 1..k
      BY <1>1, <1>5, <2>2, TopIs
    <3> QED
      BY <1>6, <2>5, <2>7, <3>1
  <2>9. \A n \in Entries : l2[n] = IF n = m THEN 0 ELSE l[n]
    BY <1>1, <2>3, <2>7
  <2>10. \A n \in Entries : x2[n] = IF n = m THEN l[m] ELSE IF n = e THEN x[m] ELSE x[n]
    BY <1>1, <2>3, <2>7
  <2>11. \A n \in Entries : pa2[n] = IF n \in below THEN c ELSE pa[n]
    BY <1>1, <2>3
  <2>12. /\ \A n \in 1..k : l2[n] = IF n = m THEN 0 ELSE l[n]
         /\ \A n \in 1..k : x2[n] = IF n = m THEN l[m] ELSE IF n = e THEN x[m] ELSE x[n]
    BY <2>7, <2>9, <2>10
  <2>13. \A n \in 1..k : pa2[n] = IF P[n] = m THEN c ELSE pa[n]
    BY <2>5, <2>7, <2>11
  <2>14. PICK P2, u2 : P2 = Arounds(pa2, st2, k) /\ u2 = [u EXCEPT ![m] = m]
    OBVIOUS
  <2>15. Held(l2, x2, pa2, P2, st2, u2, k)
    <3>1. c = st[d].menu /\ st[d].stage = "dissolve" /\ P[m] = c
      BY <1>5, <1>6, <2>2
    <3>2. st2[d].menu = c /\ st2[d].stage = "dissolve" /\ st2[d].at = m
      BY <1>7, <3>1
    <3>3. Held(l2, x2, pa2, Arounds(pa2, st2, k), st2, [u EXCEPT ![m] = m], k)
      <4>1. /\ Held(l, x, pa, P, st, u, k) /\ d = Len(st) /\ d > 0 /\ m \in 1..k /\ l[m] # 0
            /\ e \in 1..k /\ P[e] = m /\ x[e] = 0
            /\ st2 \in Seq(FramesOf(k)) /\ Len(st2) = d /\ Waiting(st, st2, d)
        BY <1>1, <1>2, <1>5, <1>6, <1>7, <2>1, <2>5
      <4>2. Dissolved(l, x, pa, P, k, l2, x2, pa2, m, e, c)
        BY <2>12, <2>13 DEF Dissolved
      <4> QED
        BY ONLY <3>1, <3>2, <4>1, <4>2, DissolveHeld
    <3> QED
      BY <2>14, <3>3
  <2>16. list' \in Links /\ next' \in Links /\ parent' \in Links
    <3>1. l[m] \in slots /\ x[m] \in slots /\ c \in slots
      BY <1>1, <2>7, <2>8
    <3>2. l2 \in [Entries -> slots]
      BY <2>3, <2>7, <3>1
    <3>3. x2 \in [Entries -> slots]
      BY <2>3, <2>7, <3>1
    <3>4. pa2 \in [Entries -> slots]
      BY <2>3, <2>7, <3>1
    <3> QED
      BY <1>3, <2>7, <3>2, <3>3, <3>4
  <2>17. \A n \in Entries \ Declared : list'[n] = Nil /\ next'[n] = Nil /\ parent'[n] = Nil
    <3> SUFFICES ASSUME NEW n \in Entries \ Declared PROVE l2[n] = 0 /\ x2[n] = 0 /\ pa2[n] = 0
      BY <1>3 DEF Nil
    <3>1. l[n] = 0 /\ x[n] = 0 /\ pa[n] = 0 /\ n \in Entries
      BY <1>1 DEF TreeInv, Nil
    <3>2. n # m /\ n # e /\ n \notin below
      BY <1>6, <2>5, <2>7
    <3> QED
      BY <2>9, <2>10, <2>11, <3>1, <3>2
  <2>18. phase' \in {"finalizing", "finalized"} /\ (stack' # <<>> <=> phase' = "finalizing")
    <3>1. phase = "finalizing"
      BY <1>5 DEF TreeInv
    <3> QED
      BY <1>3, <1>4, <1>7, <3>1
  <2>19. Held(list', next', parent', P2, stack', u2, Len(entry))
    BY <1>1, <1>3, <2>15
  <2> QED
    BY <1>4, <2>16, <2>17, <2>18, <2>19, FinalizeOn
<1> QED
  BY <1>8, <1>9

LEMMA ReturnStep ==
  ASSUME TreeInv, Return PROVE TreeInv'
<1>1. PICK k, l, x, pa, P, st, d :
        k = Len(entry) /\ l = list /\ x = next /\ pa = parent /\ P = Placed /\ st = stack /\ d = Len(stack)
  OBVIOUS
<1>2. PICK u : Held(l, x, pa, P, st, u, k)
  BY <1>1, TreeHeld
<1>3. PICK st2, pa2, m : st2 = stack' /\ pa2 = parent' /\ m = st[d].menu
  OBVIOUS
<1>4. /\ Doing("dissolve") /\ stack' = Front(stack) /\ UNCHANGED <<readVars, list, next>>
      /\ phase' = (IF stack' = <<>> THEN "finalized" ELSE phase)
      /\ parent' = IF stack' # <<>> /\ Last(stack').stage = "gather"
                   THEN [parent EXCEPT ![Caller] = Last(stack').menu] ELSE parent
  BY DEF Return
<1>5. /\ stack # <<>> /\ d \in Nat /\ d > 0 /\ st[d].stage = "dissolve" /\ Caller = m
  BY <1>1, <1>3, <1>4, FollowingIs
<1>6. st \in Seq(FramesOf(k)) /\ m \in 1..k /\ phase = "finalizing"
  BY <1>1, <1>3, <1>5, TopIs
<1>7. /\ st2 \in Seq(FramesOf(k)) /\ Len(st2) = d - 1 /\ Waiting(st, st2, d)
      /\ d > 1 => st2 # <<>> /\ Last(st2) = st[d - 1] /\ st[d - 1].menu \in 1..k
      /\ d = 1 => st2 = <<>>
  <2>1. st2 = SubSeq(st, 1, d - 1)
    BY <1>1, <1>3, <1>4 DEF Front
  <2>2. \A i \in 1..(d - 1) : i \in 1..Len(st) /\ st[i] \in FramesOf(k)
    <3>1. \A i \in 1..(d - 1) : i \in 1..Len(st)
      BY <1>1, <1>5
    <3> QED
      BY <1>6, <3>1, ElementOfSeq
  <2>3. st2 \in Seq(FramesOf(k)) /\ Len(st2) = d - 1 /\ \A i \in 1..(d - 1) : st2[i] = st[i]
    <3>1. d - 1 \in 0..Len(st) /\ 1 \in Int /\ 1 - 1 <= d - 1
      BY <1>1, <1>5
    <3>2. \A i \in 1..(d - 1) : 1 + i - 1 = i
      OBVIOUS
    <3> QED
      BY <1>5, <1>6, <2>1, <2>2, <3>1, <3>2, SubSeqProperties
  <2>4. d > 1 => st2 # <<>> /\ Last(st2) = st[d - 1] /\ st[d - 1].menu \in 1..k
    <3> SUFFICES ASSUME d > 1 PROVE st2 # <<>> /\ Last(st2) = st[d - 1] /\ st[d - 1].menu \in 1..k
      OBVIOUS
    <3>1. d - 1 \in 1..(d - 1)
      BY <1>5
    <3>2. st2[d - 1] = st[d - 1] /\ st[d - 1] \in FramesOf(k)
      BY <2>2, <2>3, <3>1
    <3>3. st2 # <<>>
      BY <1>5, <2>3, EmptySeq
    <3> QED
      BY <2>3, <3>2, <3>3 DEF Last, FramesOf
  <2>5. d = 1 => st2 = <<>>
    BY <2>3, EmptySeq
  <2> QED
    BY <2>3, <2>4, <2>5 DEF Waiting
<1>8. PICK slots : slots = 0..(MaxEntries + 1)
  OBVIOUS
<1>9. /\ list \in [Entries -> slots] /\ next \in [Entries -> slots] /\ parent \in [Entries -> slots]
      /\ Links = [Entries -> slots] /\ Declared = 1..k /\ 1..k \subseteq Entries /\ 1..k \subseteq slots
  <2>1. MaxEntries \in Nat
    BY MenuAssumption
  <2>2. Entries \subseteq 0..(MaxEntries + 1)
    BY <2>1 DEF Entries
  <2> QED
    BY <1>1, <1>8, <2>2, TreeFacts
<1>10. d = 1 \/ d > 1
  BY <1>5
<1>11. /\ \A n \in Entries : pa2[n] = IF d > 1 /\ st[d - 1].stage = "gather" /\ n = m
                                      THEN st[d - 1].menu ELSE pa[n]
       /\ pa2 \in [Entries -> slots]
  <2>1. CASE d > 1 /\ st[d - 1].stage = "gather"
    <3>1. pa2 = [parent EXCEPT ![m] = st[d - 1].menu]
      BY <1>3, <1>4, <1>5, <1>7, <2>1
    <3>2. st[d - 1].menu \in slots /\ m \in Entries
      BY <1>6, <1>7, <1>9, <2>1
    <3> QED
      BY <1>1, <1>9, <2>1, <3>1, <3>2
  <2>2. CASE ~(d > 1 /\ st[d - 1].stage = "gather")
    <3>1. pa2 = parent
      BY <1>3, <1>4, <1>7, <1>10, <2>2
    <3> QED
      BY <1>1, <1>9, <2>2, <3>1
  <2> QED
    BY <2>1, <2>2
<1>12. Held(l, x, pa2, P, st2, u, k)
  <2>1. \A n \in 1..k : pa2[n] = IF d > 1 /\ st[d - 1].stage = "gather" /\ n = m
                                 THEN st[d - 1].menu ELSE pa[n]
    BY <1>9, <1>11
  <2> QED
    BY <1>1, <1>2, <1>3, <1>5, <1>7, <2>1, ReturnHeld
<1>13. list' \in Links /\ next' \in Links /\ parent' \in Links
  BY <1>3, <1>4, <1>9, <1>11
<1>14. \A n \in Entries \ Declared : list'[n] = Nil /\ next'[n] = Nil /\ parent'[n] = Nil
  <2> SUFFICES ASSUME NEW n \in Entries \ Declared PROVE list[n] = 0 /\ next[n] = 0 /\ pa2[n] = 0
    BY <1>3, <1>4 DEF Nil
  <2>1. list[n] = 0 /\ next[n] = 0 /\ pa[n] = 0 /\ n \in Entries
    BY <1>1 DEF TreeInv, Nil
  <2>2. n # m
    BY <1>6, <1>9
  <2> QED
    BY <1>11, <2>1, <2>2
<1>15. phase' \in {"finalizing", "finalized"} /\ (stack' # <<>> <=> phase' = "finalizing")
  BY <1>4, <1>6
<1>16. Held(list', next', parent', P, stack', u, Len(entry))
  BY <1>1, <1>3, <1>4, <1>12
<1> QED
  BY <1>4, <1>13, <1>14, <1>15, <1>16, FinalizeOn

LEMMA TreeStutters ==
  ASSUME TreeInv, UNCHANGED treeVars PROVE TreeInv'
<1>1. /\ entry' = entry /\ list' = list /\ next' = next /\ parent' = parent /\ current' = current
      /\ last' = last /\ fileOf' = fileOf /\ open' = open /\ scanned' = scanned
      /\ stack' = stack /\ phase' = phase /\ Declared' = Declared /\ Placed' = Placed
  BY DEF treeVars, readVars, links, Declared, Placed
<1>2. TypeOK' /\ IsFiniteSet(scanned') /\ entry'[Root] = RootMenu
  BY <1>1 DEF TreeInv, TypeOK
<1>3. PICK u \in [Declared -> Declared] :
        /\ Held(list, next, parent, Placed, stack, u, Len(entry))
        /\ phase = "reading" => Growing(u)
  BY DEF TreeInv
<1>4. Growing(u) => Growing(u)'
  BY <1>1 DEF Growing
<1>5. /\ u \in [Declared' -> Declared']
      /\ Held(list', next', parent', Placed', stack', u, Len(entry'))
      /\ phase' = "reading" => Growing(u)'
  BY <1>1, <1>3, <1>4
<1>6. (\A n \in Entries \ Declared : list[n] = Nil /\ next[n] = Nil /\ parent[n] = Nil)'
      /\ (stack # <<>> <=> phase = "finalizing")'
  BY <1>1 DEF TreeInv
<1> QED
  BY <1>2, <1>5, <1>6 DEF TreeInv

LEMMA TreeStep == TreeInv /\ [TreeNext]_treeVars => TreeInv'
<1> SUFFICES ASSUME TreeInv, [TreeNext]_treeVars PROVE TreeInv'
  OBVIOUS
<1>1. ASSUME NEW s \in Statements, Link(s) PROVE TreeInv'
  BY <1>1, LinkStep
<1>2. ASSUME NEW kind \in Blocks, End(kind) PROVE TreeInv'
  BY <1>2, EndStep
<1>3. ASSUME (\E f \in Files : Source(f)) \/ EndFile PROVE TreeInv'
  BY <1>3, FileSteps
<1>4. CASE Finalize
  BY <1>4, FinalizeStep
<1>5. CASE Each
  BY <1>5, EachStep
<1>6. CASE EachDone
  BY <1>6, EachDoneStep
<1>7. CASE Gather
  BY <1>7, GatherStep
<1>8. CASE GatherDone
  BY <1>8, GatherDoneStep
<1>9. CASE Dissolve
  BY <1>9, DissolveStep
<1>10. CASE Return
  BY <1>10, ReturnStep
<1>11. CASE UNCHANGED treeVars
  BY <1>11, TreeStutters
<1> QED
  BY <1>1, <1>2, <1>3, <1>4, <1>5, <1>6, <1>7, <1>8, <1>9, <1>10, <1>11 DEF TreeNext

(* Where a walk goes on from an entry without any below it.                *)
LEMMA AfterIs ==
  ASSUME NEW P, NEW u, NEW k, Declared = 1..k, Shape(list, next, P, u, k),
         \A n \in 1..k : P[n] = parent[n]
  PROVE  \A n \in 1..k : After[n] = IF u[n] = k THEN 0 ELSE u[n] + 1
<1> DEFINE F(h) == [n \in Declared |-> IF next[n] # Nil THEN next[n]
                                       ELSE IF n = Root THEN Nil ELSE h[parent[n]]]
           g == [n \in Declared |-> IF u[n] = k THEN 0 ELSE u[n] + 1]
<1>1. k \in Nat /\ u[1] = k /\ next[1] = 0
  BY ShapeFacts
<1>2. ASSUME NEW n \in 1..k, next[n] # 0 PROVE g[n] = next[n]
  <2>1. next[n] = u[n] + 1 /\ u[n] + 1 \in 1..k /\ u[n] \in Nat
    BY <1>2, AtEntry
  <2>2. u[n] # k
    BY <1>1, <2>1
  <2> QED
    BY <2>1, <2>2
<1>3. ASSUME NEW n \in 1..k, next[n] = 0, n # 1
      PROVE  g[n] = g[parent[n]] /\ parent[n] \in 1..k /\ parent[n] < n
  <2>1. n \in 2..k
    BY <1>1, <1>3
  <2>2. P[n] \in 1..k /\ P[n] < n /\ u[n] = u[P[n]]
    BY <1>3, <2>1, AtBelow
  <2> QED
    BY <2>2
<1>4. g = F(g)
  <2>1. ASSUME NEW n \in Declared PROVE g[n] = F(g)[n]
    <3>1. n \in 1..k
      BY <2>1
    <3>2. CASE next[n] # 0
      BY <1>2, <3>1, <3>2 DEF Nil
    <3>3. CASE next[n] = 0 /\ n = 1
      BY <1>1, <3>1, <3>3 DEF Nil, Root
    <3>4. CASE next[n] = 0 /\ n # 1
      <4>1. g[n] = g[parent[n]]
        BY <1>3, <3>1, <3>4
      <4>2. F(g)[n] = g[parent[n]]
        BY <2>1, <3>4 DEF Nil, Root
      <4> QED
        BY <4>1, <4>2
    <3> QED
      BY <3>2, <3>3, <3>4
  <2> QED
    BY <2>1
<1>5. After = F(After)
  <2>1. After = CHOOSE h : h = F(h)
    BY DEF After
  <2> HIDE DEF F, g
  <2> QED
    BY <1>4, <2>1
<1>6. ASSUME NEW n \in 1..k, next[n] # 0 PROVE After[n] = next[n]
  BY <1>5, <1>6 DEF Nil
<1>7. ASSUME NEW n \in 1..k, next[n] = 0, n # 1 PROVE After[n] = After[parent[n]]
  BY <1>5, <1>7 DEF Nil, Root
<1>8. After[1] = 0
  <2>1. 1 \in 1..k
    <3>1. k > 0
      BY ShapeFacts
    <3> QED
      BY <1>1, <3>1
  <2> QED
    BY <1>1, <1>5, <2>1 DEF Nil, Root
<1>9. g[1] = 0
  <2>1. k > 0
    BY ShapeFacts
  <2> QED
    BY <1>1, <2>1
<1>10. \A n \in 1..k : g[n] = IF u[n] = k THEN 0 ELSE u[n] + 1
  OBVIOUS
<1> HIDE DEF F, g
<1> DEFINE T == {n \in 1..k : After[n] # g[n]}
<1>11. T = {}
  <2> SUFFICES ASSUME T # {} PROVE FALSE
    OBVIOUS
  <2>1. PICK m \in T : \A y \in T : m <= y
    <3>1. T \in SUBSET Nat
      OBVIOUS
    <3> HIDE DEF T
    <3> QED
      BY <3>1, LeastExists
  <2>2. m \in 1..k /\ After[m] # g[m] /\ m \in Nat
    OBVIOUS
  <2>3. next[m] = 0 /\ m # 1
    BY <1>2, <1>6, <1>8, <1>9, <2>2
  <2>4. After[m] = After[parent[m]] /\ g[m] = g[parent[m]] /\ parent[m] \in 1..k /\ parent[m] < m
    BY <1>3, <1>7, <2>2, <2>3
  <2>5. parent[m] \in T
    BY <2>2, <2>4
  <2>6. m <= parent[m] /\ parent[m] \in Nat
    BY <2>1, <2>4, <2>5
  <2> QED
    BY <2>2, <2>4, <2>6
<1> QED
  BY <1>10, <1>11

LEMMA TreeInvKept == TreeInv => TreeIsKept
<1> SUFFICES ASSUME TreeInv, phase \in {"reading", "finalized"}
             PROVE  /\ \A n \in Declared \ {Root} : parent[n] \in 1..(n - 1)
                    /\ \A n \in Declared : Walk(n) = IF n = Len(entry) THEN Nil ELSE n + 1
                    /\ \A n \in Declared :
                         /\ list[n] # Nil => parent[list[n]] = n
                         /\ next[n] # Nil => parent[next[n]] = parent[n]
  BY DEF TreeIsKept
<1>1. PICK k, P : k = Len(entry) /\ P = Placed
  OBVIOUS
<1>2. stack = <<>> /\ Declared = 1..k /\ k \in Nat
  BY <1>1, TreeFacts DEF TreeInv
<1>3. PICK u : Held(list, next, parent, Placed, stack, u, Len(entry))
  BY TreeHeld
<1>4. Shape(list, next, P, u, k) /\ \A n \in 1..k : P[n] = parent[n]
  <2>1. P = Arounds(parent, <<>>, k)
    BY <1>1, <1>2 DEF Placed
  <2>2. Held(list, next, parent, P, <<>>, u, k)
    BY <1>1, <1>2, <1>3
  <2> QED
    BY <1>2, <2>1, <2>2, IdleHeld
<1>5. ASSUME NEW n \in Declared \ {Root} PROVE parent[n] \in 1..(n - 1)
  <2>1. n \in 2..k /\ n \in 1..k
    BY <1>2 DEF Root
  <2>2. P[n] \in 1..k /\ P[n] < n
    BY <1>4, <2>1, AtBelow
  <2> QED
    BY <1>2, <1>4, <2>1, <2>2
<1>6. \A n \in 1..k : After[n] = IF u[n] = k THEN 0 ELSE u[n] + 1
  BY <1>2, <1>4, AfterIs
<1>7. ASSUME NEW n \in Declared PROVE Walk(n) = IF n = Len(entry) THEN Nil ELSE n + 1
  <2>0. n \in 1..k
    BY <1>2
  <2>1. CASE list[n] = 0
    <3>1. u[n] = n
      BY <1>4, <2>0, <2>1, AtEntry
    <3> QED
      BY <1>1, <1>6, <2>0, <2>1, <3>1 DEF Walk, Nil
  <2>2. CASE list[n] # 0
    <3>1. list[n] = n + 1 /\ n + 1 \in 1..k /\ n \in Nat
      BY <1>4, <2>0, <2>2, AtEntry
    <3>2. n # k
      BY <1>2, <3>1
    <3> QED
      BY <1>1, <2>2, <3>1, <3>2 DEF Walk, Nil
  <2> QED
    BY <2>1, <2>2
<1>8. ASSUME NEW n \in Declared
      PROVE  /\ list[n] # Nil => parent[list[n]] = n
             /\ next[n] # Nil => parent[next[n]] = parent[n]
  <2>1. n \in 1..k
    BY <1>2
  <2>2. list[n] # 0 => list[n] = n + 1 /\ n + 1 \in 1..k /\ P[n + 1] = n
    BY <1>4, <2>1, AtEntry
  <2>3. next[n] # 0 => next[n] = u[n] + 1 /\ u[n] + 1 \in 1..k /\ P[u[n] + 1] = P[n]
    BY <1>4, <2>1, AtEntry
  <2> QED
    BY <1>4, <2>1, <2>2, <2>3 DEF Nil
<1> QED
  BY <1>5, <1>7, <1>8

(* The inductive invariant of the parser and of menu_finalize, for every   *)
(* set of statements and files, every bound and every choice of what an    *)
(* option gathers: declared, gathered or dissolved, the entries are a tree.*)
THEOREM TreeInvariant == TreeSpec => []TreeInv
  BY TreeStart, TreeStep, PTL DEF TreeSpec

(* What menu_add_entry, the grammar and menu_finalize keep of the types.   *)
THEOREM TreeTyped == TreeSpec => []TypeOK
<1>1. TreeInv => TypeOK
  BY DEF TreeInv
<1> QED
  BY <1>1, TreeInvariant, PTL

(* When menu_finalize has returned, a walk along list and next meets every *)
(* entry that was declared, once, below the one that is its parent:        *)
(* moving entries below an option and emptying blocks without a prompt lost*)
(* none, repeated none and made no loop.                                   *)
THEOREM TreeKept == TreeSpec => []TreeIsKept
  BY TreeInvKept, TreeInvariant, PTL
-----------------------------------------------------------------------------
(* sym_check_deps.                                                         *)

(* The symbols whose check is over.                                        *)
Finished == {s \in checked : ~Met(s)}

CheckTyped ==
  /\ Started => deps \in Graphs
  /\ queue \in Seq(Symbols) /\ path \in Seq([sym : Symbols, seen : Nat])
  /\ checked \subseteq Symbols /\ named \subseteq Symbols /\ met \in Symbols \cup {"-"}
  /\ ~Started => queue = <<>> /\ path = <<>> /\ checked = {} /\ named = {} /\ met = "-"
Onward ==
  \A i \in DOMAIN path :
    /\ path[i].sym \in checked /\ path[i].seen <= Len(deps[path[i].sym])
    /\ i < Len(path) =>
         path[i].seen > 0 /\ deps[path[i].sym][path[i].seen] = path[i + 1].sym
Apart == \A i, j \in DOMAIN path : i < j => path[i].sym # path[j].sym
Explored ==
  \A i \in DOMAIN path : \A j \in 1..path[i].seen :
    LET d == deps[path[i].sym][j]
    IN \/ d \in Constants \cup Finished
       \/ i < Len(path) /\ d = path[i + 1].sym
       \/ i = Len(path) /\ met # "-" /\ d = met
Behind == \A s \in Finished \ named : \A t \in Symbols : Edge(s, t) => t \in Finished
Acyclic ==
  \A S \in SUBSET (Finished \ named) :
    S # {} => \E s \in S : \A t \in S : ~Edge(s, t)
Returning ==
  met # "-" => Met(met) /\ path # <<>> /\ Reaches(Frame.sym, met)
Inwards == \A i, j \in DOMAIN path : i < j => Reaches(path[i].sym, path[j].sym)
OnCycles == named \subseteq Finished /\ \A s \in named : Reaches(s, s)
Queued ==
  Started => \A s \in Symbols : s \in checked \/ \E i \in DOMAIN queue : queue[i] = s

CheckInv ==
  /\ CheckTyped /\ Onward /\ Apart /\ Explored /\ Behind /\ Acyclic
  /\ Returning /\ Inwards /\ OnCycles /\ Queued

LEMMA EdgeReaches ==
  ASSUME NEW s \in Symbols, NEW t \in Symbols, Edge(s, t) PROVE Reaches(s, t)
BY DEF Reaches

LEMMA ReachesAll ==
  ASSUME NEW s \in Symbols, NEW t \in Symbols, NEW r, Reaches(s, t), Reaches(t, r)
  PROVE  Reaches(s, r)
<1>1. SUFFICES ASSUME NEW S \in SUBSET Symbols,
                      \A x \in S \cup {s}, y \in Symbols : Edge(x, y) => y \in S
               PROVE  r \in S
  BY DEF Reaches
<1>2. t \in S
  BY <1>1 DEF Reaches
<1>3. \A x \in S \cup {t}, y \in Symbols : Edge(x, y) => y \in S
  BY <1>1, <1>2
<1> QED
  BY <1>3 DEF Reaches

LEMMA ReachesKept ==
  ASSUME deps' = deps PROVE \A s, t : Reaches(s, t)' = Reaches(s, t) /\ Edge(s, t)' = Edge(s, t)
BY DEF Reaches, Edge

LEMMA PathIs ==
  ASSUME path \in Seq([sym : Symbols, seen : Nat])
  PROVE  /\ Len(path) \in Nat /\ DOMAIN path = 1..Len(path)
         /\ path # <<>> <=> Len(path) > 0
         /\ \A i \in 1..Len(path) :
              /\ path[i] \in [sym : Symbols, seen : Nat]
              /\ path[i].sym \in Symbols /\ path[i].seen \in Nat
<1> DEFINE R == [sym : Symbols, seen : Nat]
<1> HIDE DEF R
<1>1. path \in Seq(R)
  BY DEF R
<1>2. path \in [1..Len(path) -> R] /\ Len(path) \in Nat /\ DOMAIN path = 1..Len(path)
  BY <1>1, LenProperties
<1>3. path # <<>> <=> Len(path) > 0
  BY <1>1, <1>2, EmptySeq
<1>4. \A i \in 1..Len(path) : path[i] \in R
  BY <1>2
<1>5. \A r \in R : r \in [sym : Symbols, seen : Nat] /\ r.sym \in Symbols /\ r.seen \in Nat
  BY DEF R
<1> QED
  BY <1>2, <1>3, <1>4, <1>5

LEMMA StartInv ==
  ASSUME CheckInv, NEW graph \in Graphs, NEW order \in HashOrders, Start(graph, order)
  PROVE  CheckInv'
<1> USE DEF CheckInv
<1>1. queue = <<>> /\ path = <<>> /\ checked = {} /\ named = {} /\ met = "-"
  BY DEF CheckTyped, Start
<1>2. path' = <<>> /\ checked' = {} /\ named' = {} /\ met' = "-" /\ deps' = graph /\ queue' = order
  BY <1>1 DEF Start
<1>3. CheckTyped'
  <2>1. deps' # NULL
    BY <1>2, SymbolsAssumption DEF Graphs, NULL
  <2> QED
    BY <1>2, <2>1 DEF CheckTyped, HashOrders, Started
<1>4. Finished' = {}
  BY <1>2 DEF Finished
<1>5. Onward' /\ Apart' /\ Explored' /\ Inwards'
  BY <1>2 DEF Onward, Apart, Explored, Inwards
<1>6. Behind' /\ Acyclic' /\ OnCycles' /\ Returning'
  BY <1>2, <1>4 DEF Behind, Acyclic, OnCycles, Returning
<1>7. Queued'
  BY <1>2 DEF Queued, HashOrders
<1> QED
  BY <1>3, <1>5, <1>6, <1>7

LEMMA CheckStep ==
  ASSUME CheckInv, Check PROVE CheckInv'
<1> USE DEF CheckInv
<1> DEFINE s == Head(queue)
<1>1. path = <<>> /\ queue # <<>> /\ s \in Symbols /\ queue' = Tail(queue) /\ queue' \in Seq(Symbols)
  BY DEF Check, CheckTyped
<1>2. deps' = deps /\ met' = met /\ named' = named /\ Called(s, path)
  BY DEF Check
<1>3. Started /\ Started' /\ deps \in Graphs
  BY <1>1, <1>2 DEF CheckTyped, Started
<1>4. met = "-" /\ met' = "-"
  BY <1>1, <1>2 DEF Returning
<1>5. Finished = checked
  BY <1>1 DEF Finished, Met
<1>6. \A t \in Symbols : t # s /\ (\E i \in DOMAIN queue : queue[i] = t)
                           => \E i \in DOMAIN queue' : queue'[i] = t
  <2> SUFFICES ASSUME NEW t \in Symbols, t # s, NEW i \in DOMAIN queue, queue[i] = t
               PROVE  \E j \in DOMAIN queue' : queue'[j] = t
    OBVIOUS
  <2>1. queue \in Seq(Symbols) /\ i \in 1..Len(queue) /\ i # 1
    BY <1>1 DEF CheckTyped
  <2>2. i - 1 \in 1..Len(queue') /\ queue'[i - 1] = queue[i]
    BY <1>1, <2>1
  <2> QED
    BY <1>1, <2>2
<1>7. CASE s \in checked \cup Constants
  <2>1. path' = <<>> /\ checked' = checked /\ s \in checked
    BY <1>1, <1>2, <1>7, SymbolsAssumption DEF Called
  <2>2. Finished' = Finished
    BY <1>1, <2>1 DEF Finished, Met
  <2>3. CheckTyped'
    BY <1>1, <1>2, <1>3, <2>1 DEF CheckTyped
  <2>4. Onward' /\ Apart' /\ Explored' /\ Inwards' /\ Returning'
    BY <1>4, <2>1 DEF Onward, Apart, Explored, Inwards, Returning
  <2>5. Behind' /\ Acyclic' /\ OnCycles'
    BY <1>2, <2>2, ReachesKept DEF Behind, Acyclic, OnCycles
  <2>6. Queued'
    BY <1>3, <1>6, <2>1 DEF Queued
  <2> QED
    BY <2>3, <2>4, <2>5, <2>6
<1>8. CASE s \notin checked \cup Constants
  <2>1. path' = <<[sym |-> s, seen |-> 0]>> /\ checked' = checked \cup {s}
    BY <1>1, <1>2, <1>8 DEF Called
  <2>2. Finished' = Finished
    BY <1>5, <1>8, <2>1 DEF Finished, Met
  <2>3. CheckTyped'
    BY <1>1, <1>2, <1>3, <2>1 DEF CheckTyped
  <2>4. Len(deps[s]) \in Nat
    BY <1>1, <1>3 DEF Graphs
  <2>5. Onward' /\ Apart' /\ Explored' /\ Inwards' /\ Returning'
    BY <1>2, <1>4, <2>1, <2>4 DEF Onward, Apart, Explored, Inwards, Returning
  <2>6. Behind' /\ Acyclic' /\ OnCycles'
    BY <1>2, <2>2, ReachesKept DEF Behind, Acyclic, OnCycles
  <2>7. Queued'
    BY <1>3, <1>6, <2>1 DEF Queued
  <2> QED
    BY <2>3, <2>5, <2>6, <2>7
<1> QED
  BY <1>7, <1>8

LEMMA VisitStep ==
  ASSUME CheckInv, Visit PROVE CheckInv'
<1> USE DEF CheckInv
<1> DEFINE n == Len(path)
           x == path[n].sym
           k == path[n].seen + 1
           s == deps[x][k]
           calls == [path EXCEPT ![n].seen = @ + 1]
<1>1. path # <<>> /\ met = "-" /\ path[n].seen < Len(deps[x])
  BY DEF Visit, Frame
<1>2. deps' = deps /\ queue' = queue /\ named' = named
  BY DEF Visit
<1>3. Started /\ Started' /\ deps \in Graphs /\ path \in Seq([sym : Symbols, seen : Nat])
  BY <1>1, <1>2 DEF CheckTyped, Started
<1>4. /\ n \in Nat \ {0} /\ DOMAIN path = 1..n
      /\ \A i \in 1..n : path[i].sym \in Symbols /\ path[i].seen \in Nat
      /\ path[n].sym \in Symbols /\ path[n].seen \in Nat /\ path[n] \in [sym : Symbols, seen : Nat]
  <2>1. n > 0 /\ n \in Nat /\ n \in 1..n
    BY <1>1, <1>3, PathIs
  <2> QED
    BY <1>3, <2>1, PathIs
<1>5. x \in Symbols /\ deps[x] \in Seq(Symbols \cup Constants) /\ k \in 1..Len(deps[x]) /\ k \in Nat
  BY SMTT(30), <1>1, <1>3, <1>4 DEF Graphs
<1>6. s \in Symbols \cup Constants
  BY <1>5
<1>7. /\ calls \in Seq([sym : Symbols, seen : Nat]) /\ Len(calls) = n /\ DOMAIN calls = 1..n
      /\ \A i \in 1..n : /\ calls[i].sym = path[i].sym
                         /\ calls[i].seen = IF i = n THEN k ELSE path[i].seen
  <2>1. [path[n] EXCEPT !.seen = @ + 1] = [sym |-> path[n].sym, seen |-> k]
    BY <1>4
  <2>2. calls = [path EXCEPT ![n] = [sym |-> path[n].sym, seen |-> k]]
    BY <2>1
  <2>3. [sym |-> path[n].sym, seen |-> k] \in [sym : Symbols, seen : Nat]
    BY <1>4, <1>5
  <2>4. path \in Seq([sym : Symbols, seen : Nat]) /\ n \in 1..Len(path)
    BY <1>3, <1>4
  <2> HIDE DEF k
  <2>5. calls \in Seq([sym : Symbols, seen : Nat]) /\ Len(calls) = n
    BY ONLY <2>2, <2>3, <2>4, ExceptSeq DEF n
  <2>7. DOMAIN calls = 1..n
    BY <2>2, <1>4
  <2>6. \A i \in 1..n : calls[i] = IF i = n THEN [sym |-> path[n].sym, seen |-> k] ELSE path[i]
    BY <2>2, <1>4
  <2> QED
    BY <2>5, <2>6, <2>7 DEF k
<1>8. x \in checked /\ Met(x) /\ Edge(x, s)
  BY <1>4, <1>5 DEF Onward, Met, Edge
<1>9. /\ \A i \in 1..n : path[i].sym \in checked /\ path[i].seen <= Len(deps[path[i].sym])
      /\ \A i \in 1..n : i < n =>
           path[i].seen > 0 /\ deps[path[i].sym][path[i].seen] = path[i + 1].sym
      /\ \A i \in 1..n : \A j \in 1..path[i].seen :
           \/ deps[path[i].sym][j] \in Constants \cup Finished
           \/ i < n /\ deps[path[i].sym][j] = path[i + 1].sym
      /\ \A i, j \in 1..n : i < j => path[i].sym # path[j].sym
  BY <1>1, <1>4 DEF Onward, Explored, Apart
<1> HIDE DEF n, x, k, s, calls
<1>10. CASE Met(s)
  <2>1. path' = calls /\ met' = s /\ checked' = checked
    BY <1>10, <1>5, <1>6 DEF Visit, Frame, n, x, k, s, calls
  <2>2. Finished' = Finished
    BY <1>4, <1>7, <2>1 DEF Finished, Met
  <2>3. s \in Symbols /\ s # "-"
    <3>1. s \in Symbols
      BY <1>10, <1>4, <1>3 DEF Met
    <3> QED
      BY <3>1, SymbolsAssumption
  <2>4. CheckTyped'
    BY <1>2, <1>3, <1>7, <2>1, <2>3 DEF CheckTyped
  <2>5. Onward' /\ Apart'
    <3>1. \A i \in 1..n : /\ calls[i].sym \in checked /\ calls[i].seen <= Len(deps[calls[i].sym])
                          /\ i < n => /\ calls[i].seen > 0
                                      /\ deps[calls[i].sym][calls[i].seen] = calls[i + 1].sym
      <4> SUFFICES ASSUME NEW i \in 1..n
                   PROVE  /\ calls[i].sym \in checked /\ calls[i].seen <= Len(deps[calls[i].sym])
                          /\ i < n => /\ calls[i].seen > 0
                                      /\ deps[calls[i].sym][calls[i].seen] = calls[i + 1].sym
        OBVIOUS
      <4>1. CASE i = n
        BY <4>1, <1>4, <1>5, <1>7, <1>9 DEF x
      <4>2. CASE i # n
        <5>1. i < n /\ i + 1 \in 1..n
          BY <4>2, <1>4
        <5> QED
          BY <5>1, <4>2, <1>7, <1>9
      <4> QED
        BY <4>1, <4>2
    <3>2. \A i, j \in 1..n : i < j => calls[i].sym # calls[j].sym
      BY <1>7, <1>9
    <3>3. path' = calls /\ DOMAIN path' = 1..n /\ Len(path') = n /\ deps' = deps /\ checked' = checked
      BY <1>2, <1>7, <2>1
    <3>4. Onward'
      BY <3>1, <3>3 DEF Onward
    <3>5. Apart'
      BY <3>2, <3>3 DEF Apart
    <3> QED
      BY <3>4, <3>5
  <2>6. Explored'
    <3> SUFFICES ASSUME NEW i \in 1..n, NEW j \in 1..calls[i].seen
                 PROVE  LET d == deps[calls[i].sym][j]
                        IN \/ d \in Constants \cup Finished
                           \/ i < n /\ d = calls[i + 1].sym
                           \/ i = n /\ d = s
      <4>1. path' = calls /\ DOMAIN path' = 1..n /\ Len(path') = n /\ deps' = deps /\ met' = s /\ Finished' = Finished
        BY <1>2, <1>7, <2>1, <2>2
      <4>2. s # "-"
        BY <2>3
      <4> QED
        BY ONLY <4>1, <4>2, \A i \in 1..n : \A j \in 1..calls[i].seen :
                               LET d == deps[calls[i].sym][j]
                               IN \/ d \in Constants \cup Finished
                                  \/ i < n /\ d = calls[i + 1].sym
                                  \/ i = n /\ d = s DEF Explored
    <3>1. CASE i < n
      <4>1. j \in 1..path[i].seen /\ i \in DOMAIN path /\ i + 1 \in 1..n
        BY <3>1, <1>4, <1>7
      <4>2. calls[i].sym = path[i].sym /\ calls[i + 1].sym = path[i + 1].sym
        BY <4>1, <1>4, <1>7
      <4>3. \/ deps[path[i].sym][j] \in Constants \cup Finished
            \/ deps[path[i].sym][j] = path[i + 1].sym
        BY <4>1, <1>4, <1>9
      <4> QED
        BY <3>1, <4>2, <4>3
    <3>2. CASE i = n /\ j = k
      BY <3>2, <1>7, <1>4 DEF s, x
    <3>3. CASE i = n /\ j # k
      <4>1. j \in 1..path[n].seen /\ n \in DOMAIN path
        BY <3>3, <1>4, <1>7, <1>5 DEF k
      <4> QED
        BY <3>3, <4>1, <1>1, <1>4, <1>7, <1>9
    <3> QED
      BY <3>1, <3>2, <3>3, <1>4
  <2>7. Behind' /\ Acyclic' /\ OnCycles'
    BY <1>2, <2>2, ReachesKept DEF Behind, Acyclic, OnCycles
  <2>8. Inwards'
    BY <1>2, <1>4, <1>7, <2>1, ReachesKept DEF Inwards
  <2>9. Returning'
    <3>1. Len(path') = n /\ path' # <<>> /\ n \in 1..n
      BY <1>4, <1>7, <2>1
    <3>3. Frame'.sym = x
      BY <1>7, <2>1, <3>1 DEF Frame, x
    <3>4. Met(met)'
      BY <1>10, <1>4, <1>7, <2>1 DEF Met
    <3>2. Reaches(x, s)
      BY <1>5, <1>8, <2>3, EdgeReaches
    <3> QED
      BY <1>2, <2>1, <3>1, <3>2, <3>3, <3>4, ReachesKept DEF Returning
  <2>10. Queued'
    BY <1>2, <2>1, <1>3 DEF Queued
  <2> QED
    BY <2>4, <2>5, <2>6, <2>7, <2>8, <2>9, <2>10
<1>11. CASE ~Met(s) /\ s \in checked \cup Constants
  <2>1. path' = calls /\ met' = "-" /\ checked' = checked
    BY <1>11, <1>1 DEF Visit, Frame, Called, n, x, k, s, calls
  <2>2. Finished' = Finished
    BY <1>4, <1>7, <2>1 DEF Finished, Met
  <2>3. s \in Constants \cup Finished
    BY <1>11 DEF Finished
  <2>4. CheckTyped'
    BY <1>2, <1>3, <1>7, <2>1 DEF CheckTyped
  <2>5. Onward' /\ Apart'
    <3>1. \A i \in 1..n : /\ calls[i].sym \in checked /\ calls[i].seen <= Len(deps[calls[i].sym])
                          /\ i < n => /\ calls[i].seen > 0
                                      /\ deps[calls[i].sym][calls[i].seen] = calls[i + 1].sym
      <4> SUFFICES ASSUME NEW i \in 1..n
                   PROVE  /\ calls[i].sym \in checked /\ calls[i].seen <= Len(deps[calls[i].sym])
                          /\ i < n => /\ calls[i].seen > 0
                                      /\ deps[calls[i].sym][calls[i].seen] = calls[i + 1].sym
        OBVIOUS
      <4>1. CASE i = n
        BY <4>1, <1>4, <1>5, <1>7, <1>9 DEF x
      <4>2. CASE i # n
        <5>1. i < n /\ i + 1 \in 1..n
          BY <4>2, <1>4
        <5> QED
          BY <5>1, <4>2, <1>7, <1>9
      <4> QED
        BY <4>1, <4>2
    <3>2. \A i, j \in 1..n : i < j => calls[i].sym # calls[j].sym
      BY <1>7, <1>9
    <3>3. path' = calls /\ DOMAIN path' = 1..n /\ Len(path') = n /\ deps' = deps /\ checked' = checked
      BY <1>2, <1>7, <2>1
    <3>4. Onward'
      BY <3>1, <3>3 DEF Onward
    <3>5. Apart'
      BY <3>2, <3>3 DEF Apart
    <3> QED
      BY <3>4, <3>5
  <2>6. Explored'
    <3> SUFFICES ASSUME NEW i \in 1..n, NEW j \in 1..calls[i].seen
                 PROVE  LET d == deps[calls[i].sym][j]
                        IN \/ d \in Constants \cup Finished
                           \/ i < n /\ d = calls[i + 1].sym
      BY <1>2, <1>7, <2>1, <2>2, <2>3 DEF Explored
    <3>1. CASE i < n
      <4>1. j \in 1..path[i].seen /\ i \in DOMAIN path /\ i + 1 \in 1..n
        BY <3>1, <1>4, <1>7
      <4>2. calls[i].sym = path[i].sym /\ calls[i + 1].sym = path[i + 1].sym
        BY <4>1, <1>4, <1>7
      <4>3. \/ deps[path[i].sym][j] \in Constants \cup Finished
            \/ deps[path[i].sym][j] = path[i + 1].sym
        BY <4>1, <1>4, <1>9
      <4> QED
        BY <3>1, <4>2, <4>3
    <3>2. CASE i = n /\ j = k
      BY <3>2, <1>7, <1>4, <2>3 DEF s, x
    <3>3. CASE i = n /\ j # k
      <4>1. j \in 1..path[n].seen /\ n \in DOMAIN path
        BY <3>3, <1>4, <1>7, <1>5 DEF k
      <4> QED
        BY <3>3, <4>1, <1>1, <1>4, <1>7, <1>9
    <3> QED
      BY <3>1, <3>2, <3>3, <1>4
  <2>7. Behind' /\ Acyclic' /\ OnCycles' /\ Returning'
    BY <1>2, <2>1, <2>2, ReachesKept DEF Behind, Acyclic, OnCycles, Returning
  <2>8. Inwards'
    BY <1>2, <1>4, <1>7, <2>1, ReachesKept DEF Inwards
  <2>10. Queued'
    BY <1>2, <2>1, <1>3 DEF Queued
  <2> QED
    BY <2>4, <2>5, <2>6, <2>7, <2>8, <2>10
<1>12. CASE ~Met(s) /\ s \notin checked \cup Constants
  <2> DEFINE new == [sym |-> s, seen |-> 0]
  <2>1. path' = Append(calls, new) /\ met' = "-" /\ checked' = checked \cup {s}
    BY <1>12, <1>1 DEF Visit, Frame, Called, n, x, k, s, calls
  <2>2. s \in Symbols /\ new \in [sym : Symbols, seen : Nat]
    BY <1>12, <1>6
  <2>3. /\ path' \in Seq([sym : Symbols, seen : Nat]) /\ Len(path') = n + 1 /\ DOMAIN path' = 1..(n + 1)
        /\ \A i \in 1..n : path'[i] = calls[i]
        /\ path'[n + 1].sym = s /\ path'[n + 1].seen = 0
    BY <1>4, <1>7, <2>1, <2>2
  <2>4. Finished' = Finished
    <3>1. \A t : Met(t)' <=> Met(t) \/ t = s
      <4>1. \A t : Met(t) <=> \E i \in 1..n : path[i].sym = t
        BY <1>4 DEF Met
      <4>2. \A t : Met(t)' <=> \E i \in 1..(n + 1) : path'[i].sym = t
        BY <2>3 DEF Met
      <4>3. \A i \in 1..n : i \in 1..(n + 1) /\ path'[i].sym = path[i].sym
        BY <1>4, <1>7, <2>3
      <4>4. n + 1 \in 1..(n + 1) /\ path'[n + 1].sym = s /\ \A i \in 1..(n + 1) : i = n + 1 \/ i \in 1..n
        BY <1>4, <2>3
      <4> QED
        BY <4>1, <4>2, <4>3, <4>4
    <3> QED
      BY <1>12, <2>1, <3>1 DEF Finished
  <2> HIDE DEF new
  <2>5. CheckTyped'
    BY <1>2, <1>3, <2>1, <2>2, <2>3 DEF CheckTyped
  <2>6. Onward'
    <3>1. Len(deps[s]) \in Nat
      BY <1>3, <2>2 DEF Graphs
    <3> SUFFICES ASSUME NEW i \in 1..(n + 1)
                 PROVE  /\ path'[i].sym \in checked' /\ path'[i].seen <= Len(deps[path'[i].sym])
                        /\ i < n + 1 => /\ path'[i].seen > 0
                                        /\ deps[path'[i].sym][path'[i].seen] = path'[i + 1].sym
      BY <1>2, <2>3 DEF Onward
    <3>2. CASE i = n + 1
      BY <3>1, <3>2, <2>1, <2>3, <1>4
    <3>3. CASE i = n
      BY <3>3, <2>1, <2>3, <1>4, <1>5, <1>7, <1>8 DEF s, x
    <3>4. CASE i < n
      <4>1. i \in 1..n /\ i + 1 \in 1..n /\ i # n
        BY <3>4, <1>4
      <4>2. /\ path'[i].sym = path[i].sym /\ path'[i + 1].sym = path[i + 1].sym
            /\ path'[i].seen = path[i].seen
        BY <4>1, <1>4, <1>7, <2>3
      <4> QED
        BY <3>4, <4>1, <4>2, <2>1, <1>9
    <3> QED
      BY <3>2, <3>3, <3>4, <1>4
  <2>7. Apart'
    <3> SUFFICES ASSUME NEW i \in 1..(n + 1), NEW j \in 1..(n + 1), i < j
                 PROVE  path'[i].sym # path'[j].sym
      BY <2>3 DEF Apart
    <3>1. i \in 1..n /\ path'[i].sym = path[i].sym
      <4>1. i \in 1..n
        BY <1>4
      <4> QED
        BY <1>7, <2>3, <4>1
    <3>2. CASE j = n + 1
      <4>1. path[i].sym # s
        BY <1>4, <1>12, <3>1 DEF Met
      <4> QED
        BY <2>3, <3>1, <3>2, <4>1
    <3>3. CASE j # n + 1
      <4>1. j \in 1..n
        BY <1>4, <3>3
      <4>2. path'[j].sym = path[j].sym
        BY <1>7, <2>3, <4>1
      <4> QED
        BY <1>9, <3>1, <4>1, <4>2
    <3> QED
      BY <3>2, <3>3
  <2>8. Explored'
    <3> SUFFICES ASSUME NEW i \in 1..(n + 1), NEW j \in 1..path'[i].seen
                 PROVE  LET d == deps[path'[i].sym][j]
                        IN \/ d \in Constants \cup Finished
                           \/ i < n + 1 /\ d = path'[i + 1].sym
      BY <1>2, <2>1, <2>3, <2>4 DEF Explored
    <3>1. CASE i < n
      <4>1. i \in 1..n /\ i + 1 \in 1..n /\ i # n /\ j \in 1..path[i].seen
        BY <3>1, <1>4, <1>7, <2>3
      <4>2. path'[i].sym = path[i].sym /\ path'[i + 1].sym = path[i + 1].sym
        BY <4>1, <1>4, <1>7, <2>3
      <4>3. \/ deps[path[i].sym][j] \in Constants \cup Finished
            \/ deps[path[i].sym][j] = path[i + 1].sym
        BY <4>1, <1>4, <1>9
      <4>4. i < n + 1
        BY <3>1, <1>4
      <4> QED
        BY <4>2, <4>3, <4>4
    <3>2. CASE i = n /\ j = k
      BY <3>2, <1>7, <1>4, <2>3 DEF s, x
    <3>3. CASE i = n /\ j # k
      <4>1. j \in 1..path[n].seen /\ n \in DOMAIN path /\ i \in 1..n
        BY <3>3, <1>4, <1>7, <1>5, <2>3 DEF k
      <4> QED
        BY <3>3, <4>1, <1>1, <1>4, <1>7, <2>3, <1>9
    <3>4. CASE i = n + 1
      BY <3>4, <2>3
    <3> QED
      BY <3>1, <3>2, <3>3, <3>4, <1>4
  <2>9. Behind' /\ Acyclic' /\ OnCycles' /\ Returning'
    BY <1>2, <2>1, <2>4, ReachesKept DEF Behind, Acyclic, OnCycles, Returning
  <2>10. Inwards'
    <3> SUFFICES ASSUME NEW i \in 1..(n + 1), NEW j \in 1..(n + 1), i < j
                 PROVE  Reaches(path'[i].sym, path'[j].sym)
      BY <1>2, <2>3, ReachesKept DEF Inwards
    <3>1. i \in 1..n /\ path'[i].sym = path[i].sym /\ path[i].sym \in Symbols
      <4>1. i \in 1..n
        BY <1>4
      <4> QED
        BY <4>1, <1>4, <1>7, <2>3
    <3>2. CASE j # n + 1
      <4>1. j \in 1..n
        BY <3>2, <1>4
      <4> QED
        BY <3>1, <4>1, <1>4, <1>7, <2>3 DEF Inwards
    <3>3. CASE j = n + 1
      <4>1. Reaches(x, s)
        BY <1>5, <1>8, <2>2, EdgeReaches
      <4>2. CASE i = n
        BY <3>1, <3>3, <4>1, <4>2, <2>3 DEF x
      <4>3. CASE i # n
        <5>1. i < n /\ n \in 1..n
          BY <3>1, <4>3, <1>4
        <5>2. Reaches(path[i].sym, x)
          BY <3>1, <5>1, <1>4 DEF Inwards, x
        <5> QED
          BY <3>1, <3>3, <4>1, <5>2, <1>5, <2>3, ReachesAll
      <4> QED
        BY <4>2, <4>3
    <3> QED
      BY <3>2, <3>3
  <2>11. Queued'
    BY <1>2, <2>1, <1>3 DEF Queued
  <2> QED
    BY <2>5, <2>6, <2>7, <2>8, <2>9, <2>10, <2>11
<1> QED
  BY <1>10, <1>11, <1>12

(* What remains when one symbol more is finished, without being named: its *)
(* dependencies were finished before it, so it closes no cycle.            *)
LEMMA LeaveStep ==
  ASSUME CheckInv, Leave PROVE CheckInv'
<1> USE DEF CheckInv
<1> DEFINE n == Len(path)
           x == path[n].sym
<1>1. path # <<>> /\ (met # "-" \/ path[n].seen = Len(deps[x]))
  BY DEF Leave, Frame
<1>2. /\ deps' = deps /\ queue' = queue /\ checked' = checked
      /\ named' = (IF met = "-" THEN named ELSE named \cup {x})
      /\ met' = (IF met = x THEN "-" ELSE met) /\ path' = SubSeq(path, 1, n - 1)
  BY DEF Leave, Frame
<1>3. Started /\ Started' /\ deps \in Graphs /\ path \in Seq([sym : Symbols, seen : Nat])
  BY <1>1, <1>2 DEF CheckTyped, Started
<1>4. /\ n \in Nat \ {0} /\ DOMAIN path = 1..n /\ n \in 1..n /\ n - 1 \in Nat
      /\ \A i \in 1..n : path[i].sym \in Symbols /\ path[i].seen \in Nat
      /\ x \in Symbols /\ path[n].seen \in Nat
  <2>1. n > 0 /\ n \in Nat /\ n \in 1..n
    BY <1>1, <1>3, PathIs
  <2> QED
    BY <1>3, <2>1, PathIs
<1>5. /\ path' \in Seq([sym : Symbols, seen : Nat]) /\ Len(path') = n - 1
      /\ DOMAIN path' = 1..(n - 1) /\ \A i \in 1..(n - 1) : path'[i] = path[i]
  <2> HIDE DEF n
  <2>1. \A i \in 1..(n - 1) : path[i] \in [sym : Symbols, seen : Nat]
    BY <1>3, <1>4, PathIs DEF n
  <2> QED
    BY <1>2, <1>3, <1>4, <2>1
<1>6. deps[x] \in Seq(Symbols \cup Constants) /\ DOMAIN deps[x] = 1..Len(deps[x]) /\ Len(deps[x]) \in Nat
  BY <1>3, <1>4 DEF Graphs
<1>7. /\ \A i \in 1..n : path[i].sym \in checked /\ path[i].seen <= Len(deps[path[i].sym])
      /\ \A i \in 1..n : i < n =>
           path[i].seen > 0 /\ deps[path[i].sym][path[i].seen] = path[i + 1].sym
      /\ \A i \in 1..n : \A j \in 1..path[i].seen :
           \/ deps[path[i].sym][j] \in Constants \cup Finished
           \/ i < n /\ deps[path[i].sym][j] = path[i + 1].sym
           \/ i = n /\ met # "-" /\ deps[path[i].sym][j] = met
      /\ \A i, j \in 1..n : i < j => path[i].sym # path[j].sym
      /\ \A i, j \in 1..n : i < j => Reaches(path[i].sym, path[j].sym)
  BY <1>4 DEF Onward, Explored, Apart, Inwards
<1>8. x # "-" /\ x \notin Constants /\ "-" \notin Symbols
  BY <1>4, SymbolsAssumption
<1>9. \A t : Met(t)' <=> Met(t) /\ t # x
  <2> SUFFICES ASSUME NEW t PROVE Met(t)' <=> Met(t) /\ t # x
    OBVIOUS
  <2>1. Met(t)' <=> \E i \in 1..(n - 1) : path[i].sym = t
    BY <1>5 DEF Met
  <2>2. Met(t) <=> \E i \in 1..n : path[i].sym = t
    BY <1>4 DEF Met
  <2> HIDE DEF n, x
  <2>3. \A i \in 1..n : i # n => i \in 1..(n - 1) /\ i < n
    BY <1>4
  <2>4. \A i \in 1..(n - 1) : i \in 1..n /\ i < n
    BY <1>4
  <2>5. \A i \in 1..(n - 1) : path[i].sym # x
    BY <1>4, <1>7, <2>4 DEF x
  <2> QED
    BY <2>1, <2>2, <2>3, <2>4, <2>5 DEF x
<1>10. Met(x) /\ x \in checked
  BY <1>4, <1>7 DEF Met
<1> HIDE DEF n, x
<1>11. Finished' = Finished \cup {x} /\ x \notin Finished
  BY <1>2, <1>9, <1>10 DEF Finished
<1>12. CheckTyped'
  BY <1>2, <1>3, <1>4, <1>5 DEF CheckTyped
<1>13. \A i \in 1..(n - 1) : i \in 1..n /\ i < n /\ i + 1 \in 1..n /\ (i < n - 1 => i + 1 \in 1..(n - 1))
  BY <1>4
<1>14. Onward' /\ Apart'
  <2>1. \A i \in 1..(n - 1) :
          /\ path'[i] = path[i] /\ path[i].sym \in checked /\ path[i].seen <= Len(deps[path[i].sym])
          /\ i < n - 1 => /\ path[i].seen > 0 /\ path'[i + 1] = path[i + 1]
                          /\ deps[path[i].sym][path[i].seen] = path[i + 1].sym
    BY <1>5, <1>7, <1>13
  <2>2. Onward'
    BY <1>2, <1>5, <2>1 DEF Onward
  <2>3. \A i, j \in 1..(n - 1) : i < j => path'[i].sym # path'[j].sym
    <3>1. \A i \in 1..(n - 1) : path'[i] = path[i] /\ i \in 1..n
      BY <1>5, <1>13
    <3>2. \A i, j \in 1..n : i < j => path[i].sym # path[j].sym
      BY <1>7
    <3> QED
      BY ONLY <3>1, <3>2
  <2> QED
    BY <1>5, <2>2, <2>3 DEF Apart
<1>15. Explored'
  <2> SUFFICES ASSUME NEW i \in 1..(n - 1), NEW j \in 1..path[i].seen
               PROVE  \/ deps[path[i].sym][j] \in Constants \cup Finished \cup {x}
                      \/ i < n - 1 /\ deps[path[i].sym][j] = path[i + 1].sym
    <3>1. \A i \in 1..(n - 1) : /\ path'[i] = path[i]
                                /\ i < n - 1 => path'[i + 1] = path[i + 1]
      BY <1>5, <1>13
    <3> QED
      BY SMTT(30), <1>2, <1>5, <1>11, <3>1 DEF Explored
  <2>1. \/ deps[path[i].sym][j] \in Constants \cup Finished
        \/ deps[path[i].sym][j] = path[i + 1].sym
    BY <1>7, <1>13
  <2>2. CASE i = n - 1
    BY <1>4, <2>1, <2>2 DEF x
  <2>3. CASE i # n - 1
    BY <1>4, <2>1, <2>3
  <2> QED
    BY <2>2, <2>3
<1>16. Inwards'
  BY <1>2, <1>5, <1>7, <1>13, ReachesKept DEF Inwards
<1>17. Queued'
  BY <1>2, <1>3 DEF Queued
<1>18. CASE met = "-"
  <2>1. named' = named /\ met' = "-" /\ path[n].seen = Len(deps[x])
    BY <1>1, <1>2, <1>8, <1>18
  <2>2. \A t \in Symbols : Edge(x, t) => t \in Finished
    <3> SUFFICES ASSUME NEW t \in Symbols, NEW j \in 1..Len(deps[x]), deps[x][j] = t
                 PROVE  t \in Finished
      BY <1>6 DEF Edge
    <3>1. path[n].sym = x /\ ~(n < n)
      BY <1>4 DEF x
    <3> QED
      BY <1>4, <1>7, <1>18, <2>1, <3>1, SymbolsAssumption
  <2>3. x \notin named
    BY <1>11 DEF OnCycles
  <2>4. Behind'
    BY <1>2, <1>11, <2>1, <2>2, ReachesKept DEF Behind
  <2>5. Acyclic'
    <3> SUFFICES ASSUME NEW S \in SUBSET ((Finished \cup {x}) \ named), S # {}
                 PROVE  \E s \in S : \A t \in S : ~Edge(s, t)
      BY <1>2, <1>11, <2>1, ReachesKept DEF Acyclic
    <3>1. Finished \subseteq Symbols
      BY DEF Finished, CheckTyped
    <3>2. CASE S \ {x} = {}
      <4>1. S = {x} /\ ~Edge(x, x)
        BY <1>4, <1>11, <2>2, <3>2
      <4> QED
        BY <4>1
    <3>3. CASE S \ {x} # {}
      <4>1. PICK s \in S \ {x} : \A t \in S \ {x} : ~Edge(s, t)
        BY <3>3 DEF Acyclic
      <4>2. ~Edge(s, x)
        BY <1>4, <1>11, <4>1 DEF Behind
      <4> QED
        BY <4>1, <4>2
    <3> QED
      BY <3>2, <3>3
  <2>6. Returning'
    BY <2>1 DEF Returning
  <2>7. OnCycles'
    BY <1>2, <1>11, <2>1, ReachesKept DEF OnCycles
  <2> QED
    BY <1>12, <1>14, <1>15, <1>16, <1>17, <2>4, <2>5, <2>6, <2>7
<1>19. CASE met # "-"
  <2>1. named' = named \cup {x} /\ met \in Symbols
    BY <1>2, <1>19 DEF CheckTyped
  <2>2. Finished' \ named' = Finished \ named
    BY <1>11, <2>1
  <2>3. Reaches(x, met) /\ Met(met)
    BY <1>19 DEF Returning, Frame, x, n
  <2>4. Behind' /\ Acyclic'
    BY <1>2, <1>11, <2>2, ReachesKept DEF Behind, Acyclic
  <2>5. Reaches(x, x)
    <3>1. CASE met = x
      BY <2>3, <3>1
    <3>2. CASE met # x
      <4>1. PICK i \in 1..n : path[i].sym = met
        BY <1>4, <2>3 DEF Met
      <4>2. i < n
        BY <1>4, <3>2, <4>1 DEF x
      <4>3. Reaches(met, x)
        BY <1>4, <1>7, <4>1, <4>2 DEF x
      <4> QED
        BY <1>4, <2>1, <2>3, <4>3, ReachesAll
    <3> QED
      BY <3>1, <3>2
  <2>6. OnCycles'
    BY <1>2, <1>11, <2>1, <2>5, ReachesKept DEF OnCycles
  <2>7. Returning'
    <3>1. CASE met = x
      BY <1>2, <3>1 DEF Returning
    <3>2. CASE met # x
      <4>1. met' = met /\ Met(met)'
        BY <1>2, <1>9, <2>3, <3>2
      <4>2. PICK i \in 1..n : path[i].sym = met
        BY <1>4, <2>3 DEF Met
      <4>3. i < n
        BY <1>4, <3>2, <4>2 DEF x
      <4>4. n - 1 \in 1..(n - 1) /\ path' # <<>>
        BY <1>4, <1>5, <4>3
      <4>5. PICK y \in Symbols : y = path[n - 1].sym
        BY <1>4, <1>13, <4>4
      <4>6. Frame'.sym = y
        BY <1>5, <4>4, <4>5 DEF Frame
      <4>7. Edge(y, x)
        <5>1. /\ path[n - 1].seen > 0 /\ deps[y][path[n - 1].seen] = x
              /\ path[n - 1].seen \in Nat /\ path[n - 1].seen <= Len(deps[y])
          BY <1>4, <1>7, <1>13, <4>4, <4>5 DEF x
        <5>2. DOMAIN deps[y] = 1..Len(deps[y]) /\ Len(deps[y]) \in Nat
          BY <1>3, <4>5 DEF Graphs
        <5> QED
          BY <5>1, <5>2 DEF Edge
      <4>8. Reaches(y, met)
        BY <1>4, <2>1, <2>3, <4>7, EdgeReaches, ReachesAll
      <4>9. PICK m : m = met
        OBVIOUS
      <4>10. Reaches(y, m)'
        BY <1>2, <4>8, <4>9, ReachesKept
      <4> QED
        BY <4>1, <4>4, <4>6, <4>9, <4>10 DEF Returning
    <3> QED
      BY <3>1, <3>2
  <2> QED
    BY <1>12, <1>14, <1>15, <1>16, <1>17, <2>4, <2>6, <2>7
<1> QED
  BY <1>18, <1>19

(* What stays as it is when nothing changes.                               *)
LEMMA CheckStutter ==
  ASSUME CheckInv, UNCHANGED checkVars PROVE CheckInv'
<1>1. /\ deps' = deps /\ queue' = queue /\ path' = path /\ checked' = checked /\ met' = met
      /\ named' = named
  BY DEF checkVars
<1>2. Finished' = Finished /\ \A t : Met(t)' = Met(t)
  BY <1>1 DEF Finished, Met
<1>3. CheckTyped' /\ Onward' /\ Apart' /\ Queued'
  BY <1>1 DEF CheckInv, CheckTyped, Started, Onward, Apart, Queued
<1>4. Explored'
  BY <1>1, <1>2 DEF CheckInv, Explored
<1>5. Behind' /\ Acyclic' /\ Inwards' /\ OnCycles'
  BY <1>1, <1>2, ReachesKept DEF CheckInv, Behind, Acyclic, Inwards, OnCycles
<1>6. Returning'
  BY <1>1 DEF CheckInv, Returning, Frame, Met, Reaches, Edge
<1> QED
  BY <1>3, <1>4, <1>5, <1>6 DEF CheckInv

(* Once every symbol has been checked: no cycle is made only of symbols    *)
(* that no warning names, and each that one names is on a cycle; whatever  *)
(* the symbols depend on, and in whatever order they are checked.          *)
THEOREM CyclesNamed == CheckSpec => []CyclesAreNamed
<1>1. CheckInit => CheckInv
  BY DEF CheckInit, CheckInv, CheckTyped, Started, Onward, Apart, Explored, Finished, Met, Behind,
    Acyclic, Returning, Inwards, OnCycles, Queued
<1>2. CheckInv /\ [CheckNext]_checkVars => CheckInv'
  BY StartInv, CheckStep, VisitStep, LeaveStep, CheckStutter DEF CheckNext
<1>3. CheckInv => CyclesAreNamed
  <2> SUFFICES ASSUME CheckInv, CheckDone PROVE CyclesAreNamed
    BY DEF CyclesAreNamed
  <2>1. \A s \in Symbols : s \in checked
    BY DEF CheckInv, Queued, CheckDone
  <2>2. Finished = Symbols
    BY <2>1 DEF Finished, Met, CheckDone, CheckInv, CheckTyped
  <2> QED
    BY <2>2 DEF CyclesAreNamed, CheckInv, Acyclic, OnCycles
<1> QED
  BY <1>1, <1>2, <1>3, PTL DEF CheckSpec
-----------------------------------------------------------------------------
(* Two tests of one symbol: expr_join_or, expr_join_and, expr_transform.   *)

(* What expr_join_or and expr_join_and are given: tests and their negations.*)
Names == Symbols \cup Constants
TestForms == {<<"sym", a>> : a \in Names} \cup {<<t, a, b>> : t \in {"eq", "ne"}, a \in Names, b \in Names}
Operands == TestForms \cup {<<"not", e>> : e \in TestForms}
OperandValue(e, v) == IF e[1] = "not" THEN 2 - TestValue(e[2], v) ELSE TestValue(e, v)

LEMMA NameValues ==
  ASSUME NEW v \in Valuations
  PROVE  /\ Value("y", v) = 2 /\ Value("m", v) = 1 /\ Value("n", v) = 0
         /\ \A a \in Symbols : Value(a, v) \in {0, 1, 2} /\ a \notin Constants
         /\ \A a \in Bools : Value(a, v) \in {0, 2} /\ a \in Symbols
         /\ \A a \in Tristates : a \in Symbols /\ a \notin Bools
<1>1. v \in [Symbols -> {0, 1, 2}] /\ \A b \in Bools : v[b] # 1
  BY DEF Valuations, Tri, No, Mod, Yes
<1>2. Symbols \cap {"y", "m", "n"} = {} /\ Bools \cap Tristates = {}
  BY SymbolsAssumption DEF Constants
<1>3. Value("y", v) = 2 /\ Value("m", v) = 1 /\ Value("n", v) = 0
  BY DEF Value, No, Mod, Yes
<1>4. ASSUME NEW a \in Symbols PROVE Value(a, v) = v[a] /\ a \notin Constants
  <2>1. a # "y" /\ a # "m" /\ a # "n"
    BY <1>2
  <2> QED
    BY <2>1 DEF Value, Constants
<1>5. \A a \in Bools : a \in Symbols
  BY DEF Symbols
<1>6. \A a \in Tristates : a \in Symbols /\ a \notin Bools
  BY <1>2 DEF Symbols
<1>7. \A a \in Symbols : v[a] \in {0, 1, 2}
  BY <1>1
<1>8. \A a \in Bools : v[a] \in {0, 2}
  BY <1>1, <1>5, <1>7
<1> QED
  BY <1>3, <1>4, <1>5, <1>6, <1>7, <1>8

LEMMA FormValues ==
  ASSUME NEW v, NEW a
  PROVE  /\ OperandValue(<<"sym", a>>, v) = Value(a, v)
         /\ OperandValue(<<"not", <<"sym", a>> >>, v) = 2 - Value(a, v)
         /\ \A c : OperandValue(<<"eq", a, c>>, v) = IF Value(a, v) = Value(c, v) THEN 2 ELSE 0
         /\ \A c : OperandValue(<<"ne", a, c>>, v) = IF Value(a, v) = Value(c, v) THEN 0 ELSE 2
<1>1. OperandValue(<<"sym", a>>, v) = Value(a, v)
  BY DEF OperandValue, TestValue
<1>2. OperandValue(<<"not", <<"sym", a>> >>, v) = 2 - Value(a, v)
  <2>1. TestValue(<<"sym", a>>, v) = Value(a, v)
    BY DEF TestValue
  <2> QED
    BY <2>1 DEF OperandValue
<1>3. ASSUME NEW c PROVE OperandValue(<<"eq", a, c>>, v) = IF Value(a, v) = Value(c, v) THEN 2 ELSE 0
  <2>1. <<"eq", a, c>>[1] = "eq" /\ <<"eq", a, c>>[2] = a /\ <<"eq", a, c>>[3] = c
    OBVIOUS
  <2>2. PICK e : e = <<"eq", a, c>>
    OBVIOUS
  <2>3. OperandValue(e, v) = IF Value(a, v) = Value(c, v) THEN 2 ELSE 0
    BY <2>1, <2>2 DEF OperandValue, TestValue, Yes, No
  <2> QED
    BY <2>2, <2>3
<1>4. ASSUME NEW c PROVE OperandValue(<<"ne", a, c>>, v) = IF Value(a, v) = Value(c, v) THEN 0 ELSE 2
  <2>1. <<"ne", a, c>>[1] = "ne" /\ <<"ne", a, c>>[2] = a /\ <<"ne", a, c>>[3] = c
    OBVIOUS
  <2>2. PICK e : e = <<"ne", a, c>>
    OBVIOUS
  <2>3. OperandValue(e, v) = IF Value(a, v) = Value(c, v) THEN 0 ELSE 2
    BY <2>1, <2>2 DEF OperandValue, TestValue, Yes, No
  <2> QED
    BY <2>2, <2>3
<1> QED
  BY <1>1, <1>2, <1>3, <1>4

LEMMA TwoOf ==
  ASSUME NEW e, NEW f, NEW g, NEW h, {e, f} = {g, h}
  PROVE  (e = g /\ f = h) \/ (e = h /\ f = g)
OBVIOUS

LEMMA JoinedIs ==
  ASSUME NEW l \in {0, 1, 2}, NEW r \in {0, 1, 2}
  PROVE  /\ Joined("or", l, r) = (IF l < r THEN r ELSE l)
         /\ Joined("and", l, r) = (IF l < r THEN l ELSE r)
BY DEF Joined



(* When two tests are joined by "or".                                      *)
LEMMA EitherIs ==
  ASSUME NEW a, NEW both, EitherOf(a, both) # NULL
  PROVE  \/ a \in Tristates /\ Are(both, Is(a, "y"), Is(a, "m")) /\ EitherOf(a, both) = IsNot(a, "n")
         \/ a \in Tristates /\ Are(both, Is(a, "y"), Is(a, "n")) /\ EitherOf(a, both) = IsNot(a, "m")
         \/ a \in Tristates /\ Are(both, Is(a, "m"), Is(a, "n")) /\ EitherOf(a, both) = IsNot(a, "y")
         \/ a \in Bools /\ Are(both, On(a), <<"not", On(a)>>) /\ EitherOf(a, both) = Y
BY DEF EitherOf
LEMMA AllIs ==
  ASSUME NEW a, NEW both, AllOf(a, both) # NULL
  PROVE  \/ Are(both, On(a), Is(a, "y")) /\ AllOf(a, both) = Is(a, "y")
         \/ Are(both, On(a), IsNot(a, "n")) /\ AllOf(a, both) = On(a)
         \/ Are(both, On(a), IsNot(a, "m")) /\ AllOf(a, both) = Is(a, "y")
         \/ a \in Tristates /\ Are(both, IsNot(a, "y"), IsNot(a, "n")) /\ AllOf(a, both) = Is(a, "m")
         \/ a \in Tristates /\ Are(both, IsNot(a, "y"), IsNot(a, "m")) /\ AllOf(a, both) = Is(a, "n")
         \/ a \in Tristates /\ Are(both, IsNot(a, "m"), IsNot(a, "n")) /\ AllOf(a, both) = Is(a, "y")
BY DEF AllOf

LEMMA ValueOf ==
  ASSUME NEW v \in Valuations, NEW a \in Symbols
  PROVE  /\ OperandValue(On(a), v) = Value(a, v)
         /\ OperandValue(<<"not", On(a)>>, v) = 2 - Value(a, v)
         /\ \A c \in Constants :
              /\ OperandValue(Is(a, c), v) = IF Value(a, v) = Value(c, v) THEN 2 ELSE 0
              /\ OperandValue(IsNot(a, c), v) = IF Value(a, v) = Value(c, v) THEN 0 ELSE 2
         /\ OperandValue(Y, v) = 2 /\ OperandValue(N, v) = 0
         /\ "y" \in Constants /\ "m" \in Constants /\ "n" \in Constants
<1>1. OperandValue(On(a), v) = Value(a, v) /\ OperandValue(<<"not", On(a)>>, v) = 2 - Value(a, v)
  BY FormValues DEF On
<1>2. OperandValue(Y, v) = 2 /\ OperandValue(N, v) = 0
  <2>1. OperandValue(<<"sym", "y">>, v) = Value("y", v) /\ OperandValue(<<"sym", "n">>, v) = Value("n", v)
    BY FormValues
  <2>2. Value("y", v) = 2 /\ Value("n", v) = 0
    BY NameValues
  <2> QED
    BY <2>1, <2>2 DEF Y, N
<1>3. \A c \in Constants :
              /\ OperandValue(Is(a, c), v) = IF Value(a, v) = Value(c, v) THEN 2 ELSE 0
              /\ OperandValue(IsNot(a, c), v) = IF Value(a, v) = Value(c, v) THEN 0 ELSE 2
  BY FormValues DEF Is, IsNot
<1> QED
  BY <1>1, <1>2, <1>3 DEF Constants

LEMMA TestsOf ==
  ASSUME NEW v \in Valuations, NEW a \in Symbols, NEW w, w = Value(a, v)
  PROVE  /\ OperandValue(On(a), v) = w /\ OperandValue(<<"not", On(a)>>, v) = 2 - w
         /\ OperandValue(Is(a, "y"), v) = (IF w = 2 THEN 2 ELSE 0)
         /\ OperandValue(Is(a, "m"), v) = (IF w = 1 THEN 2 ELSE 0)
         /\ OperandValue(Is(a, "n"), v) = (IF w = 0 THEN 2 ELSE 0)
         /\ OperandValue(IsNot(a, "y"), v) = (IF w = 2 THEN 0 ELSE 2)
         /\ OperandValue(IsNot(a, "m"), v) = (IF w = 1 THEN 0 ELSE 2)
         /\ OperandValue(IsNot(a, "n"), v) = (IF w = 0 THEN 0 ELSE 2)
         /\ OperandValue(Y, v) = 2 /\ OperandValue(N, v) = 0
<1>1. Value("y", v) = 2 /\ Value("m", v) = 1 /\ Value("n", v) = 0
  BY NameValues
<1>2. /\ OperandValue(On(a), v) = w /\ OperandValue(<<"not", On(a)>>, v) = 2 - w
      /\ OperandValue(Y, v) = 2 /\ OperandValue(N, v) = 0
  BY ValueOf
<1>3. ASSUME NEW c \in Constants, NEW k, k = Value(c, v)
      PROVE  /\ OperandValue(Is(a, c), v) = (IF w = k THEN 2 ELSE 0)
             /\ OperandValue(IsNot(a, c), v) = (IF w = k THEN 0 ELSE 2)
  BY <1>3, ValueOf
<1>4. "y" \in Constants /\ "m" \in Constants /\ "n" \in Constants
  BY DEF Constants
<1> QED
  BY <1>1, <1>2, <1>3, <1>4

LEMMA OfPair ==
  ASSUME NEW e, NEW f, NEW g, NEW h, Are({e, f}, g, h)
  PROVE  (e = g /\ f = h) \/ (e = h /\ f = g)
BY TwoOf DEF Are

(* The value of the greater, of the less, of two tests does not depend on  *)
(* their order.                                                            *)
LEMMA OrOfPair ==
  ASSUME NEW e, NEW f, NEW g, NEW h, NEW v, NEW x, Are({e, f}, g, h),
         OperandValue(g, v) \in 0..2, OperandValue(h, v) \in 0..2,
         x = IF OperandValue(g, v) < OperandValue(h, v) THEN OperandValue(h, v) ELSE OperandValue(g, v)
  PROVE  x = Joined("or", OperandValue(e, v), OperandValue(f, v))
<1>1. PICK l, r : l = OperandValue(g, v) /\ r = OperandValue(h, v)
  OBVIOUS
<1>2. l \in {0, 1, 2} /\ r \in {0, 1, 2}
  BY <1>1
<1>3. Joined("or", l, r) = x /\ Joined("or", r, l) = x
  BY <1>1, <1>2, JoinedIs
<1> QED
  BY <1>1, <1>3, OfPair
LEMMA AndOfPair ==
  ASSUME NEW e, NEW f, NEW g, NEW h, NEW v, NEW x, Are({e, f}, g, h),
         OperandValue(g, v) \in 0..2, OperandValue(h, v) \in 0..2,
         x = IF OperandValue(g, v) < OperandValue(h, v) THEN OperandValue(g, v) ELSE OperandValue(h, v)
  PROVE  x = Joined("and", OperandValue(e, v), OperandValue(f, v))
<1>1. PICK l, r : l = OperandValue(g, v) /\ r = OperandValue(h, v)
  OBVIOUS
<1>2. l \in {0, 1, 2} /\ r \in {0, 1, 2}
  BY <1>1
<1>3. Joined("and", l, r) = x /\ Joined("and", r, l) = x
  BY <1>1, <1>2, JoinedIs
<1> QED
  BY <1>1, <1>3, OfPair

LEMMA OrIsExact ==
  ASSUME NEW e, NEW f, NEW v \in Valuations, JoinOr(e, f) # NULL
  PROVE  OperandValue(JoinOr(e, f), v) = Joined("or", OperandValue(e, v), OperandValue(f, v))
<1>1. PICK a : a = SymOf(e)
  OBVIOUS
<1>2. Joinable(e, f) /\ JoinOr(e, f) = EitherOf(a, {e, f})
  BY <1>1 DEF JoinOr
<1>3. a \in Symbols
  BY <1>1, <1>2 DEF Joinable
<1>4. PICK x : x = JoinOr(e, f)
  OBVIOUS
<1>5. Value(a, v) \in {0, 1, 2} /\ (a \in Bools => Value(a, v) \in {0, 2})
      /\ Value("y", v) = 2 /\ Value("m", v) = 1 /\ Value("n", v) = 0
  BY <1>3, NameValues
<1>6. PICK w : w = Value(a, v)
  OBVIOUS
<1>7. /\ OperandValue(On(a), v) = w /\ OperandValue(<<"not", On(a)>>, v) = 2 - w
      /\ OperandValue(Is(a, "y"), v) = (IF w = 2 THEN 2 ELSE 0)
      /\ OperandValue(Is(a, "m"), v) = (IF w = 1 THEN 2 ELSE 0)
      /\ OperandValue(Is(a, "n"), v) = (IF w = 0 THEN 2 ELSE 0)
      /\ OperandValue(IsNot(a, "y"), v) = (IF w = 2 THEN 0 ELSE 2)
      /\ OperandValue(IsNot(a, "m"), v) = (IF w = 1 THEN 0 ELSE 2)
      /\ OperandValue(IsNot(a, "n"), v) = (IF w = 0 THEN 0 ELSE 2)
      /\ OperandValue(Y, v) = 2
  BY <1>3, <1>6, TestsOf
<1>8. w \in {0, 1, 2}
  BY <1>5, <1>6
<1>9. CASE Are({e, f}, Is(a, "y"), Is(a, "m")) /\ x = IsNot(a, "n")
  BY <1>4, <1>7, <1>8, <1>9, OrOfPair
<1>10. CASE Are({e, f}, Is(a, "y"), Is(a, "n")) /\ x = IsNot(a, "m")
  BY <1>4, <1>7, <1>8, <1>10, OrOfPair
<1>11. CASE Are({e, f}, Is(a, "m"), Is(a, "n")) /\ x = IsNot(a, "y")
  BY <1>4, <1>7, <1>8, <1>11, OrOfPair
<1>12. CASE a \in Bools /\ Are({e, f}, On(a), <<"not", On(a)>>) /\ x = Y
  <2>1. w \in {0, 2}
    BY <1>5, <1>6, <1>12
  <2> QED
    BY <1>4, <1>7, <2>1, <1>12, OrOfPair
<1> QED
  BY <1>2, <1>4, <1>9, <1>10, <1>11, <1>12, EitherIs

(* One test for equality and one against it, in either order.              *)
LEMMA VersusIs ==
  ASSUME NEW e \in Operands, NEW f \in Operands, Joinable(e, f), Versus(e, f)
  PROVE  \E c, d \in Constants :
           \/ e = Is(SymOf(e), c) /\ f = IsNot(SymOf(e), d)
           \/ e = IsNot(SymOf(e), d) /\ f = Is(SymOf(e), c)
<1>1. ASSUME NEW x \in Operands, x[1] \in {"eq", "ne"}
      PROVE  x = <<x[1], x[2], x[3]>> /\ SymOf(x) = x[2]
  <2>1. x \notin {<<"not", y>> : y \in TestForms} /\ x \notin {<<"sym", y>> : y \in Names}
    BY <1>1
  <2>2. PICK t \in {"eq", "ne"}, y \in Names, z \in Names : x = <<t, y, z>>
    <3>1. x \in TestForms
      BY <2>1 DEF Operands
    <3>2. PICK t \in {"eq", "ne"}, y \in Names, z \in Names : x = <<t, y, z>>
      BY <2>1, <3>1 DEF TestForms
    <3> QED
      BY <3>2
  <2>3. x = <<x[1], x[2], x[3]>>
    BY <2>2
  <2>4. ~Of("not", x)
    BY <1>1 DEF Of
  <2> QED
    BY <2>3, <2>4 DEF SymOf
<1>2. {e[1], f[1]} = {"eq", "ne"} /\ e[3] \in Constants /\ f[3] \in Constants
  BY DEF Versus
<1>3. (e[1] = "eq" /\ f[1] = "ne") \/ (e[1] = "ne" /\ f[1] = "eq")
  BY <1>2, TwoOf
<1>4. SymOf(e) = SymOf(f)
  BY DEF Joinable
<1>5. e = <<e[1], SymOf(e), e[3]>> /\ f = <<f[1], SymOf(e), f[3]>>
  BY <1>1, <1>3, <1>4
<1>6. CASE e[1] = "eq" /\ f[1] = "ne"
  BY <1>2, <1>5, <1>6 DEF Is, IsNot
<1>7. CASE e[1] = "ne" /\ f[1] = "eq"
  BY <1>2, <1>5, <1>7 DEF Is, IsNot
<1> QED
  BY <1>3, <1>6, <1>7

LEMMA AndIsExact ==
  ASSUME NEW e \in Operands, NEW f \in Operands, NEW v \in Valuations, JoinAnd(e, f) # NULL
  PROVE  OperandValue(JoinAnd(e, f), v) = Joined("and", OperandValue(e, v), OperandValue(f, v))
<1>1. PICK a : a = SymOf(e)
  OBVIOUS
<1>2. Joinable(e, f)
  BY DEF JoinAnd
<1>3. a \in Symbols
  BY <1>1, <1>2 DEF Joinable
<1>4. PICK x : x = JoinAnd(e, f)
  OBVIOUS
<1>5. Value(a, v) \in {0, 1, 2}
      /\ Value("y", v) = 2 /\ Value("m", v) = 1 /\ Value("n", v) = 0
  BY <1>3, NameValues
<1>6. PICK w : w = Value(a, v)
  OBVIOUS
<1>7. /\ OperandValue(On(a), v) = w
      /\ OperandValue(Is(a, "y"), v) = (IF w = 2 THEN 2 ELSE 0)
      /\ OperandValue(Is(a, "m"), v) = (IF w = 1 THEN 2 ELSE 0)
      /\ OperandValue(Is(a, "n"), v) = (IF w = 0 THEN 2 ELSE 0)
      /\ OperandValue(IsNot(a, "y"), v) = (IF w = 2 THEN 0 ELSE 2)
      /\ OperandValue(IsNot(a, "m"), v) = (IF w = 1 THEN 0 ELSE 2)
      /\ OperandValue(IsNot(a, "n"), v) = (IF w = 0 THEN 0 ELSE 2)
      /\ OperandValue(N, v) = 0
  BY <1>3, <1>6, TestsOf
<1>8. w \in {0, 1, 2}
  BY <1>5, <1>6
<1>9. CASE Versus(e, f) /\ a \in Tristates
  <2>1. PICK c \in Constants, d \in Constants :
          \/ e = Is(a, c) /\ f = IsNot(a, d)
          \/ e = IsNot(a, d) /\ f = Is(a, c)
    BY <1>1, <1>2, <1>9, VersusIs
  <2>2. /\ Is(a, c)[1] = "eq" /\ Is(a, c)[3] = c
        /\ IsNot(a, d)[1] = "ne" /\ IsNot(a, d)[3] = d
    BY DEF Is, IsNot
  <2>3. x = IF c = d THEN N ELSE Is(a, c)
    BY <1>1, <1>2, <1>4, <1>9, <2>1, <2>2 DEF JoinAnd
  <2>4. Are({e, f}, Is(a, c), IsNot(a, d))
    BY <2>1 DEF Are
  <2>5. PICK p, q : p = OperandValue(Is(a, c), v) /\ q = OperandValue(IsNot(a, d), v)
    OBVIOUS
  <2>6. c # d => Value(c, v) # Value(d, v)
    BY <1>5 DEF Constants
  <2>7. p = (IF w = Value(c, v) THEN 2 ELSE 0) /\ q = (IF w = Value(d, v) THEN 0 ELSE 2)
    BY <1>3, <1>6, <2>5, ValueOf
  <2>8. OperandValue(x, v) = IF p < q THEN p ELSE q
    <3>1. CASE c = d
      BY <1>7, <2>3, <2>7, <3>1
    <3>2. CASE c # d
      <4>1. PICK i, k : i = Value(c, v) /\ k = Value(d, v)
        OBVIOUS
      <4>2. i # k /\ p = (IF w = i THEN 2 ELSE 0) /\ q = (IF w = k THEN 0 ELSE 2)
        BY <2>6, <2>7, <3>2, <4>1
      <4>3. p = IF p < q THEN p ELSE q
        BY ONLY <4>2
      <4> QED
        BY <2>3, <2>5, <3>2, <4>3
    <3> QED
      BY <3>1, <3>2
  <2>9. p \in 0..2 /\ q \in 0..2
    BY <2>7
  <2> QED
    BY <1>4, <2>4, <2>5, <2>8, <2>9, AndOfPair
<1>10. CASE ~(Versus(e, f) /\ a \in Tristates)
  <2>1. x = AllOf(a, {e, f})
    BY <1>1, <1>2, <1>4, <1>10 DEF JoinAnd
  <2>2. CASE Are({e, f}, On(a), Is(a, "y")) /\ x = Is(a, "y")
    BY <1>4, <1>7, <1>8, <2>2, AndOfPair
  <2>3. CASE Are({e, f}, On(a), IsNot(a, "n")) /\ x = On(a)
    BY <1>4, <1>7, <1>8, <2>3, AndOfPair
  <2>4. CASE Are({e, f}, On(a), IsNot(a, "m")) /\ x = Is(a, "y")
    BY <1>4, <1>7, <1>8, <2>4, AndOfPair
  <2>5. CASE Are({e, f}, IsNot(a, "y"), IsNot(a, "n")) /\ x = Is(a, "m")
    BY <1>4, <1>7, <1>8, <2>5, AndOfPair
  <2>6. CASE Are({e, f}, IsNot(a, "y"), IsNot(a, "m")) /\ x = Is(a, "n")
    BY <1>4, <1>7, <1>8, <2>6, AndOfPair
  <2>7. CASE Are({e, f}, IsNot(a, "m"), IsNot(a, "n")) /\ x = Is(a, "y")
    BY <1>4, <1>7, <1>8, <2>7, AndOfPair
  <2> QED
    BY <1>4, <2>1, <2>2, <2>3, <2>4, <2>5, <2>6, <2>7, AllIs
<1> QED
  BY <1>9, <1>10

LEMMA ComparedIsExact ==
  ASSUME NEW e \in TestForms, e[1] # "sym", NEW v \in Valuations
  PROVE  OperandValue(Compared(e), v) = OperandValue(e, v)
<1>1. PICK t \in {"eq", "ne"}, a \in Names, c \in Names : e = <<t, a, c>>
  <2>1. e \notin {<<"sym", y>> : y \in Names}
    OBVIOUS
  <2> QED
    BY <2>1 DEF TestForms
<1>2. e[1] = t /\ e[2] = a /\ e[3] = c
  BY <1>1
<1>3. CASE a \notin Bools \/ c \notin Constants
  BY <1>2, <1>3 DEF Compared
<1>4. CASE a \in Bools /\ c \in Constants
  <2>1. a \in Symbols /\ Value(a, v) \in {0, 2}
        /\ Value("y", v) = 2 /\ Value("m", v) = 1 /\ Value("n", v) = 0
    BY <1>4, NameValues
  <2>2. PICK w : w = Value(a, v)
    OBVIOUS
  <2>3. c \in {"y", "m", "n"}
    BY <1>4 DEF Constants
  <2>4. PICK x : x = Compared(e)
    OBVIOUS
  <2>5. x = IF c = "m" THEN IF t = "eq" THEN N ELSE Y
            ELSE IF (t = "eq") = (c = "y") THEN On(a) ELSE <<"not", On(a)>>
    BY <1>2, <1>4, <2>4 DEF Compared, On
  <2>6. /\ OperandValue(On(a), v) = w /\ OperandValue(<<"not", On(a)>>, v) = 2 - w
        /\ OperandValue(N, v) = 0 /\ OperandValue(Y, v) = 2
    BY <2>1, <2>2, ValueOf
  <2>7. /\ OperandValue(Is(a, c), v) = (IF w = Value(c, v) THEN 2 ELSE 0)
        /\ OperandValue(IsNot(a, c), v) = (IF w = Value(c, v) THEN 0 ELSE 2)
    BY <1>4, <2>1, <2>2, ValueOf
  <2>8. w \in {0, 2}
    BY <2>1, <2>2
  <2>9. CASE t = "eq"
    <3>1. e = Is(a, c)
      BY <1>1, <2>9 DEF Is
    <3>2. CASE c = "y"
      BY <2>1, <2>4, <2>5, <2>6, <2>7, <2>8, <2>9, <3>1, <3>2
    <3>3. CASE c = "m"
      BY <2>1, <2>4, <2>5, <2>6, <2>7, <2>8, <2>9, <3>1, <3>3
    <3>4. CASE c = "n"
      BY <2>1, <2>4, <2>5, <2>6, <2>7, <2>8, <2>9, <3>1, <3>4
    <3> QED
      BY <2>3, <3>2, <3>3, <3>4
  <2>10. CASE t = "ne"
    <3>1. e = IsNot(a, c)
      BY <1>1, <2>10 DEF IsNot
    <3>2. CASE c = "y"
      BY <2>1, <2>4, <2>5, <2>6, <2>7, <2>8, <2>10, <3>1, <3>2
    <3>3. CASE c = "m"
      BY <2>1, <2>4, <2>5, <2>6, <2>7, <2>8, <2>10, <3>1, <3>3
    <3>4. CASE c = "n"
      BY <2>1, <2>4, <2>5, <2>6, <2>7, <2>8, <2>10, <3>1, <3>4
    <3> QED
      BY <2>3, <3>2, <3>3, <3>4
  <2> QED
    BY <2>9, <2>10
<1> QED
  BY <1>3, <1>4

(* What expr_join_or and expr_join_and put in the place of two tests has   *)
(* their value, and what expr_transform makes of a bool compared with a    *)
(* constant has that of the comparison, whatever the symbols are set to.   *)
THEOREM JoinsAreExact ==
  ASSUME NEW v \in Valuations
  PROVE  /\ \A e, f \in Operands :
              /\ JoinOr(e, f) # NULL =>
                   OperandValue(JoinOr(e, f), v) =
                     Joined("or", OperandValue(e, v), OperandValue(f, v))
              /\ JoinAnd(e, f) # NULL =>
                   OperandValue(JoinAnd(e, f), v) =
                     Joined("and", OperandValue(e, v), OperandValue(f, v))
         /\ \A e \in TestForms : e[1] # "sym" =>
              OperandValue(Compared(e), v) = OperandValue(e, v)
BY OrIsExact, AndIsExact, ComparedIsExact
=============================================================================
