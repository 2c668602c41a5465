---------------------------- MODULE ListProofs ------------------------------
(***************************************************************************)
(* What a list holds after its nodes are linked and unlinked.  Keep is a   *)
(* loop over the list, so its facts need induction over the natural        *)
(* numbers, stated here for sets.                                          *)
(***************************************************************************)
EXTENDS Lists, NaturalsInduction, WellFoundedInduction, TLAPS

\* Leaves go to Zenon unless they name another prover.
USE ZenonT(60)

(* A set of natural numbers that is not empty has a least element. *)
LEMMA LeastNumber ==
    ASSUME NEW T, T \subseteq Nat, T # {}
    PROVE  \E m \in T : \A n \in T : m <= n
<1>1. \E x \in T : \A y \in T : ~(<<y, x>> \in OpToRel(<, Nat))
  BY NatLessThanWellFounded, WFMin
<1>2. PICK x \in T : \A y \in T : ~(<<y, x>> \in OpToRel(<, Nat))
  BY <1>1
<1>3. OpToRel(<, Nat) = {ss \in Nat \X Nat : ss[1] < ss[2]}
  BY DEF OpToRel
<1>4. ASSUME NEW y \in T PROVE x <= y
  <2>1. <<y, x>> \notin {ss \in Nat \X Nat : ss[1] < ss[2]}
    BY <1>2, <1>3
  <2> QED
    BY SMTT(60), <2>1
<1> QED
  BY <1>4

(* A set that holds 0 and, with a number, its successor holds them all. *)
LEMMA SetInduction ==
    ASSUME NEW S, 0 \in S, \A n \in Nat : n \in S => n + 1 \in S
    PROVE  Nat \subseteq S
<1> SUFFICES ASSUME Nat \ S # {} PROVE FALSE
  OBVIOUS
<1>1. PICK m \in Nat \ S : \A n \in Nat \ S : m <= n
  BY LeastNumber
<1>2. m # 0 /\ m - 1 \in Nat /\ m - 1 \in S
  BY SMTT(60), <1>1
<1> QED
  BY SMTT(60), <1>2

-----------------------------------------------------------------------------
(* f is the function kept of Keep(s, S), up to m. *)
KeptUpTo(f, s, S, n) ==
    IF n = 0 THEN <<>>
    ELSE IF s[n] \in S THEN Append(f[n - 1], s[n]) ELSE f[n - 1]

(* f is the function that Keep defines by recursion. *)
IsKept(f, s, S, m) == f = [n \in 0 .. m |-> KeptUpTo(f, s, S, n)]

(* The recursion of Keep has a solution. *)
LEMMA KeptExists ==
    ASSUME NEW s, NEW S
    PROVE  \A m \in Nat : \E f : IsKept(f, s, S, m)
<1> DEFINE P == {m \in Nat : \E f : IsKept(f, s, S, m)}
<1>1. 0 \in P
  <2>1. IsKept([n \in 0 .. 0 |-> <<>>], s, S, 0)
    BY SMTT(60) DEF IsKept, KeptUpTo
  <2> QED
    BY <2>1
<1>2. ASSUME NEW m \in Nat, m \in P PROVE m + 1 \in P
  <2>1. PICK f : IsKept(f, s, S, m)
    BY <1>2
  <2> DEFINE g == [n \in 0 .. m + 1 |-> KeptUpTo(f, s, S, n)]
  <2>2. \A n \in 0 .. m : g[n] = f[n]
    BY SMTT(60), <2>1 DEF IsKept
  <2>3. ASSUME NEW n \in 0 .. m + 1 PROVE KeptUpTo(g, s, S, n) = KeptUpTo(f, s, S, n)
    <3> HIDE DEF g
    <3>1. n # 0 => n - 1 \in 0 .. m
      BY SMTT(60)
    <3>2. n # 0 => g[n - 1] = f[n - 1]
      BY <2>2, <3>1
    <3> QED
      BY <3>2 DEF KeptUpTo
  <2>4. IsKept(g, s, S, m + 1)
    BY <2>3 DEF IsKept
  <2> QED
    BY SMTT(60), <2>4
<1> HIDE DEF P
<1>3. Nat \subseteq P
  BY <1>1, <1>2, SetInduction
<1> QED
  BY <1>3 DEF P

(* Keep is the last value of its recursive function. *)
LEMMA KeepUnfolds ==
    ASSUME NEW s, NEW S, Len(s) \in Nat
    PROVE  \E f : IsKept(f, s, S, Len(s)) /\ Keep(s, S) = f[Len(s)]
<1> DEFINE g == CHOOSE f : IsKept(f, s, S, Len(s))
<1>1. IsKept(g, s, S, Len(s))
  BY KeptExists
<1>2. Keep(s, S) = g[Len(s)]
  BY DEF Keep, IsKept, KeptUpTo
<1> QED
  BY <1>1, <1>2

(* Linking a node at the tail of a list. *)
LEMMA AppendFacts ==
  ASSUME NEW T, NEW g \in Seq(T), NEW e \in T
  PROVE  /\ Append(g, e) \in Seq(T)
         /\ Members(Append(g, e)) = Members(g) \cup {e}
         /\ Once(g) /\ e \notin Members(g) => Once(Append(g, e))
<1> DEFINE h == Append(g, e)
<1>1. /\ h \in Seq(T) /\ Len(h) = Len(g) + 1 /\ Len(g) \in Nat
      /\ DOMAIN g = 1 .. Len(g) /\ DOMAIN h = 1 .. Len(g) + 1
      /\ \A i \in 1 .. Len(g) : h[i] = g[i]
      /\ h[Len(g) + 1] = e
  BY SMTT(60)
<1> HIDE DEF h
<1>2. Members(h) = Members(g) \cup {e}
  <2>1. ASSUME NEW x \in Members(h) PROVE x \in Members(g) \cup {e}
    BY SMTT(60), <1>1, <2>1 DEF Members
  <2>2. ASSUME NEW x \in Members(g) \cup {e} PROVE x \in Members(h)
    BY SMTT(60), <1>1, <2>2 DEF Members
  <2> QED BY <2>1, <2>2
<1>3. ASSUME Once(g), e \notin Members(g) PROVE Once(h)
  BY SMTT(60), <1>1, <1>3 DEF Once, Members
<1> QED
  BY <1>1, <1>2, <1>3 DEF h

(* Keep as a loop over the list. *)
LEMMA KeptSteps ==
    ASSUME NEW T, NEW s \in Seq(T), NEW S
    PROVE  \E f : /\ Keep(s, S) = f[Len(s)] /\ f[0] = <<>>
                  /\ \A n \in 1 .. Len(s) :
                        f[n] = IF s[n] \in S THEN Append(f[n - 1], s[n]) ELSE f[n - 1]
<1>1. Len(s) \in Nat
  BY SMTT(60)
<1>2. PICK f : IsKept(f, s, S, Len(s)) /\ Keep(s, S) = f[Len(s)]
  BY <1>1, KeepUnfolds
<1>3. f[0] = <<>>
  BY SMTT(60), <1>1, <1>2 DEF IsKept, KeptUpTo
<1>4. ASSUME NEW n \in 1 .. Len(s)
      PROVE  f[n] = IF s[n] \in S THEN Append(f[n - 1], s[n]) ELSE f[n - 1]
  <2>1. n \in 0 .. Len(s) /\ n # 0
    BY SMTT(60), <1>1
  <2> QED
    BY <1>2, <2>1 DEF IsKept, KeptUpTo
<1> WITNESS f
<1> QED
  BY <1>2, <1>3, <1>4

(* What is left on a list is what was on it and is to be kept, and what   *)
(* was listed once still is.                                               *)
LEMMA KeepFacts ==
  ASSUME NEW T, NEW s \in Seq(T), NEW S
  PROVE  /\ Keep(s, S) \in Seq(T)
         /\ Members(Keep(s, S)) = Members(s) \cap S
         /\ Once(s) => Once(Keep(s, S))
<1>1. Len(s) \in Nat /\ DOMAIN s = 1 .. Len(s)
  BY SMTT(60)
<1>2. PICK f : /\ Keep(s, S) = f[Len(s)] /\ f[0] = <<>>
               /\ \A n \in 1 .. Len(s) :
                     f[n] = IF s[n] \in S THEN Append(f[n - 1], s[n]) ELSE f[n - 1]
  BY SMTT(60), KeptSteps
<1>3. f[0] = <<>>
  BY <1>2
<1>4. \A n \in 1 .. Len(s) : f[n] = IF s[n] \in S THEN Append(f[n - 1], s[n]) ELSE f[n - 1]
  BY <1>2
<1> DEFINE First(n) == {s[i] : i \in 1 .. n}
           Good(n) == /\ f[n] \in Seq(T)
                      /\ Members(f[n]) = First(n) \cap S
                      /\ Once(s) => Once(f[n])
           P == {n \in Nat : n <= Len(s) => Good(n)}
<1>5. 0 \in P
  <2>1. First(0) = {}
    BY SMTT(60)
  <2>2. <<>> \in Seq(T) /\ Members(<<>>) = {} /\ Once(<<>>)
    BY SMTT(60) DEF Members, Once
  <2> QED
    BY <1>3, <2>1, <2>2
<1>6. ASSUME NEW n \in Nat, n \in P PROVE n + 1 \in P
  <2> SUFFICES ASSUME n + 1 <= Len(s) PROVE Good(n + 1)
    BY SMTT(60)
  <2>1. Good(n) /\ n + 1 \in 1 .. Len(s) /\ (n + 1) - 1 = n
    BY SMTT(60), <1>1, <1>6
  <2>2. First(n + 1) = First(n) \cup {s[n + 1]}
    BY SMTT(60), <1>1
  <2>3. s[n + 1] \in T
    BY SMTT(60), <2>1, <1>1
  <2>4. Once(s) => s[n + 1] \notin First(n)
    BY SMTT(60), <2>1, <1>1 DEF Once
  <2> HIDE DEF First
  <2>5. CASE s[n + 1] \in S
    <3>1. f[n + 1] = Append(f[n], s[n + 1])
      BY <1>4, <2>1, <2>5
    <3>3. /\ f[n + 1] \in Seq(T)
          /\ Members(f[n + 1]) = Members(f[n]) \cup {s[n + 1]}
          /\ Once(f[n]) /\ s[n + 1] \notin Members(f[n]) => Once(f[n + 1])
      BY SMTT(60), <2>1, <2>3, <3>1, AppendFacts
    <3> QED
      BY <2>1, <2>2, <2>4, <2>5, <3>3
  <2>6. CASE s[n + 1] \notin S
    <3>1. f[n + 1] = f[n]
      BY <1>4, <2>1, <2>6
    <3> QED
      BY <2>1, <2>2, <2>6, <3>1
  <2> QED
    BY <2>5, <2>6
<1> HIDE DEF P
<1>7. Nat \subseteq P
  BY <1>5, <1>6, SetInduction
<1>8. Good(Len(s))
  <2>1. Len(s) \in P
    BY <1>1, <1>7
  <2> HIDE DEF Good
  <2> QED
    BY SMTT(60), <1>1, <2>1 DEF P
<1>9. First(Len(s)) = Members(s)
  BY <1>1 DEF Members
<1> QED
  BY <1>2, <1>8, <1>9

(* A list of which every node is kept stays as it is. *)
LEMMA KeepAll ==
    ASSUME NEW T, NEW s \in Seq(T), NEW S, Members(s) \subseteq S
    PROVE  Keep(s, S) = s
<1>1. Len(s) \in Nat /\ DOMAIN s = 1 .. Len(s) /\ \A i \in 1 .. Len(s) : s[i] \in S /\ s[i] \in T
  BY SMTT(60) DEF Members
<1>2. PICK f : /\ Keep(s, S) = f[Len(s)] /\ f[0] = <<>>
               /\ \A n \in 1 .. Len(s) :
                     f[n] = IF s[n] \in S THEN Append(f[n - 1], s[n]) ELSE f[n - 1]
  BY SMTT(60), KeptSteps
<1> DEFINE Good(n) == f[n] \in Seq(T) /\ Len(f[n]) = n /\ \A i \in 1 .. n : f[n][i] = s[i]
           P == {n \in Nat : n <= Len(s) => Good(n)}
<1>3. 0 \in P
  <2>1. <<>> \in Seq(T) /\ Len(<<>>) = 0
    BY SMTT(60)
  <2>2. Good(0)
    BY SMTT(60), <1>2, <2>1
  <2> QED
    BY <2>2
<1>4. ASSUME NEW n \in Nat, n \in P PROVE n + 1 \in P
  <2> SUFFICES ASSUME n + 1 <= Len(s) PROVE Good(n + 1)
    BY SMTT(60)
  <2>1. Good(n) /\ n + 1 \in 1 .. Len(s) /\ (n + 1) - 1 = n
    BY SMTT(60), <1>1, <1>4
  <2>2. f[n + 1] = Append(f[n], s[n + 1]) /\ s[n + 1] \in T
    BY <1>1, <1>2, <2>1
  <2> QED
    BY SMTT(60), <2>1, <2>2
<1> HIDE DEF P
<1>5. Nat \subseteq P
  BY <1>3, <1>4, SetInduction
<1>6. Good(Len(s))
  BY SMTT(60), <1>1, <1>5 DEF P
<1> QED
  BY SMTT(60), <1>1, <1>2, <1>6

(* A node at the tail is kept behind the others, or not at all. *)
LEMMA KeepAppend ==
    ASSUME NEW T, NEW s \in Seq(T), NEW e \in T, NEW S
    PROVE  Keep(Append(s, e), S) = IF e \in S THEN Append(Keep(s, S), e) ELSE Keep(s, S)
<1> DEFINE h == Append(s, e)
<1>1. /\ h \in Seq(T) /\ Len(s) \in Nat /\ Len(h) = Len(s) + 1 /\ h[Len(s) + 1] = e
      /\ \A i \in 1 .. Len(s) : h[i] = s[i]
  BY SMTT(60)
<1> HIDE DEF h
<1>2. PICK f : /\ Keep(s, S) = f[Len(s)] /\ f[0] = <<>>
               /\ \A n \in 1 .. Len(s) :
                     f[n] = IF s[n] \in S THEN Append(f[n - 1], s[n]) ELSE f[n - 1]
  BY SMTT(60), KeptSteps
<1>3. PICK g : /\ Keep(h, S) = g[Len(h)] /\ g[0] = <<>>
               /\ \A n \in 1 .. Len(h) :
                     g[n] = IF h[n] \in S THEN Append(g[n - 1], h[n]) ELSE g[n - 1]
  BY SMTT(60), <1>1, KeptSteps
<1> DEFINE P == {n \in Nat : n <= Len(s) => f[n] = g[n]}
<1>4. 0 \in P
  BY <1>2, <1>3
<1>5. ASSUME NEW n \in Nat, n \in P PROVE n + 1 \in P
  <2> SUFFICES ASSUME n + 1 <= Len(s) PROVE f[n + 1] = g[n + 1]
    BY SMTT(60)
  <2>1. f[n] = g[n] /\ n + 1 \in 1 .. Len(s) /\ n + 1 \in 1 .. Len(h) /\ (n + 1) - 1 = n
    BY SMTT(60), <1>1, <1>5
  <2>2. f[n + 1] = IF s[n + 1] \in S THEN Append(f[n], s[n + 1]) ELSE f[n]
    BY <1>2, <2>1
  <2>3. g[n + 1] = IF h[n + 1] \in S THEN Append(g[n], h[n + 1]) ELSE g[n]
    BY <1>3, <2>1
  <2> QED
    BY SMTT(60), <1>1, <2>1, <2>2, <2>3
<1> HIDE DEF P
<1>6. Nat \subseteq P
  BY <1>4, <1>5, SetInduction
<1>7. f[Len(s)] = g[Len(s)]
  BY SMTT(60), <1>1, <1>6 DEF P
<1>8. g[Len(s) + 1] = IF e \in S THEN Append(g[Len(s)], e) ELSE g[Len(s)]
  <2>1. Len(s) + 1 \in 1 .. Len(h) /\ (Len(s) + 1) - 1 = Len(s)
    BY SMTT(60), <1>1
  <2> QED
    BY <1>1, <1>3, <2>1
<1> QED
  BY <1>1, <1>2, <1>3, <1>7, <1>8 DEF h

(* Unlinking the first node. *)
LEMMA KeepTail ==
    ASSUME NEW T, NEW s \in Seq(T), s # <<>>, Once(s), NEW S, Members(s) \subseteq S
    PROVE  Keep(s, S \ {Head(s)}) = Tail(s)
<1> DEFINE R == S \ {Head(s)}
           r == Tail(s)
<1>1. /\ Len(s) \in Nat \ {0} /\ DOMAIN s = 1 .. Len(s) /\ Head(s) = s[1]
      /\ r \in Seq(T) /\ Len(r) = Len(s) - 1 /\ \A i \in 1 .. Len(s) - 1 : r[i] = s[i + 1]
  BY SMTT(60)
<1> HIDE DEF r
<1>2. s[1] \notin R /\ \A n \in 2 .. Len(s) : s[n] \in R /\ s[n] \in T
  BY SMTT(60), <1>1 DEF Members, Once
<1>3. PICK f : /\ Keep(s, R) = f[Len(s)] /\ f[0] = <<>>
               /\ \A n \in 1 .. Len(s) :
                     f[n] = IF s[n] \in R THEN Append(f[n - 1], s[n]) ELSE f[n - 1]
  BY SMTT(60), KeptSteps
<1> HIDE DEF R
<1> DEFINE Good(n) == f[n + 1] \in Seq(T) /\ Len(f[n + 1]) = n /\ \A i \in 1 .. n : f[n + 1][i] = s[i + 1]
           P == {n \in Nat : n + 1 <= Len(s) => Good(n)}
<1>4. 0 \in P
  <2>1. 1 \in 1 .. Len(s) /\ 1 - 1 = 0 /\ 0 + 1 = 1
    BY SMTT(60), <1>1
  <2>2. f[0 + 1] = <<>>
    BY <1>2, <1>3, <2>1
  <2>3. <<>> \in Seq(T) /\ Len(<<>>) = 0
    BY SMTT(60)
  <2>4. Good(0)
    BY SMTT(60), <2>2, <2>3
  <2> QED
    BY <2>4
<1>5. ASSUME NEW n \in Nat, n \in P PROVE n + 1 \in P
  <2> SUFFICES ASSUME (n + 1) + 1 <= Len(s) PROVE Good(n + 1)
    BY SMTT(60)
  <2>1. Good(n)
    BY SMTT(60), <1>1, <1>5
  <2>2. f[(n + 1) + 1] = Append(f[n + 1], s[(n + 1) + 1]) /\ s[(n + 1) + 1] \in T
    <3> DEFINE k == (n + 1) + 1
    <3>1. k \in 1 .. Len(s) /\ k \in 2 .. Len(s) /\ k - 1 = n + 1
      BY SMTT(60), <1>1
    <3> HIDE DEF k
    <3>2. f[k] = Append(f[k - 1], s[k]) /\ s[k] \in T
      BY <1>2, <1>3, <3>1
    <3>3. f[k] = Append(f[n + 1], s[k]) /\ s[k] \in T
      BY <3>1, <3>2
    <3> QED
      BY <3>3 DEF k
  <2> QED
    BY SMTT(60), <2>1, <2>2
<1> HIDE DEF P
<1>6. Nat \subseteq P
  BY <1>4, <1>5, SetInduction
<1>7. Len(s) - 1 \in Nat /\ (Len(s) - 1) + 1 = Len(s)
  BY SMTT(60), <1>1
<1>8. Good(Len(s) - 1)
  <2>1. Len(s) - 1 \in P /\ (Len(s) - 1) + 1 <= Len(s)
    BY SMTT(60), <1>1, <1>6, <1>7
  <2> QED
    BY <2>1 DEF P
<1> DEFINE g == f[Len(s)]
<1>9. /\ g \in Seq(T) /\ Len(g) = Len(s) - 1 /\ \A i \in 1 .. Len(s) - 1 : g[i] = s[i + 1]
  BY <1>7, <1>8
<1> HIDE DEF g
<1>10. g = r
  BY SMTT(60), <1>1, <1>9
<1> QED
  BY <1>3, <1>10 DEF g, r, R

(* Unlinking the first node of a list. *)
LEMMA TailFacts ==
    ASSUME NEW T, NEW s \in Seq(T), s # <<>>
    PROVE  /\ Head(s) \in T /\ Tail(s) \in Seq(T)
           /\ Members(s) = {Head(s)} \cup Members(Tail(s))
           /\ Once(s) => Once(Tail(s)) /\ Head(s) \notin Members(Tail(s))
<1> DEFINE h == Head(s)
           r == Tail(s)
<1>1. /\ h \in T /\ r \in Seq(T) /\ Len(s) \in Nat \ {0} /\ Len(r) = Len(s) - 1
      /\ DOMAIN s = 1 .. Len(s) /\ DOMAIN r = 1 .. Len(s) - 1
      /\ \A i \in 1 .. Len(s) - 1 : r[i] = s[i + 1]
      /\ h = s[1]
  BY SMTT(60)
<1> HIDE DEF h, r
<1>2. Members(s) = {h} \cup Members(r)
  <2>1. ASSUME NEW i \in DOMAIN s PROVE s[i] \in {h} \cup Members(r)
    <3>1. CASE i = 1
      BY <1>1, <3>1
    <3>2. CASE i # 1
      <4>1. i - 1 \in DOMAIN r /\ r[i - 1] = s[i]
        BY SMTT(60), <1>1, <3>2
      <4> QED
        BY <4>1 DEF Members
    <3> QED
      BY <3>1, <3>2
  <2>2. ASSUME NEW i \in DOMAIN r PROVE r[i] \in Members(s)
    BY SMTT(60), <1>1 DEF Members
  <2>3. h \in Members(s)
    BY SMTT(60), <1>1 DEF Members
  <2> QED
    BY <2>1, <2>2, <2>3 DEF Members
<1>3. ASSUME Once(s) PROVE Once(r)
  <2> SUFFICES ASSUME NEW i \in DOMAIN r, NEW j \in DOMAIN r, r[i] = r[j] PROVE i = j
    BY DEF Once
  <2>1. i + 1 \in DOMAIN s /\ j + 1 \in DOMAIN s /\ s[i + 1] = s[j + 1]
    BY SMTT(60), <1>1
  <2>2. i + 1 = j + 1
    BY <1>3, <2>1 DEF Once
  <2> QED
    BY SMTT(60), <1>1, <2>2
<1>4. ASSUME Once(s) PROVE h \notin Members(r)
  <2> SUFFICES ASSUME NEW i \in DOMAIN r, r[i] = h PROVE FALSE
    BY DEF Members
  <2>1. i + 1 \in DOMAIN s /\ 1 \in DOMAIN s /\ s[i + 1] = s[1] /\ i + 1 # 1
    BY SMTT(60), <1>1
  <2> QED
    BY <1>4, <2>1 DEF Once
<1> QED
  BY <1>1, <1>2, <1>3, <1>4 DEF h, r

(* One list behind another. *)
LEMMA ConcatFacts ==
    ASSUME NEW T, NEW s \in Seq(T), NEW r \in Seq(T)
    PROVE  /\ s \o r \in Seq(T)
           /\ Members(s \o r) = Members(s) \cup Members(r)
           /\ Once(s) /\ Once(r) /\ Members(s) \cap Members(r) = {} => Once(s \o r)
<1> DEFINE c == s \o r
<1>1. /\ c \in Seq(T) /\ Len(s) \in Nat /\ Len(r) \in Nat /\ Len(c) = Len(s) + Len(r)
      /\ DOMAIN s = 1 .. Len(s) /\ DOMAIN r = 1 .. Len(r) /\ DOMAIN c = 1 .. Len(s) + Len(r)
      /\ \A i \in 1 .. Len(s) : c[i] = s[i]
      /\ \A i \in 1 .. Len(r) : c[Len(s) + i] = r[i]
  BY SMTT(60)
<1> HIDE DEF c
<1>2. ASSUME NEW i \in DOMAIN c
      PROVE  \/ i \in DOMAIN s /\ c[i] = s[i]
             \/ i - Len(s) \in DOMAIN r /\ c[i] = r[i - Len(s)]
  <2>1. CASE i <= Len(s)
    BY SMTT(60), <1>1, <2>1
  <2>2. CASE i > Len(s)
    <3>1. i - Len(s) \in 1 .. Len(r) /\ Len(s) + (i - Len(s)) = i
      BY SMTT(60), <1>1, <2>2
    <3> QED
      BY <1>1, <3>1
  <2> QED
    BY SMTT(60), <1>1, <2>1, <2>2
<1>3. Members(c) = Members(s) \cup Members(r)
  <2>1. ASSUME NEW i \in DOMAIN c PROVE c[i] \in Members(s) \cup Members(r)
    BY <1>2 DEF Members
  <2>2. ASSUME NEW i \in DOMAIN s PROVE s[i] \in Members(c)
    BY SMTT(60), <1>1 DEF Members
  <2>3. ASSUME NEW i \in DOMAIN r PROVE r[i] \in Members(c)
    <3>1. Len(s) + i \in DOMAIN c /\ c[Len(s) + i] = r[i]
      BY SMTT(60), <1>1
    <3> QED
      BY <3>1 DEF Members
  <2> QED
    BY <2>1, <2>2, <2>3 DEF Members
<1>4. ASSUME Once(s), Once(r), Members(s) \cap Members(r) = {} PROVE Once(c)
  <2> SUFFICES ASSUME NEW i \in DOMAIN c, NEW j \in DOMAIN c, c[i] = c[j] PROVE i = j
    BY DEF Once
  <2>1. \A a \in DOMAIN s : s[a] \in Members(s)
    BY DEF Members
  <2>2. \A a \in DOMAIN r : r[a] \in Members(r)
    BY DEF Members
  <2>3. CASE i \in DOMAIN s /\ c[i] = s[i]
    <3>1. j \in DOMAIN s /\ c[j] = s[j]
      BY <1>2, <1>4, <2>1, <2>2, <2>3
    <3> QED
      BY <1>4, <2>3, <3>1 DEF Once
  <2>4. CASE i - Len(s) \in DOMAIN r /\ c[i] = r[i - Len(s)]
    <3>1. j - Len(s) \in DOMAIN r /\ c[j] = r[j - Len(s)]
      BY <1>2, <1>4, <2>1, <2>2, <2>4
    <3>2. i - Len(s) = j - Len(s)
      BY <1>4, <2>4, <3>1 DEF Once
    <3> QED
      BY SMTT(60), <1>1, <3>2
  <2> QED
    BY <1>2, <2>3, <2>4
<1> QED
  BY <1>1, <1>3, <1>4 DEF c
=============================================================================
