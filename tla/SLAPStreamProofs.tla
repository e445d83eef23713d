-------------------------- MODULE SLAPStreamProofs --------------------------
(***************************************************************************)
(* What the SLAP stream promises, for all windows and packet sizes of the  *)
(* two ends, any number of packets, losses and restarts, and a UART that   *)
(* refuses or does not.                                                    *)
(***************************************************************************)
EXTENDS SLAPStream, TLAPS, SequenceTheorems, WellFoundedInduction

-----------------------------------------------------------------------------
(* Sequences filtered by type.                                             *)

\* Every nonempty set of numbers has a least one.
LEMMA LeastExists ==
    ASSUME NEW S \in SUBSET Nat, S # {}
    PROVE  \E x \in S : \A y \in S : x <= y
<1> DEFINE R == {ss \in Nat \X Nat : ss[1] < ss[2]}
<1>1. \A x, y \in Nat : x < y => <<x, y>> \in R
  OBVIOUS
<1>2. IsWellFoundedOn(R, Nat)
  BY NatLessThanWellFounded DEF OpToRel
<1> HIDE DEF R
<1>3. PICK x \in S : \A y \in S : ~(<<y, x>> \in R)
  BY <1>2, WFMin
<1>4. \A y \in S : x <= y
  <2> TAKE y \in S
  <2>1. ~(<<y, x>> \in R)
    BY <1>3
  <2>2. ~(y < x)
    BY <1>1, <2>1
  <2> QED
    BY <2>2
<1> QED
  BY <1>3, <1>4

\* The recursive definition of OfType is one: the function exists.
FilterFcn(f, q, T, n) ==
    f = [i \in 0..n |-> IF i = 0 THEN << >>
                        ELSE IF q[i].type \in T THEN Append(f[i - 1], q[i]) ELSE f[i - 1]]

LEMMA FilterExists ==
    ASSUME NEW q, NEW T, NEW n \in Nat
    PROVE  \E f : FilterFcn(f, q, T, n)
<1> DEFINE Bad == {m \in Nat : ~ \E f : FilterFcn(f, q, T, m)}
<1>1. SUFFICES Bad = {}
  OBVIOUS
<1>2. SUFFICES ASSUME Bad # {} PROVE FALSE
  OBVIOUS
<1>3. PICK m \in Bad : \A k \in Bad : m <= k
  BY <1>2, LeastExists
<1> HIDE DEF Bad
<1>4. CASE m = 0
  <2> DEFINE g == [i \in 0..0 |-> << >>]
  <2>1. FilterFcn(g, q, T, 0)
    BY DEF FilterFcn
  <2> QED
    BY <1>3, <1>4, <2>1 DEF Bad
<1>5. CASE m # 0
  <2>1. m \in Nat /\ m - 1 \in Nat
    BY <1>3, <1>5 DEF Bad
  <2>2. m - 1 \notin Bad
    BY <1>3, <2>1
  <2>3. PICK f : FilterFcn(f, q, T, m - 1)
    BY <2>1, <2>2 DEF Bad
  <2> DEFINE x == IF q[m].type \in T THEN Append(f[m - 1], q[m]) ELSE f[m - 1]
             g == [i \in 0..m |-> IF i = m THEN x ELSE f[i]]
  <2>4. \A i \in 0..(m - 1) : g[i] = f[i]
    BY <2>1
  <2>5. \A i \in 0..m : g[i] = IF i = 0 THEN << >>
                        ELSE IF q[i].type \in T THEN Append(g[i - 1], q[i]) ELSE g[i - 1]
    <3> TAKE i \in 0..m
    <3>1. CASE i = m
      <4>1. g[i] = x /\ g[i - 1] = f[m - 1]
        BY <2>1, <3>1, <2>4, <1>5
      <4> QED
        BY <4>1, <3>1, <1>5
    <3>2. CASE i # m
      <4>1. i \in 0..(m - 1)
        BY <2>1, <3>2
      <4>2. f[i] = IF i = 0 THEN << >>
                   ELSE IF q[i].type \in T THEN Append(f[i - 1], q[i]) ELSE f[i - 1]
        BY <4>1, <2>3 DEF FilterFcn
      <4>3. i # 0 => g[i - 1] = f[i - 1]
        BY <4>1, <2>4, <2>1
      <4>4. g[i] = f[i]
        BY <4>1, <2>4
      <4> HIDE DEF g
      <4> QED
        BY <4>2, <4>3, <4>4
    <3> QED
      BY <3>1, <3>2
  <2>6. g = [i \in 0..m |-> g[i]]
    OBVIOUS
  <2> HIDE DEF g
  <2>7. FilterFcn(g, q, T, m)
    BY <2>5, <2>6 DEF FilterFcn
  <2> QED
    BY <1>3, <2>7 DEF Bad
<1> QED
  BY <1>4, <1>5

Filters(f, q, T, n) ==
    /\ f[0] = << >>
    /\ \A i \in 1..n : f[i] = IF q[i].type \in T THEN Append(f[i - 1], q[i]) ELSE f[i - 1]

LEMMA FilterAgrees ==
    ASSUME NEW q, NEW r, NEW T, NEW n \in Nat, NEW m \in Nat, n <= m,
           NEW f, NEW g, Filters(f, q, T, n), Filters(g, r, T, m),
           \A i \in 1..n : q[i] = r[i]
    PROVE  f[n] = g[n]
<1> DEFINE Bad == {i \in 0..n : f[i] # g[i]}
<1>1. SUFFICES ASSUME Bad # {} PROVE FALSE
  OBVIOUS
<1>a. Bad \in SUBSET Nat
  OBVIOUS
<1>2. PICK i \in Bad : \A k \in Bad : i <= k
  BY <1>1, <1>a, LeastExists
<1>3. f[0] = << >> /\ g[0] = << >>
  BY DEF Filters
<1>4. i \in 1..n /\ i \in 1..m /\ f[i - 1] = g[i - 1]
  BY <1>2, <1>3
<1>5. f[i] = IF q[i].type \in T THEN Append(f[i - 1], q[i]) ELSE f[i - 1]
  BY <1>4 DEF Filters
<1>6. g[i] = IF r[i].type \in T THEN Append(g[i - 1], r[i]) ELSE g[i - 1]
  BY <1>4 DEF Filters
<1> QED
  BY <1>2, <1>4, <1>5, <1>6

LEMMA OfTypeIsFilter ==
    ASSUME NEW S, NEW q \in Seq(S), NEW T
    PROVE  \E f : Filters(f, q, T, Len(q)) /\ OfType(q, T) = f[Len(q)]
<1>a. Len(q) \in Nat
  OBVIOUS
<1>1. \E f : FilterFcn(f, q, T, Len(q))
  BY <1>a, FilterExists
<1>2. PICK f : FilterFcn(f, q, T, Len(q)) /\ OfType(q, T) = f[Len(q)]
  BY <1>1, Zenon DEF OfType, FilterFcn
<1>3. \A i \in 0..Len(q) :
          f[i] = IF i = 0 THEN << >>
                 ELSE IF q[i].type \in T THEN Append(f[i - 1], q[i]) ELSE f[i - 1]
  BY <1>2, Zenon DEF FilterFcn
<1>4. 0 \in 0..Len(q) /\ \A i \in 1..Len(q) : i \in 0..Len(q) /\ i # 0
  BY <1>a
<1>5. Filters(f, q, T, Len(q))
  BY <1>3, <1>4, Zenon DEF Filters
<1> QED
  BY <1>2, <1>5

LEMMA OfTypeEmpty ==
    ASSUME NEW T PROVE OfType(<< >>, T) = << >>
<1>a. << >> \in Seq({}) /\ Len(<< >>) = 0
  OBVIOUS
<1>1. PICK f : Filters(f, << >>, T, 0) /\ OfType(<< >>, T) = f[0]
  BY <1>a, OfTypeIsFilter
<1> QED
  BY <1>1 DEF Filters

LEMMA OfTypeAppend ==
    ASSUME NEW S, NEW q \in Seq(S), NEW x \in S, NEW T
    PROVE  OfType(Append(q, x), T) =
               IF x.type \in T THEN Append(OfType(q, T), x) ELSE OfType(q, T)
<1> DEFINE r == Append(q, x)
           n == Len(q)
<1>1. r \in Seq(S) /\ Len(r) = n + 1 /\ n \in Nat /\ r[n + 1] = x
  OBVIOUS
<1>d. \A i \in 1..n : q[i] = r[i]
  OBVIOUS
<1> HIDE DEF r, n
<1>2. PICK f : Filters(f, q, T, n) /\ OfType(q, T) = f[n]
  BY OfTypeIsFilter DEF n
<1>3. PICK g : Filters(g, r, T, n + 1) /\ OfType(r, T) = g[n + 1]
  BY OfTypeIsFilter, <1>1
<1>b. n \in Nat /\ n + 1 \in Nat /\ n <= n + 1
  BY <1>1
<1>4. f[n] = g[n]
  BY ONLY FilterAgrees, <1>d, <1>b, <1>2, <1>3
<1>c. n + 1 \in 1..(n + 1) /\ n + 1 - 1 = n
  BY <1>1
<1>5. g[n + 1] = IF r[n + 1].type \in T THEN Append(g[n], r[n + 1]) ELSE g[n]
  <2>1. PICK k : k = n + 1
    OBVIOUS
  <2>2. k \in 1..(n + 1) /\ k - 1 = n
    BY <1>1, <2>1
  <2>3. g[k] = IF r[k].type \in T THEN Append(g[k - 1], r[k]) ELSE g[k - 1]
    BY ONLY <1>3, <2>2 DEF Filters
  <2> QED
    BY ONLY <2>1, <2>2, <2>3
<1> QED
  BY <1>1, <1>b, <1>2, <1>3, <1>4, <1>5, Zenon DEF r

\* A sequence is empty, or one element longer than another one.
LEMMA SplitLast ==
    ASSUME NEW S, NEW q \in Seq(S), Len(q) # 0
    PROVE  \E r \in Seq(S), x \in S : q = Append(r, x) /\ Len(r) = Len(q) - 1
<1>1. q # << >>
  OBVIOUS
<1>2. PICK r \in Seq(S), x \in S : q = Append(r, x)
  BY <1>1, SequenceEmptyOrAppend, Zenon
<1>3. Len(r) = Len(q) - 1
  BY <1>2
<1> QED
  BY <1>2, <1>3

LEMMA OfTypeElements ==
    ASSUME NEW S, NEW T
    PROVE  \A q \in Seq(S) : /\ OfType(q, T) \in Seq({x \in S : x.type \in T})
                             /\ Len(OfType(q, T)) <= Len(q)
<1> DEFINE U == {x \in S : x.type \in T}
           P(q) == OfType(q, T) \in Seq(U) /\ Len(OfType(q, T)) <= Len(q)
           Bad == {n \in Nat : \E q \in Seq(S) : Len(q) = n /\ ~P(q)}
<1>1. SUFFICES ASSUME Bad # {} PROVE FALSE
  OBVIOUS
<1>2. PICK n \in Bad : \A k \in Bad : n <= k
  BY <1>1, LeastExists
<1>3. PICK q \in Seq(S) : Len(q) = n /\ ~P(q)
  BY <1>2
<1>4. n # 0
  <2>1. P(<< >>)
    <3>1. << >> \in Seq(U) /\ Len(<< >>) <= Len(<< >>)
      OBVIOUS
    <3> QED
      BY OfTypeEmpty, <3>1, Zenon
  <2> QED
    BY <2>1, <1>3, EmptySeq
<1>5. PICK r \in Seq(S), x \in S : q = Append(r, x) /\ Len(r) = n - 1
  BY <1>3, <1>4, SplitLast, SMTT(30)
<1>6. P(r)
  <2>1. n - 1 \in Nat /\ ~(n <= n - 1)
    BY <1>2, <1>4
  <2> QED
    BY <2>1, <1>2, <1>5
<1>7. OfType(q, T) = IF x.type \in T THEN Append(OfType(r, T), x) ELSE OfType(r, T)
  BY <1>5, OfTypeAppend
<1>8. x.type \in T => x \in U
  OBVIOUS
<1> HIDE DEF U
<1> QED
  BY <1>3, <1>5, <1>6, <1>7, <1>8

LEMMA OfTypeConcat ==
    ASSUME NEW S, NEW q \in Seq(S), NEW T
    PROVE  \A r \in Seq(S) : OfType(q \o r, T) = OfType(q, T) \o OfType(r, T)
<1> DEFINE P(r) == OfType(q \o r, T) = OfType(q, T) \o OfType(r, T)
           Bad == {n \in Nat : \E r \in Seq(S) : Len(r) = n /\ ~P(r)}
<1>1. SUFFICES ASSUME Bad # {} PROVE FALSE
  OBVIOUS
<1>2. PICK n \in Bad : \A k \in Bad : n <= k
  BY <1>1, LeastExists
<1>3. PICK r \in Seq(S) : Len(r) = n /\ ~P(r)
  BY <1>2
<1>b. \A u \in Seq(S) : OfType(u, T) \in Seq(S)
  <2> TAKE u \in Seq(S)
  <2>1. OfType(u, T) \in Seq({x \in S : x.type \in T})
    BY OfTypeElements
  <2> QED
    BY <2>1
<1>a. OfType(q, T) \in Seq(S)
  BY <1>b
<1>4. n # 0
  <2>1. P(<< >>)
    BY OfTypeEmpty, <1>a
  <2> QED
    BY <2>1, <1>3, EmptySeq
<1>c. Len(r) = n /\ Len(r) # 0
  BY <1>3, <1>4
<1>5. PICK t \in Seq(S), x \in S : r = Append(t, x) /\ Len(t) = n - 1
  <2>1. \E t \in Seq(S), x \in S : r = Append(t, x) /\ Len(t) = Len(r) - 1
    BY ONLY r \in Seq(S), <1>c, SplitLast
  <2> QED
    BY ONLY <2>1, <1>c
<1>6. P(t)
  <2>1. n - 1 \in Nat /\ ~(n <= n - 1)
    BY <1>2, <1>4
  <2> QED
    BY <2>1, <1>2, <1>5
<1>7. q \o r = Append(q \o t, x)
  BY <1>5
<1>8. OfType(q \o r, T) =
          IF x.type \in T THEN Append(OfType(q \o t, T), x) ELSE OfType(q \o t, T)
  <2>1. q \o t \in Seq(S)
    OBVIOUS
  <2>2. PICK u : u = q \o t
    OBVIOUS
  <2>3. OfType(Append(u, x), T) = IF x.type \in T THEN Append(OfType(u, T), x) ELSE OfType(u, T)
    <3>1. u \in Seq(S)
      BY <2>1, <2>2
    <3> QED
      BY ONLY <3>1, x \in S, OfTypeAppend
  <2> QED
    BY ONLY <1>7, <2>2, <2>3, Zenon
<1>9. OfType(r, T) = IF x.type \in T THEN Append(OfType(t, T), x) ELSE OfType(t, T)
  BY <1>5, OfTypeAppend
<1>10. OfType(t, T) \in Seq(S)
  BY <1>b
<1>11. OfType(q, T) \o Append(OfType(t, T), x) = Append(OfType(q, T) \o OfType(t, T), x)
  BY <1>a, <1>10, SMTT(30)
<1> QED
  BY <1>3, <1>6, <1>8, <1>9, <1>11

LEMMA OfTypeOne ==
    ASSUME NEW x, NEW T
    PROVE  OfType(<<x>>, T) = IF x.type \in T THEN <<x>> ELSE << >>
<1>1. << >> \in Seq({x}) /\ x \in {x}
  OBVIOUS
<1>2. <<x>> = Append(<< >>, x)
  OBVIOUS
<1>3. OfType(Append(<< >>, x), T) =
          IF x.type \in T THEN Append(OfType(<< >>, T), x) ELSE OfType(<< >>, T)
  BY <1>1, OfTypeAppend
<1> QED
  BY <1>2, <1>3, OfTypeEmpty

-----------------------------------------------------------------------------
(* Counting data packets.                                                  *)

LEMMA DataInNat ==
    ASSUME NEW S, NEW q \in Seq(S)
    PROVE  DataIn(q) \in Nat /\ DataIn(q) <= Len(q)
<1>1. /\ OfType(q, {"DATA"}) \in Seq({x \in S : x.type \in {"DATA"}})
      /\ Len(OfType(q, {"DATA"})) <= Len(q)
  BY OfTypeElements
<1> QED
  BY <1>1 DEF DataIn

LEMMA DataInEmpty == DataIn(<< >>) = 0
<1>1. Len(<< >>) = 0
  OBVIOUS
<1> QED
  BY <1>1, OfTypeEmpty, Zenon DEF DataIn

LEMMA DataInOne ==
    ASSUME NEW x PROVE DataIn(<<x>>) = IF x.type = "DATA" THEN 1 ELSE 0
<1>1. OfType(<<x>>, {"DATA"}) = IF x.type \in {"DATA"} THEN <<x>> ELSE << >>
  BY OfTypeOne
<1>2. Len(<<x>>) = 1 /\ Len(<< >>) = 0
  OBVIOUS
<1> QED
  BY <1>1, <1>2 DEF DataIn

LEMMA DataInConcat ==
    ASSUME NEW S, NEW q \in Seq(S), NEW r \in Seq(S)
    PROVE  DataIn(q \o r) = DataIn(q) + DataIn(r)
<1>1. OfType(q \o r, {"DATA"}) = OfType(q, {"DATA"}) \o OfType(r, {"DATA"})
  BY OfTypeConcat
<1>2. /\ OfType(q, {"DATA"}) \in Seq({x \in S : x.type \in {"DATA"}})
      /\ OfType(r, {"DATA"}) \in Seq({x \in S : x.type \in {"DATA"}})
  BY OfTypeElements
<1> QED
  BY <1>1, <1>2 DEF DataIn

\* Only which packets are data packets counts.
LEMMA DataInSame ==
    ASSUME NEW S
    PROVE  \A q, r \in Seq(S) :
               Len(q) = Len(r) /\ (\A i \in 1..Len(q) : q[i].type = "DATA" <=> r[i].type = "DATA")
                   => DataIn(q) = DataIn(r)
<1> DEFINE Alike(q, r) == /\ Len(q) = Len(r)
                          /\ \A i \in 1..Len(q) : q[i].type = "DATA" <=> r[i].type = "DATA"
           Bad == {n \in Nat : \E q, r \in Seq(S) :
                                  Len(q) = n /\ Alike(q, r) /\ DataIn(q) # DataIn(r)}
<1>1. SUFFICES ASSUME Bad # {} PROVE FALSE
  OBVIOUS
<1>2. PICK n \in Bad : \A k \in Bad : n <= k
  BY <1>1, LeastExists
<1>3. PICK q \in Seq(S), r \in Seq(S) : Len(q) = n /\ Alike(q, r) /\ DataIn(q) # DataIn(r)
  BY <1>2
<1>4. Len(q) = n /\ Len(r) = n /\ n \in Nat /\ n # 0
  <2>1. n = 0 => q = << >> /\ r = << >>
    BY <1>3, EmptySeq
  <2> QED
    BY <2>1, <1>2, <1>3
<1>5. PICK q1 \in Seq(S), x \in S : q = Append(q1, x) /\ Len(q1) = n - 1
  <2>1. \E q1 \in Seq(S), x \in S : q = Append(q1, x) /\ Len(q1) = Len(q) - 1
    BY ONLY q \in Seq(S), <1>4, SplitLast
  <2> QED
    BY ONLY <2>1, <1>4
<1>6. PICK r1 \in Seq(S), y \in S : r = Append(r1, y) /\ Len(r1) = n - 1
  <2>1. \E r1 \in Seq(S), y \in S : r = Append(r1, y) /\ Len(r1) = Len(r) - 1
    BY ONLY r \in Seq(S), <1>4, SplitLast
  <2> QED
    BY ONLY <2>1, <1>4
<1>7. Alike(q1, r1) /\ (x.type = "DATA" <=> y.type = "DATA")
  <2>1. q[n] = x /\ r[n] = y /\ \A i \in 1..(n - 1) : q[i] = q1[i] /\ r[i] = r1[i]
    BY <1>4, <1>5, <1>6
  <2>2. n \in 1..n /\ \A i \in 1..(n - 1) : i \in 1..n
    BY <1>4
  <2> QED
    BY <1>3, <1>4, <1>5, <1>6, <2>1, <2>2
<1>8. DataIn(q1) = DataIn(r1)
  <2>1. n - 1 \in Nat /\ ~(n <= n - 1)
    BY <1>4
  <2> QED
    BY <2>1, <1>2, <1>5, <1>7
<1> HIDE DEF Alike, Bad
<1>9. DataIn(q) = DataIn(q1) + DataIn(<<x>>)
  <2>1. q = q1 \o <<x>>
    BY <1>5
  <2>2. <<x>> \in Seq(S)
    OBVIOUS
  <2> QED
    BY ONLY <2>1, <2>2, q1 \in Seq(S), DataInConcat
<1>10. DataIn(r) = DataIn(r1) + DataIn(<<y>>)
  <2>1. r = r1 \o <<y>>
    BY <1>6
  <2>2. <<y>> \in Seq(S)
    OBVIOUS
  <2> QED
    BY ONLY <2>1, <2>2, r1 \in Seq(S), DataInConcat
<1>11. DataIn(<<x>>) = DataIn(<<y>>)
  BY <1>7, DataInOne
<1> QED
  BY <1>3, <1>8, <1>9, <1>10, <1>11, Zenon

LEMMA DataInAll ==
    ASSUME NEW S, \A x \in S : x.type = "DATA"
    PROVE  \A q \in Seq(S) : DataIn(q) = Len(q)
<1> DEFINE Bad == {n \in Nat : \E q \in Seq(S) : Len(q) = n /\ DataIn(q) # Len(q)}
<1>1. SUFFICES ASSUME Bad # {} PROVE FALSE
  OBVIOUS
<1>2. PICK n \in Bad : \A k \in Bad : n <= k
  BY <1>1, LeastExists
<1>3. PICK q \in Seq(S) : Len(q) = n /\ DataIn(q) # Len(q)
  BY <1>2
<1>4. Len(q) = n /\ n \in Nat /\ n # 0
  <2>1. n = 0 => q = << >>
    BY <1>3, EmptySeq
  <2> QED
    BY <2>1, <1>2, <1>3, DataInEmpty
<1>5. PICK r \in Seq(S), x \in S : q = Append(r, x) /\ Len(r) = n - 1
  <2>1. \E r \in Seq(S), x \in S : q = Append(r, x) /\ Len(r) = Len(q) - 1
    BY ONLY q \in Seq(S), <1>4, SplitLast
  <2> QED
    BY ONLY <2>1, <1>4
<1>6. DataIn(r) = Len(r)
  <2>1. n - 1 \in Nat /\ ~(n <= n - 1)
    BY <1>4
  <2> QED
    BY <2>1, <1>2, <1>5
<1>7. DataIn(q) = DataIn(r) + DataIn(<<x>>)
  <2>1. q = r \o <<x>>
    BY <1>5
  <2>2. <<x>> \in Seq(S)
    OBVIOUS
  <2> QED
    BY ONLY <2>1, <2>2, r \in Seq(S), DataInConcat
<1>8. DataIn(<<x>>) = 1
  BY DataInOne
<1> QED
  BY <1>3, <1>4, <1>5, <1>6, <1>7, <1>8

-----------------------------------------------------------------------------
(* The inductive invariant.                                                *)

Links == {"UNINITIALIZED", "INITIALIZED", "ACTIVE", "DYING", "DEAD"}
AlarmTypes == {"SEND", "RESEND", "ACK", "CONTROL"}

\* What an end may propose: its own limits, or what it has agreed to.
Own(e) == [win |-> MaxWindow[e], size |-> MaxPacket[e], ver |-> PROTOCOL_VERSION]
Proposals(e) == {Own(e), AgreedConf}

\* The packets of end e; an answer to a proposal always says the same.
DataPacket == [type : {"DATA"}, seq : 0..7, ack : 0..7, pay : Nat \X Nat]
Control(e) ==
    [type : {"ACK"}, ack : 0..7]
      \cup [type : {"NEGO"}, conf : Proposals(e)]
      \cup [type : {"NEGO_RESP"}, conf : {AgreedConf}]
      \cup [type : {"CONN", "ACCEPT", "DISCONN", "DISCONN_RESP", "JUNK"}]
Packet(e) == DataPacket \cup Control(e)
Item == DataPacket \cup {CtrlRef}

Stream(e) ==
    [link : Links, win : {1, 2, 4}, size : Nat, ver : {0, 1, Garbage},
     conf : {NoConf} \cup Proposals(e),
     expectedSeq : 0..7, txSeqNum : 0..7, currentTxAck : 0..7, pendingAcks : BOOLEAN,
     txQueue : Seq(Item), txSent : Seq(DataPacket), txFree : Nat, rxQueue : Nat, rxFree : Nat,
     txCtrl : Control(e), txCurrent : Seq(Packet(e)),
     alarms : SUBSET AlarmTypes, firing : AlarmTypes \cup {"none"},
     source : BOOLEAN, sink : BOOLEAN, close : {"open", "closing", "closed"}]

\* m_txCtrl can only be at the head of m_txQueue.
CtrlFirst(s) == \A i \in 2..Len(s.txQueue) : s.txQueue[i].type = "DATA"

\* The parameters of a link that is coming up, and of one that is up.
Params(e, s) ==
    /\ s.link \in {"UNINITIALIZED", "INITIALIZED"} => s.size \in {MaxPacket[e], AgreedConf.size}
    /\ s.link = "INITIALIZED" => s.conf \in Proposals(e)
    /\ s.link = "ACTIVE" => /\ s.win = AgreedConf.win /\ s.size = AgreedConf.size
                            /\ s.ver = AgreedConf.ver

\* The packets allocated at configuration are all there; before it there are none.
InUse(s) == DataIn(s.txQueue) + DataIn(s.txCurrent) + Len(s.txSent)
NoPackets(s) == s.txFree = 0 /\ InUse(s) = 0 /\ s.rxFree = 0 /\ s.rxQueue = 0
AllPackets(s) == s.txFree + InUse(s) = s.win /\ s.rxFree + s.rxQueue = s.win
Buffers(s) ==
    /\ s.link \in {"UNINITIALIZED", "INITIALIZED"} => NoPackets(s)
    /\ s.link = "ACTIVE" => AllPackets(s)
    /\ NoPackets(s) \/ AllPackets(s)

\* EventsMatchQueues, DeadWakesWaiters and SentHasResend, of one end.
Events(s) == (s.txFree > 0 => s.sink) /\ (s.rxQueue > 0 => s.source)
Woken(s)  == s.link = "DEAD" /\ s.close # "closed" => s.source /\ s.sink
Resends(s) == s.link = "ACTIVE" /\ s.txSent # << >> =>
                  "RESEND" \in s.alarms \/ s.firing = "RESEND"

Core(e, s) ==
    /\ s \in Stream(e) /\ Len(s.txCurrent) <= 1 /\ CtrlFirst(s)
    /\ Params(e, s) /\ Buffers(s) /\ Events(s) /\ Woken(s) /\ Resends(s)

\* Only an end that gives up the link answers a DISCONN, or waits for the answer.
Down(s) == s.link \in {"DYING", "DEAD"}
Answers(s) ==
    /\ s.txCtrl.type = "DISCONN_RESP" => Down(s)
    /\ s.txCurrent # << >> /\ s.txCurrent[1].type = "DISCONN_RESP" => Down(s)
    /\ s.close = "closing" => Down(s)

\* With a UART that takes everything, what is queued is about to be sent.
Scheduled(s) ==
    /\ s.txCurrent = << >>
    /\ s.txQueue # << >> => "SEND" \in s.alarms \/ s.firing = "SEND"

StreamOK(e, s) == Core(e, s) /\ Answers(s) /\ (~CanBlock => Scheduled(s))

WireOK(e, w) == w \in Seq(Packet(Peer(e))) /\ Len(w) <= WireCap

\* Nothing but the end that gave up the link can have sent an answer to DISCONN,
\* as long as no end has a life before this one.
OneLife == \A e \in End : MaxOpen[e] <= 1
Farewell(e, w) ==
    /\ (\E i \in 1..Len(w) : w[i].type = "DISCONN_RESP") => Down(st[Peer(e)])
    /\ st[e].close = "closing" /\ st[e].link = "DEAD" => Down(st[Peer(e)])

Counters ==
    /\ epoch \in [End -> Nat \ {0}] /\ pushed \in [End -> Nat] /\ losses \in 0..MaxLoss

Inv ==
    /\ st = [e \in End |-> st[e]] /\ wire = [e \in End |-> wire[e]]
    /\ Counters
    /\ \A e \in End : StreamOK(e, st[e]) /\ WireOK(e, wire[e])
    /\ OneLife => \A e \in End : Farewell(e, wire[e])

-----------------------------------------------------------------------------
(* The methods keep the invariant of an end.                               *)

LEMMA PeerFacts ==
    \A e \in End : /\ Peer(e) \in End /\ Peer(e) # e /\ Peer(Peer(e)) = e
                   /\ \A f \in End : f = e \/ f = Peer(e)
<1>1. Peer("A") = "B"
  BY DEF Peer, End
<1>2. Peer("B") = "A"
  BY DEF Peer, End
<1> QED
  BY <1>1, <1>2 DEF End

LEMMA ConfFacts ==
    /\ AgreedConf.win \in {1, 2, 4} /\ AgreedConf.size \in Nat /\ AgreedConf.ver = 1
    /\ \A e \in End : /\ MaxWindow[e] \in {1, 2, 4} /\ MaxPacket[e] \in Nat
                      /\ AgreedConf.win <= MaxWindow[e] /\ AgreedConf.size <= MaxPacket[e]
                      /\ AgreedConf.win = SmallerOf(MaxWindow[Peer(e)], MaxWindow[e])
                      /\ AgreedConf.size = SmallerOf(MaxPacket[Peer(e)], MaxPacket[e])
<1>1. Peer("A") = "B" /\ Peer("B") = "A"
  BY DEF Peer, End
<1>2. \A e \in End : MaxWindow[e] \in {1, 2, 4} /\ MaxPacket[e] \in Nat
  BY SLAPAssumption
<1>3. /\ AgreedConf.win = SmallerOf(MaxWindow["A"], MaxWindow["B"])
      /\ AgreedConf.size = SmallerOf(MaxPacket["A"], MaxPacket["B"])
      /\ AgreedConf.ver = 1
  BY DEF AgreedConf, PROTOCOL_VERSION
<1> QED
  BY <1>1, <1>2, <1>3 DEF End, SmallerOf

LEMMA PacketTypes ==
    ASSUME NEW e
    PROVE  /\ DataPacket \subseteq Packet(e) /\ Control(e) \subseteq Packet(e)
           /\ Junk \in Control(e) /\ \A p \in Control(e) : p.type # "DATA"
           /\ \A p \in DataPacket : p.type = "DATA" /\ p.seq \in 0..7 /\ p.ack \in 0..7
           /\ \A p \in Packet(e) : p.type = "DATA" <=> p \in DataPacket
           /\ \A p \in Item : (p.type = "DATA" <=> p \in DataPacket)
                              /\ (p = CtrlRef <=> p.type = "CTRL")
           /\ DataPacket \subseteq Item /\ CtrlRef \in Item
           /\ CtrlRef.type = "CTRL" /\ Junk.type = "JUNK"
           /\ \A p \in Packet(e) : p.type \in {"DATA", "ACK"} => p.ack \in 0..7
           /\ \A p \in Packet(e) : p.type \in Valid \cup {"JUNK"}
BY DEF DataPacket, Packet, Control, Item, CtrlRef, Junk, Valid

LEMMA CtrlPacket ==
    ASSUME NEW e, NEW type \in {"CONN", "ACCEPT", "DISCONN", "DISCONN_RESP"}, NEW c
    PROVE  Ctrl(type, c) \in Control(e) /\ Ctrl(type, c).type = type
BY DEF Ctrl, Control

LEMMA NegoPacket ==
    ASSUME NEW e, NEW c \in Proposals(e)
    PROVE  Ctrl("NEGO", c) \in Control(e) /\ Ctrl("NEGO", c).type = "NEGO"
<1>1. Ctrl("NEGO", c) = [type |-> "NEGO", conf |-> c]
  BY DEF Ctrl
<1>2. [type |-> "NEGO", conf |-> c] \in [type : {"NEGO"}, conf : Proposals(e)]
  OBVIOUS
<1> QED
  BY <1>1, <1>2 DEF Control

LEMMA NegoRespPacket ==
    ASSUME NEW e
    PROVE  Ctrl("NEGO_RESP", AgreedConf) \in Control(e)
           /\ Ctrl("NEGO_RESP", AgreedConf).type = "NEGO_RESP"
<1>1. Ctrl("NEGO_RESP", AgreedConf) = [type |-> "NEGO_RESP", conf |-> AgreedConf]
  BY DEF Ctrl
<1>2. [type |-> "NEGO_RESP", conf |-> AgreedConf]
          \in [type : {"NEGO_RESP"}, conf : {AgreedConf}]
  OBVIOUS
<1> QED
  BY <1>1, <1>2 DEF Control

LEMMA StreamFields ==
    ASSUME NEW e, NEW s \in Stream(e)
    PROVE  /\ s.txQueue \in Seq(Item) /\ s.txSent \in Seq(DataPacket)
           /\ s.txCurrent \in Seq(Packet(e)) /\ s.txCtrl \in Control(e)
           /\ s.txFree \in Nat /\ s.rxQueue \in Nat /\ s.rxFree \in Nat
           /\ s.link \in Links /\ s.win \in {1, 2, 4} /\ s.size \in Nat
           /\ s.ver \in {0, 1, Garbage} /\ s.conf \in {NoConf} \cup Proposals(e)
           /\ s.alarms \in SUBSET AlarmTypes /\ s.firing \in AlarmTypes \cup {"none"}
           /\ s.expectedSeq \in 0..7 /\ s.txSeqNum \in 0..7 /\ s.currentTxAck \in 0..7
           /\ s.source \in BOOLEAN /\ s.sink \in BOOLEAN /\ s.pendingAcks \in BOOLEAN
           /\ s.close \in {"open", "closing", "closed"}
BY DEF Stream

LEMMA DataInStream ==
    ASSUME NEW e, NEW s \in Stream(e)
    PROVE  DataIn(s.txQueue) \in Nat /\ DataIn(s.txCurrent) \in Nat /\ Len(s.txSent) \in Nat
           /\ Len(s.txQueue) \in Nat /\ Len(s.txCurrent) \in Nat /\ InUse(s) \in Nat
<1>1. s.txQueue \in Seq(Item) /\ s.txSent \in Seq(DataPacket) /\ s.txCurrent \in Seq(Packet(e))
  BY StreamFields
<1>2. DataIn(s.txQueue) \in Nat
  BY <1>1, DataInNat
<1>3. DataIn(s.txCurrent) \in Nat
  BY <1>1, DataInNat
<1>4. Len(s.txSent) \in Nat /\ Len(s.txQueue) \in Nat /\ Len(s.txCurrent) \in Nat
  BY <1>1
<1> QED
  BY <1>2, <1>3, <1>4 DEF InUse

\* What Core says depends on these fields only, and on the counts of packets.
LEMMA CoreTransfer ==
    ASSUME NEW e, NEW s, NEW t, Core(e, s), t \in Stream(e),
           Len(t.txCurrent) <= 1, CtrlFirst(t),
           t.link = s.link, t.win = s.win, t.size = s.size, t.ver = s.ver,
           s.link = "INITIALIZED" => t.conf \in Proposals(e),
           t.txFree = s.txFree, t.rxFree = s.rxFree, t.rxQueue = s.rxQueue,
           InUse(t) = InUse(s),
           t.source = s.source, t.sink = s.sink, t.close = s.close,
           Resends(t)
    PROVE  Core(e, t)
<1>1. Params(e, t)
  BY DEF Core, Params
<1>2. Buffers(t)
  BY DEF Core, Buffers, NoPackets, AllPackets
<1>3. Events(t) /\ Woken(t)
  BY DEF Core, Events, Woken
<1> QED
  BY <1>1, <1>2, <1>3 DEF Core

LEMMA FillCtrlKeeps ==
    ASSUME NEW e, NEW s, Core(e, s), NEW p \in Control(e)
    PROVE  LET t == FillCtrl(s, p) IN
           /\ Core(e, t)
           /\ t.link = s.link /\ t.close = s.close /\ t.alarms = s.alarms /\ t.firing = s.firing
           /\ t.txCtrl = p /\ t.txQueue # << >> /\ t.conf = s.conf /\ t.txSent = s.txSent
           /\ t.txCurrent = s.txCurrent \/ (s.txCurrent # << >> /\ t.txCurrent = <<Junk>>)
<1> DEFINE t == FillCtrl(s, p)
           c == IF s.txCurrent # << >> /\ s.txCurrent[1].type # "DATA" THEN <<Junk>>
                ELSE s.txCurrent
           q == IF s.txQueue # << >> /\ Head(s.txQueue) = CtrlRef THEN s.txQueue
                ELSE <<CtrlRef>> \o s.txQueue
<1>1. s \in Stream(e) /\ Len(s.txCurrent) <= 1 /\ CtrlFirst(s) /\ Resends(s)
  BY DEF Core
<1>a. s.txQueue \in Seq(Item) /\ s.txCurrent \in Seq(Packet(e)) /\ Len(s.txQueue) \in Nat
  BY <1>1, StreamFields
<1>2. c \in Seq(Packet(e)) /\ Len(c) <= 1
  <2>1. <<Junk>> \in Seq(Packet(e)) /\ Len(<<Junk>>) = 1
    BY PacketTypes
  <2> QED
    BY <2>1, <1>1, <1>a
<1>3. DataIn(c) = DataIn(s.txCurrent)
  <2>1. CASE s.txCurrent # << >> /\ s.txCurrent[1].type # "DATA"
    <3>1. s.txCurrent = <<s.txCurrent[1]>>
      BY <2>1, <1>1, <1>a
    <3>2. DataIn(<<s.txCurrent[1]>>) = 0
      BY <2>1, DataInOne
    <3>3. DataIn(<<Junk>>) = 0
      BY DataInOne, PacketTypes
    <3> QED
      BY <2>1, <3>1, <3>2, <3>3, Zenon
  <2>2. CASE ~(s.txCurrent # << >> /\ s.txCurrent[1].type # "DATA")
    BY <2>2, Zenon
  <2> QED
    BY <2>1, <2>2
<1>4. /\ q \in Seq(Item) /\ q # << >> /\ DataIn(q) = DataIn(s.txQueue)
      /\ \A i \in 2..Len(q) : q[i].type = "DATA"
  <2>1. CASE s.txQueue # << >> /\ Head(s.txQueue) = CtrlRef
    BY <2>1, <1>a, <1>1 DEF CtrlFirst
  <2>2. CASE ~(s.txQueue # << >> /\ Head(s.txQueue) = CtrlRef)
    <3>1. q = <<CtrlRef>> \o s.txQueue
      BY <2>2, Zenon
    <3>2. <<CtrlRef>> \in Seq(Item)
      BY PacketTypes
    <3>3. DataIn(q) = DataIn(<<CtrlRef>>) + DataIn(s.txQueue)
      BY ONLY <3>1, <3>2, <1>a, DataInConcat
    <3>4. DataIn(<<CtrlRef>>) = 0
      BY DataInOne, PacketTypes
    <3>5. DataIn(s.txQueue) \in Nat
      BY <1>a, DataInNat
    <3>6. \A i \in 1..Len(s.txQueue) : s.txQueue[i].type = "DATA"
      <4> TAKE i \in 1..Len(s.txQueue)
      <4>1. CASE i = 1
        <5>1. s.txQueue # << >> /\ Head(s.txQueue) = s.txQueue[1] /\ s.txQueue[1] \in Item
          BY <4>1, <1>a
        <5> QED
          BY <5>1, <2>2, <4>1, PacketTypes DEF Item
      <4>2. CASE i # 1
        BY <4>2, <1>1, <1>a DEF CtrlFirst
      <4> QED
        BY <4>1, <4>2
    <3>7. q \in Seq(Item) /\ q # << >> /\ Len(q) = Len(s.txQueue) + 1
          /\ \A i \in 2..Len(q) : q[i] = s.txQueue[i - 1]
      BY <3>1, <3>2, <1>a
    <3>8. \A i \in 2..Len(q) : i - 1 \in 1..Len(s.txQueue)
      BY <3>7, <1>a
    <3> HIDE DEF q
    <3> QED
      BY <3>3, <3>4, <3>5, <3>6, <3>7, <3>8, SMTT(30)
  <2> QED
    BY <2>1, <2>2
<1>5. t = [s EXCEPT !.txCtrl = p, !.txCurrent = c, !.txQueue = q]
  BY DEF FillCtrl
<1> HIDE DEF c, q, t
<1>6. /\ t \in Stream(e) /\ t.txCurrent = c /\ t.txQueue = q /\ t.txCtrl = p
      /\ t.link = s.link /\ t.win = s.win /\ t.size = s.size /\ t.ver = s.ver /\ t.conf = s.conf
      /\ t.txFree = s.txFree /\ t.rxFree = s.rxFree /\ t.rxQueue = s.rxQueue
      /\ t.txSent = s.txSent /\ t.alarms = s.alarms /\ t.firing = s.firing
      /\ t.source = s.source /\ t.sink = s.sink /\ t.close = s.close
  BY <1>1, <1>2, <1>4, <1>5 DEF Stream
<1>7. InUse(t) = InUse(s)
  BY <1>3, <1>4, <1>6 DEF InUse
<1>8. CtrlFirst(t) /\ Resends(t)
  BY <1>1, <1>4, <1>6 DEF CtrlFirst, Resends
<1>9. s.link = "INITIALIZED" => t.conf \in Proposals(e)
  BY <1>6 DEF Core, Params
<1>10. Core(e, t)
  BY <1>2, <1>6, <1>7, <1>8, <1>9, CoreTransfer
<1>11. t.txCurrent = s.txCurrent \/ (s.txCurrent # << >> /\ t.txCurrent = <<Junk>>)
  BY <1>6 DEF c
<1> QED
  BY <1>4, <1>6, <1>10, <1>11 DEF t

\* The end t is the end s later on: the link has not come back, and Close has not moved.
Goes(s, t) == t.close = s.close /\ (Down(s) => Down(t))

LEMMA ArmKeeps ==
    ASSUME NEW e, NEW s, Core(e, s), NEW a \in AlarmTypes
    PROVE  LET t == Arm(s, a) IN
           /\ Core(e, t) /\ Goes(s, t)
           /\ Answers(s) => Answers(t)
           /\ s.txCurrent = << >> /\ a = "SEND" => Scheduled(t)
           /\ Scheduled(s) => Scheduled(t)
           /\ t.link = s.link
<1> DEFINE t == Arm(s, a)
<1>1. s \in Stream(e) /\ Len(s.txCurrent) <= 1 /\ CtrlFirst(s) /\ Resends(s)
  BY DEF Core
<1>2. t = [s EXCEPT !.alarms = s.alarms \cup {a}]
  BY DEF Arm
<1> HIDE DEF t
<1>3. /\ t \in Stream(e) /\ t.txCurrent = s.txCurrent /\ t.txQueue = s.txQueue
      /\ t.txCtrl = s.txCtrl
      /\ t.link = s.link /\ t.win = s.win /\ t.size = s.size /\ t.ver = s.ver /\ t.conf = s.conf
      /\ t.txFree = s.txFree /\ t.rxFree = s.rxFree /\ t.rxQueue = s.rxQueue
      /\ t.txSent = s.txSent /\ t.alarms = s.alarms \cup {a} /\ t.firing = s.firing
      /\ t.source = s.source /\ t.sink = s.sink /\ t.close = s.close
  BY <1>1, <1>2 DEF Stream
<1>4. InUse(t) = InUse(s) /\ CtrlFirst(t) /\ Resends(t)
  BY <1>1, <1>3 DEF InUse, CtrlFirst, Resends
<1>5. s.link = "INITIALIZED" => t.conf \in Proposals(e)
  BY <1>3 DEF Core, Params
<1>6. Core(e, t)
  BY <1>1, <1>3, <1>4, <1>5, CoreTransfer
<1>7. Goes(s, t) /\ (Answers(s) => Answers(t))
  BY <1>3 DEF Goes, Answers, Down
<1>8. /\ s.txCurrent = << >> /\ a = "SEND" => Scheduled(t)
      /\ Scheduled(s) => Scheduled(t)
  BY <1>3 DEF Scheduled
<1> QED
  BY <1>3, <1>6, <1>7, <1>8 DEF t

LEMMA EnqueueKeeps ==
    ASSUME NEW e, NEW s, Core(e, s), NEW type, NEW c, Ctrl(type, c) \in Control(e),
           Ctrl(type, c).type = type
    PROVE  LET t == EnqueueCtrl(s, type, c) IN
           /\ Core(e, t) /\ Goes(s, t)
           /\ Answers(s) /\ (type = "DISCONN_RESP" => Down(s)) => Answers(t)
           /\ s.txCurrent = << >> => Scheduled(t)
           /\ t.link = s.link
<1> DEFINE p == Ctrl(type, c)
           u == FillCtrl(s, p)
<1>1. /\ Core(e, u)
      /\ u.link = s.link /\ u.close = s.close /\ u.txCtrl = p
      /\ u.txCurrent = s.txCurrent \/ (s.txCurrent # << >> /\ u.txCurrent = <<Junk>>)
  BY FillCtrlKeeps
<1>2. EnqueueCtrl(s, type, c) = Arm(u, "SEND")
  BY DEF EnqueueCtrl
<1>3. "SEND" \in AlarmTypes
  BY DEF AlarmTypes
<1> HIDE DEF u, p
<1>4. /\ Core(e, Arm(u, "SEND")) /\ Goes(u, Arm(u, "SEND"))
      /\ Answers(u) => Answers(Arm(u, "SEND"))
      /\ u.txCurrent = << >> => Scheduled(Arm(u, "SEND"))
      /\ Arm(u, "SEND").link = u.link
  BY <1>1, <1>3, ArmKeeps
<1>5. Answers(s) /\ (type = "DISCONN_RESP" => Down(s)) => Answers(u)
  BY <1>1, PacketTypes DEF Answers, Down, p
<1>6. Goes(s, Arm(u, "SEND"))
  BY <1>1, <1>4 DEF Goes, Down
<1> QED
  BY <1>1, <1>2, <1>4, <1>5, <1>6

LEMMA EnqueueStream ==
    ASSUME NEW e, NEW s, StreamOK(e, s), NEW type, NEW c, Ctrl(type, c) \in Control(e),
           Ctrl(type, c).type = type, type = "DISCONN_RESP" => Down(s)
    PROVE  /\ StreamOK(e, EnqueueCtrl(s, type, c)) /\ Goes(s, EnqueueCtrl(s, type, c))
           /\ EnqueueCtrl(s, type, c).link = s.link
<1>1. Core(e, s) /\ Answers(s) /\ (~CanBlock => s.txCurrent = << >>)
  BY DEF StreamOK, Scheduled
<1> QED
  BY <1>1, EnqueueKeeps DEF StreamOK

LEMMA ScheduleKeeps ==
    ASSUME NEW e, NEW s, StreamOK(e, s)
    PROVE  LET t == ScheduleLinkControlPacket(s) IN
           StreamOK(e, t) /\ Goes(s, t) /\ t.link = s.link
<1>1. s \in Stream(e) /\ s.link \in Links /\ (s.link = "INITIALIZED" => s.conf \in Proposals(e))
  BY StreamFields DEF StreamOK, Core, Params
<1>2. ASSUME NEW type \in {"CONN", "NEGO", "DISCONN"}, type = "NEGO" => s.conf \in Proposals(e)
      PROVE  LET t == Arm(EnqueueCtrl(s, type, s.conf), "CONTROL") IN
             StreamOK(e, t) /\ Goes(s, t) /\ t.link = s.link
  <2> DEFINE u == EnqueueCtrl(s, type, s.conf)
             t == Arm(u, "CONTROL")
  <2>1. Ctrl(type, s.conf) \in Control(e) /\ Ctrl(type, s.conf).type = type
    BY <1>2, CtrlPacket, NegoPacket
  <2>2. StreamOK(e, u) /\ Goes(s, u) /\ u.link = s.link
    BY <2>1, EnqueueStream
  <2>3. "CONTROL" \in AlarmTypes
    BY DEF AlarmTypes
  <2> HIDE DEF u
  <2>4. /\ Core(e, t) /\ Goes(u, t) /\ (Answers(u) => Answers(t))
        /\ (Scheduled(u) => Scheduled(t)) /\ t.link = u.link
    BY <2>2, <2>3, ArmKeeps DEF StreamOK
  <2> QED
    BY <2>2, <2>4 DEF StreamOK, Goes, u
<1>3. CASE s.link = "UNINITIALIZED"
  BY <1>2, <1>3 DEF ScheduleLinkControlPacket
<1>4. CASE s.link = "INITIALIZED"
  BY <1>1, <1>2, <1>4 DEF ScheduleLinkControlPacket
<1>5. CASE s.link = "DYING"
  BY <1>2, <1>5 DEF ScheduleLinkControlPacket
<1>6. CASE s.link \in {"ACTIVE", "DEAD"}
  <2>1. ScheduleLinkControlPacket(s) = s
    BY <1>6 DEF ScheduleLinkControlPacket
  <2> QED
    BY <2>1 DEF Goes
<1> QED
  BY <1>1, <1>3, <1>4, <1>5, <1>6 DEF Links

LEMMA DeadKeeps ==
    ASSUME NEW e, NEW s, Core(e, s)
    PROVE  LET t == Dead(s) IN
           /\ Core(e, t) /\ Answers(t) /\ Goes(s, t) /\ t.link = "DEAD"
           /\ Scheduled(s) => Scheduled(t)
<1> DEFINE t == Dead(s)
<1>1. s \in Stream(e) /\ Len(s.txCurrent) <= 1 /\ CtrlFirst(s)
  BY DEF Core
<1>2. t = [s EXCEPT !.link = "DEAD", !.source = TRUE, !.sink = TRUE]
  BY DEF Dead
<1> HIDE DEF t
<1>3. /\ t \in Stream(e) /\ t.txCurrent = s.txCurrent /\ t.txQueue = s.txQueue
      /\ t.link = "DEAD" /\ t.win = s.win
      /\ t.txFree = s.txFree /\ t.rxFree = s.rxFree /\ t.rxQueue = s.rxQueue
      /\ t.txSent = s.txSent /\ t.alarms = s.alarms /\ t.firing = s.firing
      /\ t.source = TRUE /\ t.sink = TRUE /\ t.close = s.close
  BY <1>1, <1>2 DEF Stream, Links
<1>4. InUse(t) = InUse(s) /\ CtrlFirst(t) /\ Resends(t)
  BY <1>1, <1>3 DEF InUse, CtrlFirst, Resends
<1>5. Params(e, t) /\ Events(t) /\ Woken(t)
  BY <1>3 DEF Params, Events, Woken
<1>6. Buffers(t)
  BY <1>3, <1>4 DEF Core, Buffers, NoPackets, AllPackets
<1> QED
  BY <1>1, <1>3, <1>4, <1>5, <1>6 DEF Core, Answers, Goes, Down, Scheduled, t

\* The loop of ProcessAckNum stops somewhere.
LEMMA AckStops ==
    ASSUME NEW s, NEW ack, NEW e, s \in Stream(e)
    PROVE  \E n \in 0..Len(s.txSent) :
               /\ \A i \in 1..n : SEQ_GT(s, ack, s.txSent[i].seq)
               /\ n < Len(s.txSent) => ~SEQ_GT(s, ack, s.txSent[n + 1].seq)
<1> DEFINE L == Len(s.txSent)
           Stop == {n \in 0..L : n = L \/ ~SEQ_GT(s, ack, s.txSent[n + 1].seq)}
<1>1. L \in Nat
  BY DataInStream
<1> HIDE DEF L
<1>2. L \in Stop /\ Stop \in SUBSET Nat
  BY <1>1
<1>3. PICK n \in Stop : \A m \in Stop : n <= m
  BY <1>2, LeastExists
<1>4. n \in 0..L /\ (n = L \/ ~SEQ_GT(s, ack, s.txSent[n + 1].seq))
  BY <1>3
<1>5. \A i \in 1..n : SEQ_GT(s, ack, s.txSent[i].seq)
  <2> TAKE i \in 1..n
  <2>1. PICK j : j = i - 1
    OBVIOUS
  <2>2. j \in 0..L /\ j # L /\ ~(n <= j) /\ j + 1 = i
    BY <1>1, <1>4, <2>1
  <2>3. j \notin Stop
    BY <1>3, <2>2
  <2> QED
    BY <2>2, <2>3
<1> HIDE DEF Stop
<1> QED
  BY <1>1, <1>4, <1>5 DEF L

LEMMA AckNumKeeps ==
    ASSUME NEW e, NEW s, Core(e, s), NEW ack
    PROVE  LET t == ProcessAckNum(s, ack) IN
           /\ Core(e, t) /\ Goes(s, t) /\ t.link = s.link
           /\ Answers(s) => Answers(t)
           /\ Scheduled(s) => Scheduled(t)
           /\ t.expectedSeq = s.expectedSeq
<1> DEFINE t == ProcessAckNum(s, ack)
<1>1. s \in Stream(e) /\ Len(s.txCurrent) <= 1 /\ CtrlFirst(s)
      /\ Params(e, s) /\ Buffers(s) /\ Events(s) /\ Woken(s) /\ Resends(s)
  BY DEF Core
<1>2. PICK k \in 0..Len(s.txSent) :
          t = [s EXCEPT !.txSent = SubSeq(s.txSent, k + 1, Len(s.txSent)),
                        !.txFree = s.txFree + k,
                        !.sink = s.sink \/ k > 0,
                        !.alarms = IF k < Len(s.txSent) THEN s.alarms \cup {"RESEND"}
                                                        ELSE s.alarms \ {"RESEND"}]
  BY <1>1, AckStops, Zenon DEF ProcessAckNum
<1> HIDE DEF t
<1>3. /\ s.txSent \in Seq(DataPacket) /\ Len(s.txSent) \in Nat /\ s.txFree \in Nat
      /\ s.alarms \in SUBSET AlarmTypes /\ s.sink \in BOOLEAN /\ InUse(s) \in Nat
      /\ s.rxQueue \in Nat /\ s.rxFree \in Nat
      /\ DataIn(s.txQueue) \in Nat /\ DataIn(s.txCurrent) \in Nat
  BY <1>1, StreamFields, DataInStream
<1>4. PICK r : r = SubSeq(s.txSent, k + 1, Len(s.txSent))
  OBVIOUS
<1>5. r \in Seq(DataPacket) /\ Len(r) = Len(s.txSent) - k
  BY <1>3, <1>4, SMTT(30)
<1>6. PICK al : al = IF k < Len(s.txSent) THEN s.alarms \cup {"RESEND"}
                                          ELSE s.alarms \ {"RESEND"}
  OBVIOUS
<1>7. al \in SUBSET AlarmTypes
  BY <1>3, <1>6 DEF AlarmTypes
<1>8. t = [s EXCEPT !.txSent = r, !.txFree = s.txFree + k, !.sink = s.sink \/ k > 0,
                    !.alarms = al]
  BY <1>2, <1>4, <1>6, Zenon
<1>9. s.txFree + k \in Nat /\ (s.sink \/ k > 0) \in BOOLEAN
  BY <1>3
<1>10. /\ t \in Stream(e) /\ t.txCurrent = s.txCurrent /\ t.txQueue = s.txQueue
       /\ t.txCtrl = s.txCtrl
       /\ t.link = s.link /\ t.win = s.win /\ t.size = s.size /\ t.ver = s.ver /\ t.conf = s.conf
       /\ t.txFree = s.txFree + k /\ t.rxFree = s.rxFree /\ t.rxQueue = s.rxQueue
       /\ t.txSent = r /\ t.alarms = al /\ t.firing = s.firing
       /\ t.source = s.source /\ t.sink = (s.sink \/ k > 0) /\ t.close = s.close
       /\ t.expectedSeq = s.expectedSeq
  BY <1>1, <1>5, <1>7, <1>8, <1>9 DEF Stream
<1>11. InUse(t) = InUse(s) - k /\ k <= InUse(s) /\ k \in Nat
  BY <1>3, <1>5, <1>10 DEF InUse
<1>12. Params(e, t) /\ CtrlFirst(t)
  BY <1>1, <1>10 DEF Params, CtrlFirst
<1>13. Buffers(t)
  <2>1. NoPackets(s) => NoPackets(t)
    BY <1>3, <1>10, <1>11 DEF NoPackets
  <2>2. AllPackets(s) => AllPackets(t)
    BY <1>1, <1>3, <1>10, <1>11, StreamFields DEF AllPackets
  <2> QED
    BY <1>1, <1>10, <2>1, <2>2 DEF Buffers
<1>14. Events(t) /\ Woken(t)
  <2>1. s.txFree + k > 0 => s.txFree > 0 \/ k > 0
    BY <1>3
  <2>2. s.sink \/ k > 0 => t.sink
    BY <1>10, Zenon
  <2> QED
    BY <1>1, <1>10, <2>1, <2>2, Zenon DEF Events, Woken
<1>15. Resends(t)
  <2>1. r # << >> => k < Len(s.txSent)
    BY <1>3, <1>5
  <2> QED
    BY <1>6, <1>10, <2>1 DEF Resends
<1>16. Core(e, t)
  BY <1>1, <1>10, <1>12, <1>13, <1>14, <1>15 DEF Core
<1>17. (Answers(s) => Answers(t)) /\ Goes(s, t)
  BY <1>10 DEF Answers, Goes, Down
<1>18. Scheduled(s) => Scheduled(t)
  BY <1>6, <1>10 DEF Scheduled
<1> QED
  BY <1>10, <1>16, <1>17, <1>18 DEF t

LEMMA DataSeqNumKeeps ==
    ASSUME NEW e, NEW s, Core(e, s), NEW seq \in 0..7
    PROVE  LET t == ProcessDataSeqNum(s, seq) IN
           /\ Core(e, t) /\ Goes(s, t) /\ t.link = s.link
           /\ Answers(s) => Answers(t)
           /\ Scheduled(s) => Scheduled(t)
<1> DEFINE t == ProcessDataSeqNum(s, seq)
           n == IF SEQ_GT(s, s.currentTxAck, seq) THEN s.currentTxAck ELSE (seq + 1) % 8
<1>1. s \in Stream(e) /\ Len(s.txCurrent) <= 1 /\ CtrlFirst(s) /\ Resends(s)
  BY DEF Core
<1>a. n \in 0..7
  <2>1. s.currentTxAck \in 0..7
    BY <1>1, StreamFields
  <2>2. (seq + 1) % 8 \in 0..7
    OBVIOUS
  <2> QED
    BY <2>1, <2>2, Zenon
<1>2. t = [s EXCEPT !.currentTxAck = n, !.pendingAcks = TRUE, !.alarms = s.alarms \cup {"ACK"}]
  BY DEF ProcessDataSeqNum
<1> HIDE DEF t, n
<1>3. /\ t \in Stream(e) /\ t.txCurrent = s.txCurrent /\ t.txQueue = s.txQueue
      /\ t.txCtrl = s.txCtrl
      /\ t.link = s.link /\ t.win = s.win /\ t.size = s.size /\ t.ver = s.ver /\ t.conf = s.conf
      /\ t.txFree = s.txFree /\ t.rxFree = s.rxFree /\ t.rxQueue = s.rxQueue
      /\ t.txSent = s.txSent /\ t.alarms = s.alarms \cup {"ACK"} /\ t.firing = s.firing
      /\ t.source = s.source /\ t.sink = s.sink /\ t.close = s.close
  BY <1>1, <1>2, <1>a DEF Stream, AlarmTypes
<1>4. InUse(t) = InUse(s) /\ CtrlFirst(t) /\ Resends(t)
  BY <1>1, <1>3 DEF InUse, CtrlFirst, Resends
<1>5. s.link = "INITIALIZED" => t.conf \in Proposals(e)
  BY <1>3 DEF Core, Params
<1>6. Core(e, t)
  BY <1>1, <1>3, <1>4, <1>5, CoreTransfer
<1>7. Goes(s, t) /\ (Answers(s) => Answers(t)) /\ (Scheduled(s) => Scheduled(t))
  BY <1>3 DEF Goes, Answers, Down, Scheduled
<1> QED
  BY <1>3, <1>6, <1>7 DEF t

\* A packet is put on m_rxQueue.
LEMMA TakeKeeps ==
    ASSUME NEW e, NEW s, Core(e, s), s.rxFree > 0
    PROVE  LET t == [s EXCEPT !.expectedSeq = (@ + 1) % 8, !.rxQueue = @ + 1, !.rxFree = @ - 1,
                              !.source = TRUE] IN
           /\ Core(e, t) /\ Goes(s, t) /\ t.link = s.link
           /\ Answers(s) => Answers(t)
           /\ Scheduled(s) => Scheduled(t)
<1> DEFINE t == [s EXCEPT !.expectedSeq = (s.expectedSeq + 1) % 8, !.rxQueue = s.rxQueue + 1,
                          !.rxFree = s.rxFree - 1, !.source = TRUE]
<1>1. s \in Stream(e) /\ Len(s.txCurrent) <= 1 /\ CtrlFirst(s)
      /\ Params(e, s) /\ Buffers(s) /\ Events(s) /\ Woken(s) /\ Resends(s)
  BY DEF Core
<1>2. s.rxQueue \in Nat /\ s.rxFree \in Nat /\ s.expectedSeq \in 0..7 /\ s.win \in {1, 2, 4}
  BY <1>1, StreamFields
<1>3. s.rxQueue + 1 \in Nat /\ s.rxFree - 1 \in Nat /\ (s.expectedSeq + 1) % 8 \in 0..7
  BY <1>2
<1>4. /\ t \in Stream(e) /\ t.txCurrent = s.txCurrent /\ t.txQueue = s.txQueue
      /\ t.txCtrl = s.txCtrl
      /\ t.link = s.link /\ t.win = s.win /\ t.size = s.size /\ t.ver = s.ver /\ t.conf = s.conf
      /\ t.txFree = s.txFree /\ t.rxFree = s.rxFree - 1 /\ t.rxQueue = s.rxQueue + 1
      /\ t.txSent = s.txSent /\ t.alarms = s.alarms /\ t.firing = s.firing
      /\ t.source = TRUE /\ t.sink = s.sink /\ t.close = s.close
  BY <1>1, <1>3 DEF Stream
<1> HIDE DEF t
<1>5. InUse(t) = InUse(s) /\ CtrlFirst(t) /\ Resends(t)
  BY <1>1, <1>4 DEF InUse, CtrlFirst, Resends
<1>6. Params(e, t)
  BY <1>1, <1>4 DEF Params
<1>7. Buffers(t)
  <2>1. ~NoPackets(s)
    BY <1>2 DEF NoPackets
  <2>2. AllPackets(s) => AllPackets(t)
    BY <1>2, <1>4, <1>5 DEF AllPackets
  <2> QED
    BY <1>1, <1>4, <2>1, <2>2 DEF Buffers
<1>8. Events(t) /\ Woken(t)
  BY <1>1, <1>4 DEF Events, Woken
<1>9. Core(e, t)
  BY <1>1, <1>4, <1>5, <1>6, <1>7, <1>8 DEF Core
<1>10. Goes(s, t) /\ (Answers(s) => Answers(t)) /\ (Scheduled(s) => Scheduled(t))
  BY <1>4 DEF Goes, Answers, Down, Scheduled
<1> QED
  BY <1>4, <1>9, <1>10 DEF t

LEMMA DataKeeps ==
    ASSUME NEW e, NEW s, StreamOK(e, s), NEW p \in DataPacket
    PROVE  StreamOK(e, ProcessData(s, p)) /\ Goes(s, ProcessData(s, p))
           /\ ProcessData(s, p).link = s.link
<1> DEFINE u == ProcessAckNum(s, p.ack)
           v == [u EXCEPT !.expectedSeq = (@ + 1) % 8, !.rxQueue = @ + 1, !.rxFree = @ - 1,
                          !.source = TRUE]
<1>1. p.seq \in 0..7 /\ Core(e, s)
  BY PacketTypes DEF StreamOK
<1>2. Core(e, u) /\ Goes(s, u) /\ (Answers(s) => Answers(u)) /\ (Scheduled(s) => Scheduled(u))
      /\ u.link = s.link
  BY <1>1, AckNumKeeps
<1> HIDE DEF u
<1>3. CASE p.seq = u.expectedSeq /\ u.rxFree > 0
  <2>1. ProcessData(s, p) = ProcessDataSeqNum(v, p.seq)
    BY <1>3 DEF ProcessData, u
  <2>2. Core(e, v) /\ Goes(u, v) /\ (Answers(u) => Answers(v)) /\ (Scheduled(u) => Scheduled(v))
        /\ v.link = u.link
    BY <1>2, <1>3, TakeKeeps
  <2> HIDE DEF v
  <2>3. PICK t : t = ProcessDataSeqNum(v, p.seq)
    OBVIOUS
  <2>4. Core(e, t) /\ Goes(v, t) /\ (Answers(v) => Answers(t)) /\ (Scheduled(v) => Scheduled(t))
        /\ t.link = v.link
    BY <2>2, <2>3, <1>1, DataSeqNumKeeps
  <2> QED
    BY <1>2, <2>1, <2>2, <2>3, <2>4 DEF StreamOK, Goes
<1>4. CASE p.seq # u.expectedSeq /\ ~SEQ_GT(u, p.seq, u.expectedSeq)
  <2>1. ProcessData(s, p) = ProcessDataSeqNum(u, p.seq)
    BY <1>4 DEF ProcessData, u
  <2>3. PICK t : t = ProcessDataSeqNum(u, p.seq)
    OBVIOUS
  <2>4. Core(e, t) /\ Goes(u, t) /\ (Answers(u) => Answers(t)) /\ (Scheduled(u) => Scheduled(t))
        /\ t.link = u.link
    BY <1>2, <2>3, <1>1, DataSeqNumKeeps
  <2> QED
    BY <1>2, <2>1, <2>3, <2>4 DEF StreamOK, Goes
<1>5. CASE /\ ~(p.seq = u.expectedSeq /\ u.rxFree > 0)
           /\ ~(p.seq # u.expectedSeq /\ ~SEQ_GT(u, p.seq, u.expectedSeq))
  <2>1. ProcessData(s, p) = u
    BY <1>5 DEF ProcessData, u
  <2> QED
    BY <1>2, <2>1 DEF StreamOK
<1> QED
  BY <1>3, <1>4, <1>5

LEMMA ConfigureKeeps ==
    ASSUME NEW e \in End, NEW s, StreamOK(e, s), s.link = "INITIALIZED"
    PROVE  LET t == Configure(s, e, AgreedConf) IN
           StreamOK(e, t) /\ Goes(s, t) /\ t.link = "ACTIVE"
<1> DEFINE t == Configure(s, e, AgreedConf)
           w == AgreedConf.win
<1>1. s \in Stream(e) /\ Len(s.txCurrent) <= 1 /\ CtrlFirst(s)
      /\ Params(e, s) /\ Buffers(s) /\ Events(s) /\ Woken(s) /\ Resends(s)
  BY DEF StreamOK, Core
<1>2. /\ w \in {1, 2, 4} /\ AgreedConf.size \in Nat /\ AgreedConf.ver = 1
      /\ ~(AgreedConf.size > MaxPacket[e] \/ w > MaxWindow[e])
  BY ConfFacts
<1>3. s.txFree = 0 /\ s.rxFree = 0 /\ s.rxQueue = 0 /\ InUse(s) = 0
  BY <1>1 DEF Buffers, NoPackets
<1>4. t = [s EXCEPT !.size = AgreedConf.size, !.win = w, !.ver = AgreedConf.ver,
                    !.txFree = s.txFree + w, !.rxFree = s.rxFree + w,
                    !.link = "ACTIVE", !.sink = TRUE]
  BY <1>1, <1>2 DEF Configure, Stream
<1> HIDE DEF t, w
<1>5. s.txFree + w = w /\ s.rxFree + w = w /\ w \in Nat
  BY <1>2, <1>3
<1>6. /\ t \in Stream(e) /\ t.txCurrent = s.txCurrent /\ t.txQueue = s.txQueue
      /\ t.txCtrl = s.txCtrl
      /\ t.link = "ACTIVE" /\ t.win = w /\ t.size = AgreedConf.size /\ t.ver = AgreedConf.ver
      /\ t.txFree = w /\ t.rxFree = w /\ t.rxQueue = s.rxQueue
      /\ t.txSent = s.txSent /\ t.alarms = s.alarms /\ t.firing = s.firing
      /\ t.source = s.source /\ t.sink = TRUE /\ t.close = s.close
  BY <1>1, <1>2, <1>4, <1>5, ZenonT(60) DEF Stream, Links
<1>7. InUse(t) = 0 /\ CtrlFirst(t)
  BY <1>1, <1>3, <1>6 DEF InUse, CtrlFirst
<1>8. Len(s.txSent) = 0 /\ s.txSent = << >>
  <2>1. Len(s.txSent) = 0
    BY <1>1, <1>3, DataInStream DEF InUse
  <2> QED
    BY <2>1, <1>1, StreamFields, EmptySeq
<1>9. Params(e, t) /\ Woken(t) /\ Resends(t)
  BY <1>6, <1>8 DEF Params, Woken, Resends, w
<1>10. Buffers(t)
  BY <1>3, <1>5, <1>6, <1>7 DEF Buffers, AllPackets
<1>11. Events(t)
  BY <1>3, <1>6 DEF Events
<1>12. Core(e, t)
  BY <1>1, <1>6, <1>7, <1>9, <1>10, <1>11 DEF Core
<1>13. Answers(t) /\ Goes(s, t) /\ (~CanBlock => Scheduled(t))
  BY <1>6 DEF StreamOK, Answers, Goes, Down, Scheduled
<1> QED
  BY <1>6, <1>12, <1>13 DEF StreamOK, t

\* Whatever the other end proposes, an end settles on what was agreed.
AgreedAs(s) == [s EXCEPT !.size = AgreedConf.size, !.win = AgreedConf.win,
                         !.ver = AgreedConf.ver, !.conf = AgreedConf]

LEMMA AgreeIs ==
    ASSUME NEW e \in End, NEW s, StreamOK(e, s), s.link = "INITIALIZED",
           NEW c \in Proposals(Peer(e)), NEW u, u = AgreedAs(s)
    PROVE  /\ Agree(s, e, c) = EnqueueCtrl(u, "NEGO_RESP", AgreedConf)
           /\ StreamOK(e, u) /\ Goes(s, u) /\ u.link = "INITIALIZED"
<1> DEFINE agreed == [size |-> IF c.size < MaxPacket[e] THEN c.size ELSE s.size,
                      win  |-> SmallerOf(c.win, MaxWindow[e]),
                      ver  |-> SmallerOf(c.ver, PROTOCOL_VERSION)]
<1>1. s \in Stream(e) /\ Len(s.txCurrent) <= 1 /\ CtrlFirst(s)
      /\ Params(e, s) /\ Buffers(s) /\ Events(s) /\ Woken(s) /\ Resends(s)
  BY DEF StreamOK, Core
<1>2. agreed = AgreedConf
  <2>1. s.size \in {MaxPacket[e], AgreedConf.size}
    BY <1>1 DEF Params
  <2>2. /\ c.size \in {MaxPacket[Peer(e)], AgreedConf.size} /\ c.ver = 1
        /\ c.win \in {MaxWindow[Peer(e)], AgreedConf.win}
    BY ConfFacts DEF Proposals, Own, PROTOCOL_VERSION
  <2>3. Peer(e) \in End
    BY PeerFacts
  <2>4. agreed.size = AgreedConf.size
    BY <2>1, <2>2, <2>3, ConfFacts DEF SmallerOf
  <2>5. agreed.win = AgreedConf.win
    BY <2>2, <2>3, ConfFacts DEF SmallerOf
  <2>6. agreed.ver = AgreedConf.ver
    BY <2>2, ConfFacts DEF SmallerOf, PROTOCOL_VERSION
  <2>7. /\ agreed = [size |-> agreed.size, win |-> agreed.win, ver |-> agreed.ver]
        /\ AgreedConf = [size |-> AgreedConf.size, win |-> AgreedConf.win, ver |-> AgreedConf.ver]
    BY DEF AgreedConf
  <2> HIDE DEF agreed
  <2> QED
    BY <2>4, <2>5, <2>6, <2>7, Zenon
<1>3. Agree(s, e, c) = EnqueueCtrl(u, "NEGO_RESP", AgreedConf)
  <2>1. Agree(s, e, c) = EnqueueCtrl([s EXCEPT !.size = agreed.size, !.win = agreed.win,
                                         !.ver = agreed.ver, !.conf = agreed],
                                     "NEGO_RESP", agreed)
    BY DEF Agree
  <2> HIDE DEF agreed
  <2> QED
    BY <1>2, <2>1 DEF AgreedAs
<1>4. /\ u \in Stream(e) /\ u.txCurrent = s.txCurrent /\ u.txQueue = s.txQueue
      /\ u.txCtrl = s.txCtrl
      /\ u.link = s.link /\ u.size = AgreedConf.size /\ u.conf = AgreedConf
      /\ u.txFree = s.txFree /\ u.rxFree = s.rxFree /\ u.rxQueue = s.rxQueue
      /\ u.txSent = s.txSent /\ u.alarms = s.alarms /\ u.firing = s.firing
      /\ u.source = s.source /\ u.sink = s.sink /\ u.close = s.close
  <2>1. /\ AgreedConf \in Proposals(e) /\ AgreedConf.win \in {1, 2, 4} /\ AgreedConf.size \in Nat
        /\ AgreedConf.ver \in {0, 1, Garbage}
    BY ConfFacts DEF Proposals
  <2> QED
    BY <1>1, <2>1 DEF AgreedAs, Stream
<1> HIDE DEF agreed
<1>5. InUse(u) = InUse(s) /\ CtrlFirst(u) /\ Resends(u)
  BY <1>1, <1>4 DEF InUse, CtrlFirst, Resends
<1>6. Params(e, u)
  BY <1>4 DEF Params, Proposals
<1>7. Buffers(u) /\ Events(u) /\ Woken(u)
  BY <1>1, <1>4, <1>5 DEF Buffers, NoPackets, Events, Woken
<1>8. StreamOK(e, u) /\ Goes(s, u) /\ u.link = "INITIALIZED"
  BY <1>1, <1>4, <1>5, <1>6, <1>7 DEF StreamOK, Core, Answers, Scheduled, Goes, Down
<1> QED
  BY <1>3, <1>8

LEMMA AgreeKeeps ==
    ASSUME NEW e \in End, NEW s, StreamOK(e, s), s.link = "INITIALIZED",
           NEW c \in Proposals(Peer(e))
    PROVE  LET t == Agree(s, e, c) IN
           StreamOK(e, t) /\ Goes(s, t) /\ t.link = "INITIALIZED"
<1>1. PICK u : u = AgreedAs(s)
  OBVIOUS
<1>2. /\ Agree(s, e, c) = EnqueueCtrl(u, "NEGO_RESP", AgreedConf)
      /\ StreamOK(e, u) /\ Goes(s, u) /\ u.link = "INITIALIZED"
  BY <1>1, AgreeIs
<1>3. Ctrl("NEGO_RESP", AgreedConf) \in Control(e)
      /\ Ctrl("NEGO_RESP", AgreedConf).type = "NEGO_RESP"
  BY NegoRespPacket
<1>4. PICK t : t = EnqueueCtrl(u, "NEGO_RESP", AgreedConf)
  OBVIOUS
<1>5. StreamOK(e, t) /\ Goes(u, t) /\ t.link = u.link
  BY <1>2, <1>3, <1>4, EnqueueStream
<1> QED
  BY <1>2, <1>4, <1>5 DEF Goes

\* An end that comes up answers a NEGO with what was agreed.
LEMMA NegoAgainKeeps ==
    ASSUME NEW e \in End, NEW s, StreamOK(e, s), s.link = "ACTIVE"
    PROVE  LET now == [win |-> s.win, size |-> s.size, ver |-> s.ver]
               t == EnqueueCtrl([s EXCEPT !.conf = now], "NEGO_RESP", now) IN
           StreamOK(e, t) /\ Goes(s, t) /\ t.link = "ACTIVE"
<1> DEFINE now == [win |-> s.win, size |-> s.size, ver |-> s.ver]
           u == [s EXCEPT !.conf = AgreedConf]
<1>1. Core(e, s) /\ s \in Stream(e) /\ Len(s.txCurrent) <= 1 /\ CtrlFirst(s)
      /\ Params(e, s) /\ Resends(s)
  BY DEF StreamOK, Core
<1>2. now = AgreedConf
  <2>1. s.win = AgreedConf.win /\ s.size = AgreedConf.size /\ s.ver = AgreedConf.ver
    BY <1>1 DEF Params
  <2>2. AgreedConf = [win |-> AgreedConf.win, size |-> AgreedConf.size, ver |-> AgreedConf.ver]
    BY DEF AgreedConf
  <2> QED
    BY <2>1, <2>2
<1>4. /\ u \in Stream(e) /\ u.txCurrent = s.txCurrent /\ u.txQueue = s.txQueue
      /\ u.txCtrl = s.txCtrl
      /\ u.link = s.link /\ u.win = s.win /\ u.size = s.size /\ u.ver = s.ver
      /\ u.txFree = s.txFree /\ u.rxFree = s.rxFree /\ u.rxQueue = s.rxQueue
      /\ u.txSent = s.txSent /\ u.alarms = s.alarms /\ u.firing = s.firing
      /\ u.source = s.source /\ u.sink = s.sink /\ u.close = s.close
  BY <1>1 DEF Stream, Proposals
<1> HIDE DEF u
<1>5. InUse(u) = InUse(s) /\ CtrlFirst(u) /\ Resends(u)
  BY <1>1, <1>4 DEF InUse, CtrlFirst, Resends
<1>6. Core(e, u)
  BY <1>1, <1>4, <1>5, CoreTransfer
<1>7. StreamOK(e, u) /\ Goes(s, u) /\ u.link = "ACTIVE"
  BY <1>4, <1>6 DEF StreamOK, Answers, Scheduled, Goes, Down
<1>8. Ctrl("NEGO_RESP", AgreedConf) \in Control(e)
      /\ Ctrl("NEGO_RESP", AgreedConf).type = "NEGO_RESP"
  BY NegoRespPacket
<1>10. PICK t : t = EnqueueCtrl(u, "NEGO_RESP", AgreedConf)
  OBVIOUS
<1>11. StreamOK(e, t) /\ Goes(u, t) /\ t.link = u.link
  BY <1>7, <1>8, <1>10, EnqueueStream
<1> QED
  BY <1>2, <1>7, <1>10, <1>11 DEF Goes, u

\* ACCEPT: the end proposes its own parameters.
LEMMA AcceptKeeps ==
    ASSUME NEW e \in End, NEW s, StreamOK(e, s), s.link = "UNINITIALIZED"
    PROVE  LET t == EnqueueCtrl([s EXCEPT !.link = "INITIALIZED", !.conf = Own(e)],
                                "NEGO", Own(e)) IN
           StreamOK(e, t) /\ Goes(s, t) /\ t.link = "INITIALIZED"
<1> DEFINE u == [s EXCEPT !.link = "INITIALIZED", !.conf = Own(e)]
<1>1. s \in Stream(e) /\ Len(s.txCurrent) <= 1 /\ CtrlFirst(s)
      /\ Params(e, s) /\ Buffers(s) /\ Events(s) /\ Woken(s) /\ Resends(s)
  BY DEF StreamOK, Core
<1>2. Own(e) \in Proposals(e)
  BY DEF Proposals
<1>4. /\ u \in Stream(e) /\ u.txCurrent = s.txCurrent /\ u.txQueue = s.txQueue
      /\ u.txCtrl = s.txCtrl
      /\ u.link = "INITIALIZED" /\ u.size = s.size /\ u.conf = Own(e)
      /\ u.txFree = s.txFree /\ u.rxFree = s.rxFree /\ u.rxQueue = s.rxQueue
      /\ u.txSent = s.txSent /\ u.alarms = s.alarms /\ u.firing = s.firing
      /\ u.source = s.source /\ u.sink = s.sink /\ u.close = s.close
  BY <1>1, <1>2 DEF Stream, Links
<1> HIDE DEF u
<1>5. InUse(u) = InUse(s) /\ CtrlFirst(u) /\ Resends(u)
  BY <1>1, <1>4 DEF InUse, CtrlFirst, Resends
<1>6. Params(e, u)
  BY <1>1, <1>2, <1>4 DEF Params
<1>7. Buffers(u) /\ Events(u) /\ Woken(u)
  BY <1>1, <1>4, <1>5 DEF Buffers, NoPackets, Events, Woken
<1>8. StreamOK(e, u) /\ Goes(s, u) /\ u.link = "INITIALIZED"
  BY <1>1, <1>4, <1>5, <1>6, <1>7 DEF StreamOK, Core, Answers, Scheduled, Goes, Down
<1>9. Ctrl("NEGO", Own(e)) \in Control(e) /\ Ctrl("NEGO", Own(e)).type = "NEGO"
  BY <1>2, NegoPacket
<1>10. PICK t : t = EnqueueCtrl(u, "NEGO", Own(e))
  OBVIOUS
<1>11. StreamOK(e, t) /\ Goes(u, t) /\ t.link = u.link
  BY <1>8, <1>9, <1>10, EnqueueStream
<1> QED
  BY <1>8, <1>10, <1>11 DEF Goes, u

\* What a control packet does to an end; only the answer to DISCONN ends the
\* wait of Close.
LEMMA ControlKeeps ==
    ASSUME NEW e \in End, NEW s, StreamOK(e, s), NEW p \in Packet(Peer(e)),
           p.type \notin {"DATA", "ACK"}
    PROVE  LET t == ProcessControlPacket(s, e, p) IN
           /\ StreamOK(e, t) /\ Goes(s, t)
           /\ s.close = "closing" /\ t.link = "DEAD" =>
                  s.link = "DEAD" \/ p.type = "DISCONN_RESP"
<1> DEFINE t == ProcessControlPacket(s, e, p)
           is(link, type) == s.link = link /\ p.type = type
           now == [win |-> s.win, size |-> s.size, ver |-> s.ver]
<1>1. s.link \in Links /\ Core(e, s) /\ (s.close = "closing" => Down(s))
  BY StreamFields DEF StreamOK, Core, Answers
<1>2. CASE is("UNINITIALIZED", "CONN") \/ is("INITIALIZED", "CONN")
  <2>1. t = EnqueueCtrl(s, "ACCEPT", NoConf)
    BY <1>2 DEF ProcessControlPacket
  <2>2. StreamOK(e, t) /\ Goes(s, t) /\ t.link = s.link
    BY <2>1, CtrlPacket, EnqueueStream
  <2> QED
    BY <2>2
<1>3. CASE is("UNINITIALIZED", "ACCEPT")
  <2>1. t = EnqueueCtrl([s EXCEPT !.link = "INITIALIZED", !.conf = Own(e)], "NEGO", Own(e))
    BY <1>3 DEF ProcessControlPacket, Own
  <2>2. PICK u : u = EnqueueCtrl([s EXCEPT !.link = "INITIALIZED", !.conf = Own(e)],
                                 "NEGO", Own(e))
    OBVIOUS
  <2>3. StreamOK(e, u) /\ Goes(s, u) /\ u.link = "INITIALIZED"
    BY <1>3, <2>2, AcceptKeeps, Zenon
  <2> QED
    BY <2>1, <2>2, <2>3
<1>4. CASE is("INITIALIZED", "NEGO_RESP")
  <2>1. t = Configure(s, e, p.conf)
    BY <1>4 DEF ProcessControlPacket
  <2>2. p.conf = AgreedConf
    BY <1>4 DEF Packet, Control, DataPacket
  <2>3. StreamOK(e, t) /\ Goes(s, t) /\ t.link = "ACTIVE"
    BY <1>4, <2>1, <2>2, ConfigureKeeps
  <2> QED
    BY <2>3
<1>5. CASE is("INITIALIZED", "NEGO")
  <2>1. t = Agree(s, e, p.conf)
    BY <1>5 DEF ProcessControlPacket
  <2>2. p.conf \in Proposals(Peer(e))
    BY <1>5 DEF Packet, Control, DataPacket
  <2>3. StreamOK(e, t) /\ Goes(s, t) /\ t.link = "INITIALIZED"
    BY <1>5, <2>1, <2>2, AgreeKeeps
  <2> QED
    BY <2>3
<1>6. CASE is("ACTIVE", "NEGO")
  <2>1. t = EnqueueCtrl([s EXCEPT !.conf = now], "NEGO_RESP", now)
    BY <1>6 DEF ProcessControlPacket
  <2>2. StreamOK(e, t) /\ Goes(s, t) /\ t.link = "ACTIVE"
    BY <1>6, <2>1, NegoAgainKeeps
  <2> QED
    BY <2>2
<1>7. CASE is("ACTIVE", "CONN")
  <2>1. t = Dead(s)
    BY <1>7 DEF ProcessControlPacket
  <2>2. StreamOK(e, t) /\ Goes(s, t)
    BY <1>1, <2>1, DeadKeeps DEF StreamOK
  <2> QED
    BY <1>1, <1>7, <2>2 DEF Down
<1>8. CASE is("ACTIVE", "DISCONN")
  <2>1. PICK u : u = EnqueueCtrl(s, "DISCONN_RESP", NoConf)
    OBVIOUS
  <2>2. t = Dead(u)
    BY <1>8, <2>1 DEF ProcessControlPacket
  <2>3. Core(e, u) /\ Goes(s, u) /\ (~CanBlock => Scheduled(u))
    <3>1. Ctrl("DISCONN_RESP", NoConf) \in Control(e)
          /\ Ctrl("DISCONN_RESP", NoConf).type = "DISCONN_RESP"
      BY CtrlPacket
    <3>2. ~CanBlock => s.txCurrent = << >>
      BY DEF StreamOK, Scheduled
    <3> QED
      BY <1>1, <2>1, <3>1, <3>2, EnqueueKeeps
  <2>4. StreamOK(e, t) /\ Goes(u, t)
    BY <2>2, <2>3, DeadKeeps DEF StreamOK
  <2> QED
    BY <1>1, <1>8, <2>3, <2>4 DEF Down, Goes
<1>9. CASE is("DYING", "DISCONN_RESP")
  <2>1. t = Dead(s)
    BY <1>9 DEF ProcessControlPacket
  <2>2. StreamOK(e, t) /\ Goes(s, t)
    BY <1>1, <2>1, DeadKeeps DEF StreamOK
  <2> QED
    BY <1>9, <2>2
<1>10. CASE is("DYING", "DISCONN")
  <2>1. t = EnqueueCtrl(s, "DISCONN_RESP", NoConf)
    BY <1>10 DEF ProcessControlPacket
  <2>2. StreamOK(e, t) /\ Goes(s, t) /\ t.link = s.link
    BY <1>10, <2>1, CtrlPacket, EnqueueStream DEF Down
  <2> QED
    BY <2>2
<1>11. CASE ~ \/ is("UNINITIALIZED", "CONN") \/ is("INITIALIZED", "CONN")
              \/ is("UNINITIALIZED", "ACCEPT") \/ is("INITIALIZED", "NEGO_RESP")
              \/ is("INITIALIZED", "NEGO") \/ is("ACTIVE", "NEGO") \/ is("ACTIVE", "CONN")
              \/ is("ACTIVE", "DISCONN") \/ is("DYING", "DISCONN_RESP") \/ is("DYING", "DISCONN")
  <2>1. t = s
    BY <1>11 DEF ProcessControlPacket
  <2> QED
    BY <2>1 DEF Goes
<1> QED
  BY <1>2, <1>3, <1>4, <1>5, <1>6, <1>7, <1>8, <1>9, <1>10, <1>11

-----------------------------------------------------------------------------
(* TransmitToLink.                                                         *)

LEMMA StampFacts ==
    ASSUME NEW e, NEW s \in Stream(e), NEW x \in Item
    PROVE  /\ Stamp(s, x) \in Packet(e)
           /\ Stamp(s, x).type = "DATA" <=> x.type = "DATA"
           /\ Stamp(s, x).type = "DISCONN_RESP" => s.txCtrl.type = "DISCONN_RESP"
<1>1. s.txCtrl \in Control(e) /\ s.currentTxAck \in 0..7
  BY StreamFields
<1>2. CASE x = CtrlRef
  <2>1. s.txCtrl.type # "DATA" /\ x.type # "DATA"
    BY <1>1, <1>2, PacketTypes
  <2>2. CASE s.txCtrl.type = "ACK"
    <3>1. s.txCtrl \in [type : {"ACK"}, ack : 0..7]
      BY <1>1, <2>2 DEF Control
    <3>2. Stamp(s, x) = [s.txCtrl EXCEPT !.ack = s.currentTxAck]
      BY <1>2, <2>2 DEF Stamp
    <3>3. Stamp(s, x) \in [type : {"ACK"}, ack : 0..7] /\ Stamp(s, x).type = "ACK"
      BY <1>1, <3>1, <3>2
    <3> QED
      BY <2>1, <3>3 DEF Packet, Control
  <2>3. CASE s.txCtrl.type # "ACK"
    <3>1. Stamp(s, x) = s.txCtrl
      BY <1>2, <2>1, <2>3 DEF Stamp
    <3> QED
      BY <1>1, <2>1, <3>1 DEF Packet
  <2> QED
    BY <2>2, <2>3
<1>3. CASE x # CtrlRef
  <2>1. x \in DataPacket /\ x.type = "DATA"
    BY <1>3, PacketTypes DEF Item
  <2>2. Stamp(s, x) = [x EXCEPT !.ack = s.currentTxAck]
    BY <1>3, <2>1 DEF Stamp
  <2>3. Stamp(s, x) \in DataPacket /\ Stamp(s, x).type = "DATA"
    BY <1>1, <2>1, <2>2 DEF DataPacket
  <2> QED
    BY <2>1, <2>3 DEF Packet
<1> QED
  BY <1>2, <1>3

LEMMA TransmitList ==
    ASSUME NEW e, NEW s \in Stream(e), s.txQueue # << >>
    PROVE  LET all == ToTransmit(s)
               n == Len(s.txCurrent) IN
           /\ all \in Seq(Packet(e)) /\ Len(all) = n + Len(s.txQueue) /\ all # << >>
           /\ n \in Nat /\ Len(s.txQueue) \in Nat /\ Len(s.txQueue) > 0
           /\ \A i \in 1..n : all[i] = s.txCurrent[i]
           /\ \A i \in 1..Len(s.txQueue) : all[n + i] = Stamp(s, s.txQueue[i])
           /\ DataIn(all) = DataIn(s.txCurrent) + DataIn(s.txQueue)
<1> DEFINE all == ToTransmit(s)
           L == Len(s.txQueue)
           q == [i \in 1..L |-> Stamp(s, s.txQueue[i])]
           U == Packet(e) \cup Item
<1>1. s.txQueue \in Seq(Item) /\ s.txCurrent \in Seq(Packet(e)) /\ L \in Nat /\ L > 0
  <2>1. s.txQueue \in Seq(Item) /\ s.txCurrent \in Seq(Packet(e))
    BY StreamFields
  <2> QED
    BY <2>1, EmptySeq
<1>2. \A i \in 1..L : s.txQueue[i] \in Item
  BY <1>1
<1>3. \A i \in 1..L : Stamp(s, s.txQueue[i]) \in Packet(e)
  BY <1>2, StampFacts
<1>4. q \in Seq(Packet(e)) /\ Len(q) = L /\ \A i \in 1..L : q[i] = Stamp(s, s.txQueue[i])
  BY <1>1, <1>3
<1>5. all = s.txCurrent \o q
  BY DEF ToTransmit
<1>6. DataIn(q) = DataIn(s.txQueue)
  <2>1. q \in Seq(U) /\ s.txQueue \in Seq(U)
    BY <1>1, <1>4
  <2>2. \A i \in 1..Len(q) : q[i].type = "DATA" <=> s.txQueue[i].type = "DATA"
    BY <1>2, <1>4, StampFacts
  <2> HIDE DEF q, U
  <2> QED
    BY <2>1, <2>2, <1>4, DataInSame
<1> HIDE DEF q, all
<1>7. DataIn(all) = DataIn(s.txCurrent) + DataIn(q)
  BY ONLY <1>1, <1>4, <1>5, DataInConcat
<1>8. /\ all \in Seq(Packet(e)) /\ Len(all) = Len(s.txCurrent) + L /\ all # << >>
      /\ \A i \in 1..Len(s.txCurrent) : all[i] = s.txCurrent[i]
      /\ \A i \in 1..L : all[Len(s.txCurrent) + i] = q[i]
  <2>1. PICK c : c = s.txCurrent
    OBVIOUS
  <2>2. c \in Seq(Packet(e)) /\ Len(c) \in Nat /\ all = c \o q
    BY <1>1, <1>5, <2>1
  <2>3. /\ c \o q \in Seq(Packet(e)) /\ Len(c \o q) = Len(c) + Len(q)
        /\ \A i \in 1..Len(c) + Len(q) : (c \o q)[i] = IF i <= Len(c) THEN c[i] ELSE q[i - Len(c)]
    BY ONLY <2>2, <1>4, ConcatProperties, ZenonT(60)
  <2>4. \A i \in 1..Len(c) : all[i] = c[i]
    BY <2>2, <2>3, <1>1, <1>4
  <2>5. \A i \in 1..L : all[Len(c) + i] = q[i]
    <3> TAKE i \in 1..L
    <3>1. Len(c) + i \in 1..Len(c) + Len(q) /\ ~(Len(c) + i <= Len(c)) /\ Len(c) + i - Len(c) = i
      BY <2>2, <1>1, <1>4
    <3> QED
      BY <2>2, <2>3, <3>1
  <2>6. all \in Seq(Packet(e)) /\ Len(all) = Len(c) + L /\ all # << >>
    BY <2>2, <2>3, <1>1, <1>4
  <2> QED
    BY ONLY <2>1, <2>4, <2>5, <2>6
<1>9. Len(s.txCurrent) \in Nat
  BY <1>1
<1> QED
  BY <1>1, <1>4, <1>6, <1>7, <1>8, <1>9 DEF all

\* Only an end that is down has an answer to DISCONN to send.
LEMMA TransmitAnswers ==
    ASSUME NEW e, NEW s, Core(e, s), Answers(s), s.txQueue # << >>,
           NEW all, all = ToTransmit(s), NEW i \in 1..Len(all), all[i].type = "DISCONN_RESP"
    PROVE  Down(s)
<1> DEFINE n == Len(s.txCurrent)
<1>1. s \in Stream(e) /\ n <= 1
  BY DEF Core
<1>2. /\ Len(all) = n + Len(s.txQueue) /\ n \in Nat /\ Len(s.txQueue) \in Nat
      /\ \A j \in 1..n : all[j] = s.txCurrent[j]
      /\ \A j \in 1..Len(s.txQueue) : all[n + j] = Stamp(s, s.txQueue[j])
  BY <1>1, TransmitList
<1>3. all[i].type = "DISCONN_RESP" /\ i \in 1..Len(all)
  OBVIOUS
<1>a. s.txQueue \in Seq(Item) /\ s.txCurrent \in Seq(Packet(e))
  BY <1>1, StreamFields
<1>4. CASE i <= n
  <2>1. i = 1 /\ i \in 1..n
    BY <1>1, <1>2, <1>4
  <2>2. s.txCurrent # << >>
    BY <2>1, <1>a
  <2>3. all[i] = s.txCurrent[1]
    BY <1>2, <2>1
  <2> QED
    BY <2>2, <2>3, <1>3 DEF Answers
<1>5. CASE ~(i <= n)
  <2>1. PICK j : j = i - n
    OBVIOUS
  <2>2. j \in 1..Len(s.txQueue) /\ n + j = i
    <3>1. Len(all) = n + Len(s.txQueue) /\ n \in Nat /\ Len(s.txQueue) \in Nat
      BY ONLY <1>2
    <3>2. i \in 1..Len(all)
      BY ONLY <1>3
    <3> HIDE DEF n
    <3> QED
      BY ONLY <3>1, <3>2, <1>5, <2>1
  <2>3. all[n + j] = Stamp(s, s.txQueue[j])
    <3>1. \A k \in 1..Len(s.txQueue) : all[n + k] = Stamp(s, s.txQueue[k])
      BY ONLY <1>2
    <3>2. j \in 1..Len(s.txQueue)
      BY ONLY <2>2
    <3> HIDE DEF n
    <3> QED
      BY ONLY <3>1, <3>2
  <2>4. PICK x : x = s.txQueue[j]
    OBVIOUS
  <2>5. x \in Item
    BY <2>2, <2>4, <1>a
  <2>6. Stamp(s, x).type = "DISCONN_RESP"
    BY ONLY <1>3, <2>2, <2>3, <2>4, Zenon
  <2>7. s.txCtrl.type = "DISCONN_RESP"
    BY ONLY <1>1, <2>5, <2>6, StampFacts
  <2> QED
    BY <2>7 DEF Answers
<1> QED
  BY <1>2, <1>3, <1>4, <1>5

LEMMA SubSeqOne ==
    ASSUME NEW S, NEW q \in Seq(S), NEW j \in 1..Len(q)
    PROVE  SubSeq(q, j, j) = <<q[j]>>
<1>1. j \in Int /\ j >= 1 /\ j <= j /\ j - j + 1 = 1
  OBVIOUS
<1>2. \A i \in j..j : q[i] \in S
  BY ElementOfSeq
<1>3. PICK t : t = SubSeq(q, j, j)
  OBVIOUS
<1>4. t \in Seq(S) /\ Len(t) = 1 /\ t[1] = q[j]
  <2>1. /\ t \in Seq(S)
        /\ Len(t) = IF j <= j THEN j - j + 1 ELSE 0
        /\ \A i \in 1..j - j + 1 : t[i] = q[j + i - 1]
    BY ONLY <1>1, <1>2, <1>3, SubSeqProperties
  <2> QED
    BY ONLY <1>1, <2>1
<1>5. t = <<t[1]>>
  BY ONLY <1>4
<1> QED
  BY ONLY <1>3, <1>4, <1>5, Zenon

\* Of the packets to transmit, k are delivered, the next one stays behind, the
\* others stay on m_txQueue: none is lost and none is counted twice.
Behind(all, k) == IF k < Len(all) THEN <<all[k + 1]>> ELSE << >>
Unsent(s, all, k) == SubSeq(s.txQueue, SmallerOf(k + 1, Len(all)) - Len(s.txCurrent) + 1,
                            Len(s.txQueue))
Accounted(e, s, all, k, cur, q) ==
    /\ cur \in Seq(Packet(e)) /\ Len(cur) <= 1
    /\ q \in Seq(Item) /\ \A i \in 2..Len(q) : q[i].type = "DATA"
    /\ k = Len(all) => q = << >> /\ cur = << >>
    /\ DataIn(SubSeq(all, 1, k)) + DataIn(cur) + DataIn(q)
           = DataIn(s.txQueue) + DataIn(s.txCurrent)

LEMMA TransmitCounts ==
    ASSUME NEW e, NEW s, Core(e, s), s.txQueue # << >>, NEW all, all = ToTransmit(s),
           NEW k, k \in 0..Len(all), NEW cur, cur = Behind(all, k),
           NEW q, q = Unsent(s, all, k)
    PROVE  Accounted(e, s, all, k, cur, q)
<1>c. PICK m : m = SmallerOf(k + 1, Len(all))
  OBVIOUS
<1> DEFINE n == Len(s.txCurrent)
           L == Len(s.txQueue)
           A == Len(all)
           U == Packet(e) \cup Item
<1>1. s \in Stream(e) /\ n <= 1 /\ CtrlFirst(s)
  BY DEF Core
<1>2. s.txQueue \in Seq(Item) /\ s.txCurrent \in Seq(Packet(e))
  BY <1>1, StreamFields
<1>3. all \in Seq(Packet(e)) /\ A = n + L /\ n \in Nat /\ L \in Nat /\ L > 0
  BY <1>1, TransmitList
<1>4. /\ \A i \in 1..L : all[n + i] = Stamp(s, s.txQueue[i])
      /\ DataIn(all) = DataIn(s.txCurrent) + DataIn(s.txQueue)
  BY <1>1, TransmitList
<1>a. k \in 0..A /\ m = SmallerOf(k + 1, A) /\ cur = (IF k < A THEN <<all[k + 1]>> ELSE << >>)
      /\ q = SubSeq(s.txQueue, m - n + 1, L)
  BY <1>c DEF Behind, Unsent
<1>b. A = Len(all) /\ L = Len(s.txQueue)
  OBVIOUS
<1> HIDE DEF n, L, A
<1>5. /\ m \in Nat /\ m <= A /\ n <= m /\ k <= m /\ k \in Nat /\ A \in Nat
      /\ (k < A => m = k + 1) /\ (k = A => m = A) /\ (k < A \/ k = A)
  <2>1. A \in Nat /\ A >= 1 /\ n <= 1 /\ n \in Nat
    BY ONLY <1>1, <1>3
  <2> QED
    BY ONLY <1>a, <2>1 DEF SmallerOf
<1>6. cur \in Seq(Packet(e)) /\ Len(cur) <= 1 /\ cur = SubSeq(all, k + 1, m)
  <2>1. CASE k < A
    <3>1. k + 1 \in 1..A /\ m = k + 1
      BY <1>5, <2>1
    <3>a. PICK j : j = k + 1
      OBVIOUS
    <3>b. j \in 1..Len(all)
      BY ONLY <1>b, <3>1, <3>a
    <3>2. j \in 1..Len(all) /\ all[j] \in Packet(e)
      BY ONLY <1>3, <3>b, ElementOfSeq
    <3>3. SubSeq(all, j, j) = <<all[j]>>
      BY ONLY <1>3, <3>b, SubSeqOne
    <3>4. <<all[j]>> \in Seq(Packet(e)) /\ Len(<<all[j]>>) = 1
      BY ONLY <3>2
    <3>5. cur = <<all[j]>> /\ m = j /\ k + 1 = j
      BY ONLY <1>a, <2>1, <3>1, <3>a
    <3>6. cur = SubSeq(all, k + 1, m)
      BY ONLY <3>3, <3>5
    <3>7. cur \in Seq(Packet(e)) /\ Len(cur) = 1
      <4>1. cur = <<all[j]>>
        BY ONLY <3>5
      <4> QED
        BY ONLY <3>4, <4>1, Zenon
    <3>8. cur \in Seq(Packet(e)) /\ Len(cur) <= 1
      BY ONLY <3>7
    <3> QED
      BY ONLY <3>6, <3>8, Zenon
  <2>2. CASE k = A
    <3>a. PICK j : j = k + 1
      OBVIOUS
    <3>b. m \in Int /\ j \in Int /\ m < j /\ ~(k < A)
      BY ONLY <1>5, <2>2, <3>a
    <3>1. SubSeq(all, j, m) = << >>
      BY ONLY <3>b, SubSeqEmpty
    <3>2. cur = << >>
      BY ONLY <1>a, <3>b
    <3>3. cur \in Seq(Packet(e)) /\ Len(cur) = 0
      BY ONLY <3>2, EmptySeq
    <3>4. cur = SubSeq(all, k + 1, m)
      BY ONLY <3>a, <3>1, <3>2
    <3> QED
      BY ONLY <3>3, <3>4
  <2> QED
    BY <1>5, <2>1, <2>2
<1>7. /\ q \in Seq(Item) /\ Len(q) = A - m
      /\ \A i \in 1..Len(q) : q[i] = s.txQueue[m - n + i] /\ m - n + i \in 1..L
  <2>1. PICK a : a = m - n
    OBVIOUS
  <2>2. a \in Nat /\ a <= L /\ L - a = A - m
    BY ONLY <1>3, <1>5, <2>1
  <2>3. q = SubSeq(s.txQueue, a + 1, L)
    BY ONLY <1>a, <2>1
  <2>4. q \in Seq(Item) /\ Len(q) = L - a
        /\ \A i \in 1..Len(q) : q[i] = s.txQueue[a + i] /\ a + i \in 1..L
    <3>1. PICK b : b = a + 1
      OBVIOUS
    <3>2. b \in Int /\ L \in Int /\ b >= 1 /\ (b <= L \/ b = L + 1) /\ L - b + 1 = L - a
      BY ONLY <2>2, <1>3, <3>1
    <3>3. \A i \in b..L : s.txQueue[i] \in Item
      BY ONLY <1>2, <1>b, <3>2
    <3>4. /\ SubSeq(s.txQueue, b, L) \in Seq(Item)
          /\ Len(SubSeq(s.txQueue, b, L)) = IF b <= L THEN L - b + 1 ELSE 0
          /\ \A i \in 1..L - b + 1 : SubSeq(s.txQueue, b, L)[i] = s.txQueue[b + i - 1]
      BY ONLY <3>2, <3>3, SubSeqProperties
    <3>5. q = SubSeq(s.txQueue, b, L)
      BY ONLY <2>3, <3>1
    <3>6. q \in Seq(Item) /\ Len(q) = L - a /\ \A i \in 1..L - a : q[i] = s.txQueue[b + i - 1]
      BY ONLY <3>2, <3>4, <3>5, <2>2, <1>3
    <3>7. \A i \in 1..L - a : b + i - 1 = a + i /\ a + i \in 1..L
      BY ONLY <3>1, <2>2, <1>3
    <3> QED
      BY ONLY <3>6, <3>7
  <2> QED
    BY ONLY <2>1, <2>2, <2>4
<1>8. \A i \in 2..Len(q) : q[i].type = "DATA"
  <2> TAKE i \in 2..Len(q)
  <2>1. PICK j : j = m - n + i
    OBVIOUS
  <2>2. i \in 1..Len(q) /\ j \in 2..L
    BY ONLY <1>3, <1>5, <1>7, <2>1, i \in 2..Len(q)
  <2>3. q[i] = s.txQueue[j]
    BY ONLY <1>7, <2>1, <2>2
  <2>4. s.txQueue[j].type = "DATA"
    BY ONLY <1>1, <1>b, <2>2 DEF CtrlFirst
  <2> QED
    BY ONLY <2>3, <2>4
<1>9. k = A => q = << >> /\ cur = << >>
  <2>1. k = A => Len(q) = 0 /\ ~(k < A)
    BY ONLY <1>5, <1>7
  <2> QED
    BY ONLY <1>a, <1>7, <2>1, EmptySeq
<1>10. PICK rest : rest = SubSeq(all, m + 1, A)
  OBVIOUS
<1>11. /\ rest \in Seq(Packet(e)) /\ Len(rest) = A - m
       /\ \A i \in 1..Len(rest) : rest[i] = all[m + i]
  <2>1. PICK b : b = m + 1
    OBVIOUS
  <2>2. b \in Int /\ A \in Int /\ b >= 1 /\ (b <= A \/ b = A + 1) /\ A - b + 1 = A - m
        /\ A - m \in Nat
    BY ONLY <1>5, <2>1
  <2>3. \A i \in b..A : all[i] \in Packet(e)
    BY ONLY <1>3, <1>b, <2>2
  <2>4. /\ SubSeq(all, b, A) \in Seq(Packet(e))
        /\ Len(SubSeq(all, b, A)) = IF b <= A THEN A - b + 1 ELSE 0
        /\ \A i \in 1..A - b + 1 : SubSeq(all, b, A)[i] = all[b + i - 1]
    BY ONLY <2>2, <2>3, SubSeqProperties
  <2>5. rest = SubSeq(all, b, A)
    BY ONLY <1>10, <2>1
  <2>6. /\ rest \in Seq(Packet(e)) /\ Len(rest) = A - m
        /\ \A i \in 1..A - m : rest[i] = all[b + i - 1]
    BY ONLY <2>2, <2>4, <2>5
  <2>7. \A i \in 1..A - m : b + i - 1 = m + i
    BY ONLY <1>5, <2>1
  <2> QED
    BY ONLY <2>6, <2>7
<1>12. DataIn(rest) = DataIn(q)
  <2>1. rest \in Seq(U) /\ q \in Seq(U)
    BY <1>7, <1>11
  <2>2. \A i \in 1..Len(rest) : rest[i].type = "DATA" <=> q[i].type = "DATA"
    <3> TAKE i \in 1..Len(rest)
    <3>1. PICK j : j = m - n + i
      OBVIOUS
    <3>a. i \in 1..Len(q)
      BY ONLY <1>7, <1>11, i \in 1..Len(rest)
    <3>2. j \in 1..L /\ q[i] = s.txQueue[j]
      BY ONLY <1>7, <3>a, <3>1
    <3>3. n + j = m + i
      BY ONLY <1>3, <1>5, <1>11, <3>1, i \in 1..Len(rest)
    <3>4. all[n + j] = Stamp(s, s.txQueue[j])
      BY ONLY <1>4, <3>2
    <3>5. s.txQueue[j] \in Item
      BY ONLY <1>2, <1>b, <3>2
    <3>6. PICK x : x = s.txQueue[j]
      OBVIOUS
    <3>7. Stamp(s, x).type = "DATA" <=> x.type = "DATA"
      BY ONLY <1>1, <3>5, <3>6, StampFacts
    <3>8. rest[i] = Stamp(s, x)
      BY ONLY <1>11, <3>3, <3>4, <3>6
    <3> QED
      BY ONLY <3>2, <3>6, <3>7, <3>8
  <2> HIDE DEF U
  <2> QED
    BY ONLY <2>1, <2>2, <1>7, <1>11, DataInSame
<1>13. DataIn(all) = DataIn(SubSeq(all, 1, k)) + DataIn(cur) + DataIn(rest)
  <2>1. PICK a : a = SubSeq(all, 1, k)
    OBVIOUS
  <2>2. PICK b : b = SubSeq(all, 1, m)
    OBVIOUS
  <2>3. a \in Seq(Packet(e)) /\ b \in Seq(Packet(e))
    <3>1. /\ \A i \in 1..k : all[i] \in Packet(e)
          /\ \A i \in 1..m : all[i] \in Packet(e)
      BY ONLY <1>3, <1>5, <1>b
    <3>2. k \in Int /\ m \in Int /\ 1 \in Int
      BY ONLY <1>5
    <3> QED
      BY ONLY <3>1, <3>2, <2>1, <2>2, SubSeqProperties
  <2>4. a \o cur = b
    <3>1. 1 \in 1..A + 1 /\ k \in 1 - 1..A /\ m \in k..A
      BY <1>5
    <3> QED
      BY ONLY <3>1, <1>3, <1>b, <1>6, <2>1, <2>2, ConcatAdjacentSubSeq
  <2>5. b \o rest = all
    <3>1. 1 \in 1..A + 1 /\ m \in 1 - 1..A /\ A \in m..A
      BY <1>5
    <3>2. SubSeq(all, 1, A) = all
      BY ONLY <1>3, <1>b, SubSeqFull
    <3>3. SubSeq(all, 1, m) \o SubSeq(all, m + 1, A) = SubSeq(all, 1, A)
      BY ONLY <3>1, <1>3, <1>b, ConcatAdjacentSubSeq
    <3> QED
      BY ONLY <3>2, <3>3, <1>10, <2>2
  <2>6. DataIn(a \o cur) = DataIn(a) + DataIn(cur)
    BY ONLY <2>3, <1>6, DataInConcat
  <2>7. DataIn(b \o rest) = DataIn(b) + DataIn(rest)
    BY ONLY <2>3, <1>11, DataInConcat
  <2> QED
    BY ONLY <2>1, <2>4, <2>5, <2>6, <2>7
<1>14. DataIn(s.txCurrent) \in Nat /\ DataIn(s.txQueue) \in Nat
  BY <1>1, DataInStream
<1> QED
  BY ONLY <1>b, <1>4, <1>6, <1>7, <1>8, <1>9, <1>12, <1>13, <1>14 DEF Accounted

LEMMA FreshLength ==
    ASSUME NEW S, NEW all \in Seq(S), NEW m \in 0..Len(all), NEW n \in 0..m
    PROVE  Len(SubSeq(SubSeq(all, 1, m), n + 1, Len(SubSeq(all, 1, m)))) = m - n
<1>1. Len(all) \in Nat /\ m \in Nat /\ n \in Nat /\ n <= m /\ m <= Len(all)
  OBVIOUS
<1>2. PICK taken : taken = SubSeq(all, 1, m)
  OBVIOUS
<1>3. taken \in Seq(S) /\ Len(taken) = m
  BY <1>1, <1>2
<1>4. Len(SubSeq(taken, n + 1, Len(taken))) = m - n
  BY ONLY <1>1, <1>3
<1> QED
  BY <1>2, <1>4, Zenon

LEMMA AfterTransmitKeeps ==
    ASSUME NEW e, NEW s, Core(e, s), NEW k \in 0..Len(ToTransmit(s))
    PROVE  LET t == AfterTransmit(s, k) IN
           /\ Core(e, t) /\ Goes(s, t) /\ t.link = s.link
           /\ Answers(s) => Answers(t)
           /\ s.txCurrent = << >> /\ k = Len(ToTransmit(s)) => Scheduled(t)
<1> DEFINE t == AfterTransmit(s, k)
<1>1. s \in Stream(e) /\ Len(s.txCurrent) <= 1 /\ CtrlFirst(s) /\ Resends(s)
  BY DEF Core
<1>2. CASE s.txQueue = << >>
  <2>1. ToTransmit(s) = << >>
    BY <1>2 DEF ToTransmit
  <2>2. t = s \/ t = Arm(s, "RESEND")
    BY <2>1 DEF AfterTransmit
  <2>3. "RESEND" \in AlarmTypes
    BY DEF AlarmTypes
  <2>4. s.txCurrent = << >> => Scheduled(s)
    BY <1>2 DEF Scheduled
  <2> HIDE DEF t
  <2>5. CASE t = s
    BY <2>4, <2>5 DEF Goes, t
  <2>6. CASE t = Arm(s, "RESEND")
    <3> DEFINE u == Arm(s, "RESEND")
    <3>1. /\ Core(e, u) /\ Goes(s, u) /\ u.link = s.link
          /\ Answers(s) => Answers(u)
          /\ Scheduled(s) => Scheduled(u)
      BY <2>3, ArmKeeps
    <3> QED
      BY <3>1, <2>4, <2>6 DEF t
  <2> QED
    BY <2>2, <2>5, <2>6
<1>3. CASE s.txQueue # << >>
  <2>1. PICK all : all = ToTransmit(s)
    OBVIOUS
  <2>2. /\ all \in Seq(Packet(e)) /\ Len(all) = Len(s.txCurrent) + Len(s.txQueue)
        /\ all # << >> /\ Len(s.txCurrent) \in Nat /\ Len(s.txQueue) \in Nat
        /\ Len(s.txQueue) > 0
    BY <1>1, <1>3, <2>1, TransmitList
  <2>3. k \in 0..Len(all)
    BY <2>1
  <2>a. Len(all) \in Nat
    BY ONLY <2>2, LenProperties
  <2>4. PICK m : m = SmallerOf(k + 1, Len(all))
    OBVIOUS
  <2>5. m \in 0..Len(all) /\ Len(s.txCurrent) \in 0..m
    <3>1. PICK A, n, L : A = Len(all) /\ n = Len(s.txCurrent) /\ L = Len(s.txQueue)
      OBVIOUS
    <3>2. A = n + L /\ n \in Nat /\ L \in Nat /\ L > 0 /\ n <= 1 /\ k \in 0..A
          /\ m = SmallerOf(k + 1, A)
      BY ONLY <1>1, <2>2, <2>3, <2>4, <3>1
    <3>3. m \in 0..A /\ n \in 0..m
      BY ONLY <3>2 DEF SmallerOf
    <3> QED
      BY ONLY <3>1, <3>3
  <2>6. PICK fresh : fresh = SubSeq(SubSeq(all, 1, m), Len(s.txCurrent) + 1,
                                    Len(SubSeq(all, 1, m)))
    OBVIOUS
  <2>7. Len(fresh) = m - Len(s.txCurrent)
    BY ONLY <2>2, <2>5, <2>6, FreshLength
  <2>8. PICK cur : cur = IF k < Len(all) THEN <<all[k + 1]>> ELSE << >>
    OBVIOUS
  <2>9. PICK q : q = SubSeq(s.txQueue, m - Len(s.txCurrent) + 1, Len(s.txQueue))
    OBVIOUS
  <2>10. PICK out : out = SubSeq(all, 1, k)
    OBVIOUS
  <2>11. PICK sent : sent = s.txSent \o OfType(out, {"DATA"})
    OBVIOUS
  <2>12. PICK acked : acked = (\E i \in 1..Len(fresh) : fresh[i].type \in {"DATA", "ACK"})
    OBVIOUS
  <2>13. PICK al : al = (IF acked /\ s.pendingAcks THEN s.alarms \ {"ACK"} ELSE s.alarms)
                           \cup (IF sent # << >> THEN {"RESEND"} ELSE {})
    OBVIOUS
  <2>14. t = [s EXCEPT !.txCurrent = cur, !.txQueue = q, !.txSent = sent,
                       !.pendingAcks = s.pendingAcks /\ ~acked, !.alarms = al]
    <3>1. SubSeq(s.txQueue, Len(fresh) + 1, Len(s.txQueue)) = q
      BY <2>7, <2>9
    <3> QED
      BY <2>1, <2>2, <2>4, <2>6, <2>8, <2>10, <2>11, <2>12, <2>13, <3>1, ZenonT(60)
         DEF AfterTransmit
  <2>15. /\ cur \in Seq(Packet(e)) /\ Len(cur) <= 1
         /\ q \in Seq(Item) /\ \A i \in 2..Len(q) : q[i].type = "DATA"
         /\ k = Len(all) => q = << >> /\ cur = << >>
         /\ DataIn(out) + DataIn(cur) + DataIn(q) = DataIn(s.txQueue) + DataIn(s.txCurrent)
    <3>1. cur = Behind(all, k) /\ q = Unsent(s, all, k)
      BY ONLY <2>4, <2>8, <2>9 DEF Behind, Unsent
    <3>2. Accounted(e, s, all, k, cur, q)
      BY ONLY Core(e, s), <1>3, <2>1, <2>3, <3>1, TransmitCounts, Zenon
    <3> QED
      BY ONLY <3>2, <2>10 DEF Accounted
  <2>16. out \in Seq(Packet(e))
    <3>1. k \in Int /\ 1 \in Int /\ \A i \in 1..k : i \in 1..Len(all)
      BY ONLY <2>a, <2>3
    <3>2. \A i \in 1..k : all[i] \in Packet(e)
      BY ONLY <2>2, <3>1, ElementOfSeq
    <3> QED
      BY ONLY <2>10, <3>1, <3>2, SubSeqProperties
  <2>17. sent \in Seq(DataPacket) /\ Len(sent) = Len(s.txSent) + DataIn(out)
    <3>1. OfType(out, {"DATA"}) \in Seq({x \in Packet(e) : x.type \in {"DATA"}})
      BY <2>16, OfTypeElements
    <3>2. {x \in Packet(e) : x.type \in {"DATA"}} \subseteq DataPacket
      BY PacketTypes
    <3>3. OfType(out, {"DATA"}) \in Seq(DataPacket)
      BY ONLY <3>1, <3>2
    <3>4. s.txSent \in Seq(DataPacket)
      BY <1>1, StreamFields
    <3> QED
      BY ONLY <2>11, <3>3, <3>4 DEF DataIn
  <2>18. al \in SUBSET AlarmTypes
    <3>1. s.alarms \in SUBSET AlarmTypes
      BY <1>1, StreamFields
    <3> QED
      BY ONLY <3>1, <2>13 DEF AlarmTypes
  <2>19. (s.pendingAcks /\ ~acked) \in BOOLEAN
    OBVIOUS
  <2> HIDE DEF t
  <2>20. /\ t \in Stream(e) /\ t.txCurrent = cur /\ t.txQueue = q /\ t.txSent = sent
         /\ t.txCtrl = s.txCtrl
         /\ t.link = s.link /\ t.win = s.win /\ t.size = s.size /\ t.ver = s.ver
         /\ t.conf = s.conf
         /\ t.txFree = s.txFree /\ t.rxFree = s.rxFree /\ t.rxQueue = s.rxQueue
         /\ t.alarms = al /\ t.firing = s.firing
         /\ t.source = s.source /\ t.sink = s.sink /\ t.close = s.close
    BY ONLY <1>1, <2>14, <2>15, <2>17, <2>18, <2>19, ZenonT(60) DEF Stream
  <2>21. InUse(t) = InUse(s)
    <3>1. /\ DataIn(cur) \in Nat /\ DataIn(q) \in Nat /\ DataIn(out) \in Nat
      BY ONLY <2>15, <2>16, DataInNat
    <3>2. DataIn(s.txQueue) \in Nat /\ DataIn(s.txCurrent) \in Nat /\ Len(s.txSent) \in Nat
      BY <1>1, DataInStream
    <3>3. PICK a, b, c, d, f, g : /\ a = DataIn(cur) /\ b = DataIn(q) /\ c = DataIn(out)
                                  /\ d = DataIn(s.txQueue) /\ f = DataIn(s.txCurrent)
                                  /\ g = Len(s.txSent)
      OBVIOUS
    <3>4. /\ a \in Nat /\ b \in Nat /\ c \in Nat /\ d \in Nat /\ f \in Nat /\ g \in Nat
          /\ c + a + b = d + f /\ Len(sent) = g + c
      BY ONLY <3>1, <3>2, <3>3, <2>15, <2>17
    <3>5. InUse(t) = b + a + Len(sent) /\ InUse(s) = d + f + g
      BY ONLY <3>3, <2>20 DEF InUse
    <3> QED
      BY ONLY <3>4, <3>5
  <2>22. CtrlFirst(t) /\ Resends(t)
    BY ONLY <2>13, <2>15, <2>20 DEF CtrlFirst, Resends
  <2>23. s.link = "INITIALIZED" => t.conf \in Proposals(e)
    BY <2>20 DEF Core, Params
  <2>24. Core(e, t)
    BY ONLY Core(e, s), <2>15, <2>20, <2>21, <2>22, <2>23, CoreTransfer
  <2>25. Goes(s, t)
    BY ONLY <2>20 DEF Goes, Down
  <2>26. ASSUME Answers(s) PROVE Answers(t)
    <3>1. cur # << >> /\ cur[1].type = "DISCONN_RESP" => Down(s)
      <4> SUFFICES ASSUME cur # << >>, cur[1].type = "DISCONN_RESP" PROVE Down(s)
        OBVIOUS
      <4>1. k < Len(all) /\ cur = <<all[k + 1]>>
        BY <2>8
      <4>2. PICK j : j = k + 1
        OBVIOUS
      <4>3. j \in 1..Len(all)
        BY ONLY <2>a, <2>3, <4>1, <4>2
      <4>4. cur[1] = all[j]
        BY ONLY <4>1, <4>2
      <4> QED
        BY ONLY Core(e, s), Answers(s), <1>3, <2>1, <4>3, <4>4, TransmitAnswers,
                cur[1].type = "DISCONN_RESP"
    <3> QED
      BY ONLY <2>20, <2>26, <3>1 DEF Answers, Down
  <2>27. k = Len(all) => Scheduled(t)
    BY ONLY <2>15, <2>20 DEF Scheduled
  <2> QED
    BY <2>1, <2>20, <2>24, <2>25, <2>26, <2>27 DEF t
<1> QED
  BY <1>2, <1>3

-----------------------------------------------------------------------------
(* The actions keep the invariant.                                         *)

\* One end moves: e goes on as t, and the wires hold we and wf.
LEMMA EndStep ==
    ASSUME Inv, NEW e \in End, NEW t, NEW we, NEW wf,
           st' = [st EXCEPT ![e] = t],
           wire' = [g \in End |-> IF g = e THEN we ELSE wf],
           Counters',
           StreamOK(e, t), WireOK(e, we), WireOK(Peer(e), wf),
           OneLife => /\ Down(st[e]) => Down(t)
                      /\ (\E i \in 1..Len(we) : we[i].type = "DISCONN_RESP") => Down(st[Peer(e)])
                      /\ (\E i \in 1..Len(wf) : wf[i].type = "DISCONN_RESP") => Down(t)
                      /\ t.close = "closing" /\ t.link = "DEAD" => Down(st[Peer(e)])
    PROVE  Inv'
<1>1. PICK S, W : S = st' /\ W = wire'
  OBVIOUS
<1>2. PICK f : f = Peer(e)
  OBVIOUS
<1>3. f \in End /\ f # e /\ Peer(f) = e /\ (\A g \in End : g = e \/ g = f)
  BY <1>2, PeerFacts
<1>4. st = [g \in End |-> st[g]] /\ StreamOK(f, st[f])
  BY <1>3 DEF Inv
<1>5. S = [g \in End |-> S[g]] /\ S[e] = t /\ S[f] = st[f]
  BY <1>1, <1>3, <1>4
<1>6. W = [g \in End |-> W[g]] /\ W[e] = we /\ W[f] = wf
  BY <1>1, <1>3
<1>7. \A g \in End : StreamOK(g, S[g]) /\ WireOK(g, W[g])
  BY <1>2, <1>3, <1>4, <1>5, <1>6
<1>8. ASSUME OneLife, NEW g \in End
      PROVE  /\ (\E i \in 1..Len(W[g]) : W[g][i].type = "DISCONN_RESP") => Down(S[Peer(g)])
             /\ S[g].close = "closing" /\ S[g].link = "DEAD" => Down(S[Peer(g)])
  <2>1. CASE g = e
    BY <1>2, <1>3, <1>5, <1>6, <1>8, <2>1
  <2>2. CASE g = f
    <3>1. st[f].close = "closing" /\ st[f].link = "DEAD" => Down(st[e])
      BY <1>3, <1>8 DEF Inv, Farewell
    <3> QED
      BY <1>3, <1>5, <1>6, <1>8, <2>2, <3>1
  <2> QED
    BY <1>3, <2>1, <2>2
<1> QED
  BY <1>1, <1>5, <1>6, <1>7, <1>8, Counters' DEF Inv, Farewell

\* The same when no packet moves.
LEMMA QuietStep ==
    ASSUME Inv, NEW e \in End, NEW t, st' = [st EXCEPT ![e] = t], wire' = wire, Counters',
           StreamOK(e, t), Down(st[e]) => Down(t),
           OneLife /\ t.close = "closing" /\ t.link = "DEAD" => Down(st[Peer(e)])
    PROVE  Inv'
<1>1. PICK we, wf, f : we = wire[e] /\ wf = wire[f] /\ f = Peer(e)
  OBVIOUS
<1>2. f \in End /\ f # e /\ Peer(f) = e /\ (\A g \in End : g = e \/ g = f)
  BY <1>1, PeerFacts
<1>3. WireOK(e, we) /\ WireOK(f, wf) /\ wire = [g \in End |-> wire[g]]
  BY <1>1, <1>2 DEF Inv
<1>4. wire' = [g \in End |-> IF g = e THEN we ELSE wf]
  BY <1>1, <1>2, <1>3
<1>5. OneLife => /\ Down(st[e]) => Down(t)
                 /\ (\E i \in 1..Len(we) : we[i].type = "DISCONN_RESP") => Down(st[f])
                 /\ (\E i \in 1..Len(wf) : wf[i].type = "DISCONN_RESP") => Down(t)
                 /\ t.close = "closing" /\ t.link = "DEAD" => Down(st[f])
  <2> SUFFICES ASSUME OneLife
               PROVE  /\ Down(st[e]) => Down(t)
                      /\ (\E i \in 1..Len(we) : we[i].type = "DISCONN_RESP") => Down(st[f])
                      /\ (\E i \in 1..Len(wf) : wf[i].type = "DISCONN_RESP") => Down(t)
                      /\ t.close = "closing" /\ t.link = "DEAD" => Down(st[f])
    OBVIOUS
  <2>1. /\ (\E i \in 1..Len(we) : we[i].type = "DISCONN_RESP") => Down(st[f])
        /\ (\E i \in 1..Len(wf) : wf[i].type = "DISCONN_RESP") => Down(st[e])
    BY <1>1, <1>2 DEF Inv, Farewell
  <2> QED
    BY <1>1, <2>1
<1> QED
  BY <1>1, <1>3, <1>4, <1>5, EndStep

\* What reaches the wire: valid packets of this end, an answer to DISCONN only
\* from an end that is down.
Outgoing(e, s) == {p \in Packet(e) : p.type = "DISCONN_RESP" => Down(s)}

LEMMA TransmitSends ==
    ASSUME NEW e, NEW s, Core(e, s), Answers(s), NEW all, all = ToTransmit(s),
           NEW first \in {1, 2}, NEW fit \in 0..Len(all)
    PROVE  /\ OfType(SubSeq(all, first, fit), Valid) \in Seq(Outgoing(e, s))
           /\ Len(OfType(SubSeq(all, first, fit), Valid)) <= fit
<1>1. s \in Stream(e)
  BY DEF Core
<1>2. all \in Seq(Outgoing(e, s))
  <2>1. CASE s.txQueue = << >>
    BY <2>1 DEF ToTransmit
  <2>2. CASE s.txQueue # << >>
    <3>1. all \in Seq(Packet(e))
      BY <1>1, <2>2, TransmitList
    <3>2. \A i \in 1..Len(all) : all[i] \in Packet(e)
      BY <3>1, ElementOfSeq
    <3>3. \A i \in 1..Len(all) : all[i].type = "DISCONN_RESP" => Down(s)
      BY <2>2, TransmitAnswers
    <3>4. \A i \in 1..Len(all) : all[i] \in Outgoing(e, s)
      BY <3>2, <3>3 DEF Outgoing
    <3> QED
      BY ONLY <3>1, <3>4
  <2> QED
    BY <2>1, <2>2
<1>3. PICK q : q = SubSeq(all, first, fit)
  OBVIOUS
<1>4. Len(all) \in Nat
  BY <1>2, LenProperties
<1>5. first \in Int /\ fit \in Int /\ \A i \in first..fit : i \in 1..Len(all)
  BY <1>4
<1>6. \A i \in first..fit : all[i] \in Outgoing(e, s)
  BY ONLY <1>2, <1>5, ElementOfSeq
<1>7. q \in Seq(Outgoing(e, s)) /\ Len(q) = IF first <= fit THEN fit - first + 1 ELSE 0
  BY ONLY <1>3, <1>5, <1>6, SubSeqProperties
<1>8. Len(q) <= fit
  BY <1>4, <1>7
<1>9. /\ OfType(q, Valid) \in Seq({x \in Outgoing(e, s) : x.type \in Valid})
      /\ Len(OfType(q, Valid)) <= Len(q)
  BY <1>7, OfTypeElements
<1>10. PICK r : r = OfType(q, Valid)
  OBVIOUS
<1>11. r \in Seq(Outgoing(e, s))
  BY ONLY <1>9, <1>10
<1>12. Len(r) <= fit
  <2>1. Len(r) \in Nat /\ Len(q) \in Nat /\ fit \in Int
    BY ONLY <1>7, <1>11, <1>5, LenProperties
  <2> QED
    BY ONLY <1>8, <1>9, <1>10, <2>1
<1> QED
  BY ONLY <1>3, <1>10, <1>11, <1>12, Zenon

LEMMA TransmitStep ==
    ASSUME Inv, NEW e \in End, NEW s, NEW acking \in BOOLEAN,
           Core(e, s), Answers(s), ~CanBlock => s.txCurrent = << >>,
           s.link = st[e].link, s.close = st[e].close,
           TransmitFrom(e, s, acking), Counters'
    PROVE  Inv'
<1>1. PICK f, all, w : f = Peer(e) /\ all = ToTransmit(s) /\ w = wire[f]
  OBVIOUS
<1>2. f \in End /\ f # e /\ Peer(f) = e /\ (\A g \in End : g = e \/ g = f)
  BY <1>1, PeerFacts
<1>3. PICK A, room : A = Len(all) /\ room = WireCap - Len(w)
  OBVIOUS
<1>4. PICK fit : fit = SmallerOf(A, room)
  OBVIOUS
<1>5. /\ CanBlock \/ A <= room
      /\ \E cut \in (IF fit < A THEN {0, 1} ELSE {0}),
            first \in (IF s.txCurrent = << >> THEN {1} ELSE {1, 2}) :
            /\ wire' = [wire EXCEPT ![f] = w \o OfType(SubSeq(all, first, fit), Valid)]
            /\ st' = [st EXCEPT ![e] =
                         IF acking THEN ScheduleLinkControlPacket(AfterTransmit(s, fit + cut))
                         ELSE AfterTransmit(s, fit + cut)]
  BY <1>1, <1>3, <1>4, Zenon DEF TransmitFrom
<1>6. PICK cut \in (IF fit < A THEN {0, 1} ELSE {0}),
           first \in (IF s.txCurrent = << >> THEN {1} ELSE {1, 2}) :
            /\ wire' = [wire EXCEPT ![f] = w \o OfType(SubSeq(all, first, fit), Valid)]
            /\ st' = [st EXCEPT ![e] =
                         IF acking THEN ScheduleLinkControlPacket(AfterTransmit(s, fit + cut))
                         ELSE AfterTransmit(s, fit + cut)]
  BY <1>5
<1>7. w \in Seq(Packet(e)) /\ Len(w) <= WireCap /\ Len(w) \in Nat /\ WireCap \in Nat
  BY <1>1, <1>2, SLAPAssumption DEF Inv, WireOK
<1>8. A \in Nat
  <2>1. s.txQueue # << >> => all \in Seq(Packet(e))
    BY <1>1, TransmitList DEF Core
  <2>2. s.txQueue = << >> => all \in Seq(Packet(e))
    BY <1>1 DEF ToTransmit
  <2> QED
    BY <1>3, <2>1, <2>2, LenProperties
<1>9. PICK k : k = fit + cut
  OBVIOUS
<1>10. fit \in 0..A /\ fit <= room /\ k \in 0..A /\ (~CanBlock => k = A) /\ room \in Nat
  <2>1. room \in Nat
    BY ONLY <1>3, <1>7
  <2>2. fit \in 0..A /\ fit <= room /\ (A <= room => fit = A)
    BY ONLY <2>1, <1>4, <1>8 DEF SmallerOf
  <2>3. cut \in {0, 1} /\ (fit < A \/ cut = 0)
    BY <1>6
  <2> QED
    BY ONLY <1>5, <1>8, <1>9, <2>1, <2>2, <2>3
<1>11. PICK u : u = AfterTransmit(s, k)
  OBVIOUS
<1>12. StreamOK(e, u) /\ Goes(s, u) /\ u.link = s.link
  <2>1. k \in 0..Len(ToTransmit(s))
    BY <1>1, <1>3, <1>10
  <2>2. /\ Core(e, u) /\ Goes(s, u) /\ u.link = s.link /\ (Answers(s) => Answers(u))
        /\ s.txCurrent = << >> /\ k = Len(ToTransmit(s)) => Scheduled(u)
    BY <2>1, <1>11, AfterTransmitKeeps
  <2>3. ~CanBlock => Scheduled(u)
    BY <2>2, <1>1, <1>3, <1>10
  <2> QED
    BY <2>2, <2>3 DEF StreamOK
<1>13. PICK t : t = IF acking THEN ScheduleLinkControlPacket(u) ELSE u
  OBVIOUS
<1>14. StreamOK(e, t) /\ t.link = s.link /\ t.close = s.close
  <2>1. LET v == ScheduleLinkControlPacket(u) IN
        StreamOK(e, v) /\ Goes(u, v) /\ v.link = u.link
    BY <1>12, ScheduleKeeps
  <2> QED
    BY <1>12, <1>13, <2>1 DEF Goes
<1>15. st' = [st EXCEPT ![e] = t]
  BY ONLY <1>6, <1>9, <1>11, <1>13
<1>16. PICK r : r = OfType(SubSeq(all, first, fit), Valid)
  OBVIOUS
<1>17. r \in Seq(Outgoing(e, s)) /\ Len(r) <= fit
  <2>1. first \in {1, 2} /\ fit \in 0..Len(all)
    BY <1>3, <1>6, <1>10
  <2> QED
    BY ONLY Core(e, s), Answers(s), <1>1, <1>16, <2>1, TransmitSends
<1>18. PICK wf : wf = w \o r
  OBVIOUS
<1>19. WireOK(f, wf)
  <2>1. r \in Seq(Packet(e)) /\ Len(r) \in Nat
    BY ONLY <1>17 DEF Outgoing
  <2>2. wf \in Seq(Packet(e)) /\ Len(wf) = Len(w) + Len(r)
    BY ONLY <1>7, <1>18, <2>1
  <2>3. Len(wf) <= WireCap
    BY ONLY <1>3, <1>7, <1>10, <1>17, <2>1, <2>2
  <2> QED
    BY <1>2, <2>2, <2>3 DEF WireOK
<1>20. PICK we : we = wire[e]
  OBVIOUS
<1>21. WireOK(e, we) /\ wire' = [g \in End |-> IF g = e THEN we ELSE wf]
  <2>1. WireOK(e, we) /\ wire = [g \in End |-> wire[g]]
    BY <1>20 DEF Inv
  <2> QED
    <3>1. wire' = [wire EXCEPT ![f] = wf]
      BY ONLY <1>6, <1>16, <1>18, Zenon
    <3> QED
      BY ONLY <1>2, <1>20, <2>1, <3>1, e \in End
<1>22. ASSUME OneLife
       PROVE  /\ Down(st[e]) => Down(t)
              /\ (\E i \in 1..Len(we) : we[i].type = "DISCONN_RESP") => Down(st[f])
              /\ (\E i \in 1..Len(wf) : wf[i].type = "DISCONN_RESP") => Down(t)
              /\ t.close = "closing" /\ t.link = "DEAD" => Down(st[f])
  <2>1. /\ (\E i \in 1..Len(we) : we[i].type = "DISCONN_RESP") => Down(st[f])
        /\ (\E i \in 1..Len(w) : w[i].type = "DISCONN_RESP") => Down(st[e])
        /\ st[e].close = "closing" /\ st[e].link = "DEAD" => Down(st[f])
    BY <1>1, <1>2, <1>20, <1>22 DEF Inv, Farewell
  <2>2. Down(t) <=> Down(s)
    BY <1>14 DEF Down
  <2>3. Down(s) <=> Down(st[e])
    BY DEF Down
  <2>4. ASSUME NEW i \in 1..Len(wf), wf[i].type = "DISCONN_RESP" PROVE Down(s)
    <3>1. Len(w) \in Nat /\ Len(r) \in Nat
      BY ONLY <1>7, <1>17, LenProperties
    <3>2. PICK n : n = i - Len(w)
      OBVIOUS
    <3>3. \/ i \in 1..Len(w) /\ wf[i] = w[i]
          \/ n \in 1..Len(r) /\ wf[i] = r[n]
      <4>1. w \in Seq(Packet(e)) /\ r \in Seq(Packet(e))
        BY ONLY <1>7, <1>17 DEF Outgoing
      <4> QED
        BY ONLY <4>1, <3>1, <3>2, <1>18, i \in 1..Len(wf)
    <3>4. CASE i \in 1..Len(w) /\ wf[i] = w[i]
      BY <2>1, <2>3, <2>4, <3>4
    <3>5. CASE n \in 1..Len(r) /\ wf[i] = r[n]
      <4>1. r[n] \in Outgoing(e, s)
        BY ONLY <1>17, <3>5, ElementOfSeq
      <4> QED
        BY <2>4, <3>5, <4>1 DEF Outgoing
    <3> QED
      BY <3>3, <3>4, <3>5
  <2> QED
    BY <1>14, <2>1, <2>2, <2>3, <2>4
<1> QED
  BY <1>1, <1>14, <1>15, <1>19, <1>21, <1>22, EndStep

LEMMA CountersSame ==
    ASSUME Inv, UNCHANGED <<epoch, pushed, losses>> PROVE Counters'
BY DEF Inv, Counters

LEMMA AlarmDueStep ==
    ASSUME Inv, NEW e \in End, NEW a \in {"SEND", "RESEND", "ACK", "CONTROL"}, AlarmDue(e, a)
    PROVE  Inv'
<1>1. PICK s : s = st[e]
  OBVIOUS
<1>2. PICK t : t = [s EXCEPT !.firing = a, !.alarms = s.alarms \ {a}]
  OBVIOUS
<1>3. StreamOK(e, s) /\ st = [g \in End |-> st[g]] /\ s.firing = "none"
  BY <1>1 DEF Inv, AlarmDue
<1>4. s \in Stream(e) /\ Len(s.txCurrent) <= 1 /\ CtrlFirst(s) /\ Resends(s) /\ Core(e, s)
  BY <1>3 DEF StreamOK, Core
<1>5. s.alarms \in SUBSET AlarmTypes
  BY <1>4, StreamFields
<1>6. /\ t \in Stream(e) /\ t.txCurrent = s.txCurrent /\ t.txQueue = s.txQueue
      /\ t.txCtrl = s.txCtrl
      /\ t.link = s.link /\ t.win = s.win /\ t.size = s.size /\ t.ver = s.ver /\ t.conf = s.conf
      /\ t.txFree = s.txFree /\ t.rxFree = s.rxFree /\ t.rxQueue = s.rxQueue
      /\ t.txSent = s.txSent /\ t.alarms = s.alarms \ {a} /\ t.firing = a
      /\ t.source = s.source /\ t.sink = s.sink /\ t.close = s.close
  BY ONLY <1>2, <1>4, <1>5, a \in {"SEND", "RESEND", "ACK", "CONTROL"} DEF Stream, AlarmTypes
<1>7. InUse(t) = InUse(s) /\ CtrlFirst(t) /\ Resends(t)
  BY <1>3, <1>4, <1>6 DEF InUse, CtrlFirst, Resends
<1>8. s.link = "INITIALIZED" => t.conf \in Proposals(e)
  BY <1>4, <1>6 DEF Core, Params
<1>9. Core(e, t)
  BY ONLY <1>4, <1>6, <1>7, <1>8, CoreTransfer
<1>10. StreamOK(e, t)
  BY <1>3, <1>6, <1>9 DEF StreamOK, Answers, Down, Scheduled
<1>11. st' = [st EXCEPT ![e] = t] /\ wire' = wire
  BY <1>1, <1>2, <1>3 DEF AlarmDue
<1>12. Counters'
  BY CountersSame DEF AlarmDue
<1>13. Down(st[e]) => Down(t)
  BY <1>1, <1>6 DEF Down
<1>14. OneLife /\ t.close = "closing" /\ t.link = "DEAD" => Down(st[Peer(e)])
  BY <1>1, <1>6 DEF Inv, Farewell
<1> QED
  BY <1>10, <1>11, <1>12, <1>13, <1>14, QuietStep

\* A handler that has the lock: its alarm is over.
LEMMA RestKeeps ==
    ASSUME NEW e, NEW s, Core(e, s), NEW t, t = [s EXCEPT !.firing = "none"],
           s.firing = "RESEND" => ~(s.link = "ACTIVE" /\ s.txSent # << >>)
    PROVE  /\ Core(e, t) /\ t.firing = "none"
           /\ t.link = s.link /\ t.close = s.close /\ t.txCurrent = s.txCurrent
           /\ t.txQueue = s.txQueue /\ t.txSent = s.txSent
           /\ Answers(s) => Answers(t)
           /\ Scheduled(s) /\ s.firing # "SEND" => Scheduled(t)
<1>1. s \in Stream(e) /\ Len(s.txCurrent) <= 1 /\ CtrlFirst(s) /\ Resends(s)
  BY DEF Core
<1>2. /\ t \in Stream(e) /\ t.txCurrent = s.txCurrent /\ t.txQueue = s.txQueue
      /\ t.txCtrl = s.txCtrl
      /\ t.link = s.link /\ t.win = s.win /\ t.size = s.size /\ t.ver = s.ver /\ t.conf = s.conf
      /\ t.txFree = s.txFree /\ t.rxFree = s.rxFree /\ t.rxQueue = s.rxQueue
      /\ t.txSent = s.txSent /\ t.alarms = s.alarms /\ t.firing = "none"
      /\ t.source = s.source /\ t.sink = s.sink /\ t.close = s.close
  BY <1>1 DEF Stream
<1>3. InUse(t) = InUse(s) /\ CtrlFirst(t) /\ Resends(t)
  BY <1>1, <1>2 DEF InUse, CtrlFirst, Resends
<1>4. s.link = "INITIALIZED" => t.conf \in Proposals(e)
  BY <1>2 DEF Core, Params
<1>5. Core(e, t)
  BY ONLY Core(e, s), <1>1, <1>2, <1>3, <1>4, CoreTransfer
<1> QED
  BY <1>2, <1>5 DEF Answers, Down, Scheduled

LEMMA SendDataStep ==
    ASSUME Inv, NEW e \in End, SendDataAlarm(e) PROVE Inv'
<1>1. PICK s, t : s = st[e] /\ t = [s EXCEPT !.firing = "none"]
  OBVIOUS
<1>2. StreamOK(e, s) /\ s.firing = "SEND" /\ TransmitFrom(e, t, FALSE)
  BY <1>1 DEF Inv, SendDataAlarm
<1>3. Core(e, s) /\ Answers(s) /\ (~CanBlock => s.txCurrent = << >>)
  BY <1>2 DEF StreamOK, Scheduled
<1>4. Core(e, t) /\ Answers(t) /\ t.link = s.link /\ t.close = s.close
      /\ t.txCurrent = s.txCurrent
  BY <1>1, <1>2, <1>3, RestKeeps
<1>5. Counters'
  BY CountersSame DEF SendDataAlarm
<1> QED
  BY <1>1, <1>2, <1>3, <1>4, <1>5, TransmitStep

LEMMA ResendControlStep ==
    ASSUME Inv, NEW e \in End, ResendControlAlarm(e) PROVE Inv'
<1>1. PICK s, t : s = st[e] /\ t = [s EXCEPT !.firing = "none"]
  OBVIOUS
<1>2. PICK u : u = ScheduleLinkControlPacket(t)
  OBVIOUS
<1>3. StreamOK(e, s) /\ s.firing = "CONTROL" /\ st' = [st EXCEPT ![e] = u] /\ wire' = wire
  BY <1>1, <1>2 DEF Inv, ResendControlAlarm
<1>4. StreamOK(e, t) /\ t.link = s.link /\ t.close = s.close
  BY <1>1, <1>3, RestKeeps DEF StreamOK
<1>5. StreamOK(e, u) /\ u.link = s.link /\ u.close = s.close
  BY <1>2, <1>4, ScheduleKeeps DEF Goes
<1>6. Counters'
  BY CountersSame DEF ResendControlAlarm
<1>7. Down(st[e]) => Down(u)
  BY <1>1, <1>5 DEF Down
<1>8. OneLife /\ u.close = "closing" /\ u.link = "DEAD" => Down(st[Peer(e)])
  BY <1>1, <1>5 DEF Inv, Farewell
<1> QED
  BY <1>3, <1>5, <1>6, <1>7, <1>8, QuietStep

\* A queue with m_txCtrl at most at its head: a sequence D of data packets, or
\* the control packet and then D.
LEMMA DataQueue ==
    ASSUME NEW D \in Seq(DataPacket), NEW q, q = D \/ q = <<CtrlRef>> \o D
    PROVE  q \in Seq(Item) /\ DataIn(q) = Len(D) /\ \A i \in 2..Len(q) : q[i].type = "DATA"
<1>1. D \in Seq(Item) /\ DataIn(D) = Len(D) /\ \A i \in 1..Len(D) : D[i].type = "DATA"
  <2>1. \A x \in DataPacket : x.type = "DATA" /\ x \in Item
    BY PacketTypes
  <2>2. DataIn(D) = Len(D)
    BY <2>1, DataInAll
  <2> QED
    BY <2>1, <2>2
<1>2. CASE q = D
  BY <1>1, <1>2
<1>3. CASE q = <<CtrlRef>> \o D
  <2>1. <<CtrlRef>> \in Seq(Item) /\ Len(<<CtrlRef>>) = 1 /\ DataIn(<<CtrlRef>>) = 0
    BY PacketTypes, DataInOne
  <2>2. DataIn(q) = DataIn(<<CtrlRef>>) + DataIn(D)
    BY ONLY <1>1, <1>3, <2>1, DataInConcat
  <2>3. q \in Seq(Item) /\ Len(q) = 1 + Len(D) /\ Len(D) \in Nat
    BY <1>1, <1>3, <2>1
  <2>4. \A i \in 2..Len(q) : i - 1 \in 1..Len(D) /\ q[i] = D[i - 1]
    BY <1>1, <1>3, <2>1, <2>3
  <2> QED
    BY <1>1, <2>1, <2>2, <2>3, <2>4
<1> QED
  BY <1>2, <1>3

LEMMA QueueShape ==
    ASSUME NEW q \in Seq(Item), \A i \in 2..Len(q) : q[i].type = "DATA"
    PROVE  /\ q # << >> /\ Head(q) = CtrlRef =>
                  Tail(q) \in Seq(DataPacket) /\ q = <<CtrlRef>> \o Tail(q)
           /\ ~(q # << >> /\ Head(q) = CtrlRef) => q \in Seq(DataPacket)
<1>1. \A i \in 1..Len(q) : q[i] \in Item
  BY ElementOfSeq
<1>2. \A i \in 2..Len(q) : q[i] \in DataPacket
  <2>1. Len(q) \in Nat
    BY LenProperties
  <2> QED
    BY <1>1, <2>1, PacketTypes
<1>3. ASSUME q # << >>, Head(q) = CtrlRef
      PROVE  Tail(q) \in Seq(DataPacket) /\ q = <<CtrlRef>> \o Tail(q)
  <2>1. Len(q) \in Nat /\ Len(q) > 0
    BY <1>3, EmptySeq, LenProperties
  <2>2. Tail(q) \in Seq(Item) /\ Len(Tail(q)) = Len(q) - 1
        /\ \A i \in 1..Len(q) - 1 : Tail(q)[i] = q[i + 1]
    BY <1>3
  <2>3. \A i \in 1..Len(Tail(q)) : Tail(q)[i] \in DataPacket
    BY <1>2, <2>1, <2>2
  <2>4. Tail(q) \in Seq(DataPacket)
    <3>1. PICK r : r = Tail(q)
      OBVIOUS
    <3>2. r \in Seq(Item) /\ \A i \in 1..Len(r) : r[i] \in DataPacket
      BY ONLY <2>2, <2>3, <3>1, Zenon
    <3>3. r \in Seq(DataPacket)
      BY ONLY <3>2
    <3> QED
      BY ONLY <3>1, <3>3
  <2>5. q = <<CtrlRef>> \o Tail(q)
    BY <1>3
  <2> QED
    BY <2>4, <2>5
<1>4. ASSUME ~(q # << >> /\ Head(q) = CtrlRef) PROVE q \in Seq(DataPacket)
  <2>1. ASSUME NEW i \in 1..Len(q) PROVE q[i] \in DataPacket
    <3>1. CASE i = 1
      <4>1. q # << >> /\ Head(q) = q[1] /\ q[1] \in Item
        BY <1>1, <2>1, <3>1
      <4> QED
        BY <1>4, <3>1, <4>1 DEF Item
    <3>2. CASE i # 1
      BY <1>2, <2>1, <3>2
    <3> QED
      BY <3>1, <3>2
  <2> QED
    BY ONLY <2>1, q \in Seq(Item)
<1> QED
  BY <1>3, <1>4

\* Going back to m_txQueue, no packet is lost and m_txCtrl stays first.
BackQueue(s) == IF s.txQueue # << >> /\ Head(s.txQueue) = CtrlRef
                THEN <<CtrlRef>> \o s.txSent \o Tail(s.txQueue)
                ELSE s.txSent \o s.txQueue
Returned(s) == [s EXCEPT !.firing = "none", !.txQueue = BackQueue(s), !.txSent = << >>]

LEMMA BackKeeps ==
    ASSUME NEW e, NEW s, Core(e, s), s.link = "ACTIVE", NEW t, t = Returned(s)
    PROVE  /\ Core(e, t) /\ t.link = s.link /\ t.close = s.close /\ t.txCurrent = s.txCurrent
           /\ Answers(s) => Answers(t)
<1>a. PICK q : q = BackQueue(s)
  OBVIOUS
<1>b. t = [s EXCEPT !.firing = "none", !.txQueue = q, !.txSent = << >>]
  BY <1>a DEF Returned
<1>1. s \in Stream(e) /\ Len(s.txCurrent) <= 1 /\ CtrlFirst(s) /\ Resends(s)
  BY DEF Core
<1>2. s.txQueue \in Seq(Item) /\ s.txSent \in Seq(DataPacket)
      /\ \A i \in 2..Len(s.txQueue) : s.txQueue[i].type = "DATA"
  BY <1>1, StreamFields DEF CtrlFirst
<1>3. PICK x, y : x = s.txQueue /\ y = s.txSent
  OBVIOUS
<1>4. \E rest \in Seq(DataPacket) :
         /\ DataIn(x) = Len(rest)
         /\ q = y \o rest \/ q = <<CtrlRef>> \o (y \o rest)
  <2>1. CASE x # << >> /\ Head(x) = CtrlRef
    <3>1. Tail(x) \in Seq(DataPacket) /\ x = <<CtrlRef>> \o Tail(x)
      BY ONLY <1>2, <1>3, <2>1, QueueShape
    <3>2. DataIn(x) = Len(Tail(x))
      BY ONLY <3>1, DataQueue
    <3>3. PICK rest : rest = Tail(x)
      OBVIOUS
    <3>4. q = (<<CtrlRef>> \o y) \o rest
      BY <1>a, <1>3, <2>1, <3>3, Zenon DEF BackQueue
    <3>5. <<CtrlRef>> \in Seq(Item) /\ y \in Seq(Item) /\ rest \in Seq(Item)
      <4>1. DataPacket \subseteq Item /\ CtrlRef \in Item
        BY PacketTypes
      <4>2. y \in Seq(DataPacket) /\ rest \in Seq(DataPacket)
        BY ONLY <1>2, <1>3, <3>1, <3>3, Zenon
      <4> QED
        BY ONLY <4>1, <4>2
    <3>6. (<<CtrlRef>> \o y) \o rest = <<CtrlRef>> \o (y \o rest)
      BY ONLY <3>5, ConcatAssociative
    <3> QED
      BY ONLY <3>1, <3>2, <3>3, <3>4, <3>6, Zenon
  <2>2. CASE ~(x # << >> /\ Head(x) = CtrlRef)
    <3>1. x \in Seq(DataPacket)
      BY ONLY <1>2, <1>3, <2>2, QueueShape
    <3>2. DataIn(x) = Len(x)
      BY ONLY <3>1, DataQueue
    <3>3. q = y \o x
      BY <1>a, <1>3, <2>2, Zenon DEF BackQueue
    <3> QED
      BY ONLY <3>1, <3>2, <3>3, Zenon
  <2> QED
    BY <2>1, <2>2
<1>5. PICK rest \in Seq(DataPacket) :
         /\ DataIn(x) = Len(rest)
         /\ q = y \o rest \/ q = <<CtrlRef>> \o (y \o rest)
  BY <1>4
<1>6. PICK D : D = y \o rest
  OBVIOUS
<1>7. D \in Seq(DataPacket) /\ Len(D) = Len(y) + Len(rest)
  BY ONLY <1>2, <1>3, <1>5, <1>6
<1>8. q \in Seq(Item) /\ DataIn(q) = Len(D) /\ \A i \in 2..Len(q) : q[i].type = "DATA"
  BY ONLY <1>5, <1>6, <1>7, DataQueue
<1>9. << >> \in Seq(DataPacket) /\ Len(<< >>) = 0
  OBVIOUS
<1>10. /\ t \in Stream(e) /\ t.txCurrent = s.txCurrent /\ t.txQueue = q
       /\ t.txCtrl = s.txCtrl
       /\ t.link = s.link /\ t.win = s.win /\ t.size = s.size /\ t.ver = s.ver /\ t.conf = s.conf
       /\ t.txFree = s.txFree /\ t.rxFree = s.rxFree /\ t.rxQueue = s.rxQueue
       /\ t.txSent = << >> /\ t.alarms = s.alarms /\ t.firing = "none"
       /\ t.source = s.source /\ t.sink = s.sink /\ t.close = s.close
  BY ONLY <1>b, <1>1, <1>8, <1>9 DEF Stream
<1>11. InUse(t) = InUse(s)
  <2>1. PICK a, b, c : a = Len(y) /\ b = Len(rest) /\ c = DataIn(s.txCurrent)
    OBVIOUS
  <2>2. a \in Nat /\ b \in Nat /\ c \in Nat
    BY <1>1, <1>2, <1>3, <1>5, <2>1, DataInStream, LenProperties
  <2>3. InUse(t) = (a + b) + c + 0
    BY ONLY <1>7, <1>8, <1>9, <1>10, <2>1 DEF InUse
  <2>4. InUse(s) = b + c + a
    BY ONLY <1>3, <1>5, <2>1 DEF InUse
  <2> QED
    BY ONLY <2>2, <2>3, <2>4
<1>12. CtrlFirst(t) /\ Resends(t)
  BY <1>8, <1>10 DEF CtrlFirst, Resends
<1>13. s.link = "INITIALIZED" => t.conf \in Proposals(e)
  BY <1>10 DEF Core, Params
<1>14. Core(e, t)
  BY ONLY Core(e, s), <1>1, <1>10, <1>11, <1>12, <1>13, CoreTransfer
<1> QED
  BY <1>10, <1>14 DEF Answers, Down

LEMMA ResendDataStep ==
    ASSUME Inv, NEW e \in End, ResendDataAlarm(e) PROVE Inv'
<1>1. PICK b, s : b = st[e] /\ s = [b EXCEPT !.firing = "none"]
  OBVIOUS
<1>2. StreamOK(e, b) /\ b.firing = "RESEND"
  BY <1>1 DEF Inv, ResendDataAlarm
<1>3. Core(e, b) /\ Answers(b) /\ (~CanBlock => b.txCurrent = << >>) /\ b \in Stream(e)
  BY <1>2 DEF StreamOK, Scheduled, Core
<1>4. s.link = b.link /\ s.txSent = b.txSent /\ s.txQueue = b.txQueue
  BY <1>1, <1>3 DEF Stream
<1>5. PICK q : q = IF s.txQueue # << >> /\ Head(s.txQueue) = CtrlRef
                   THEN <<CtrlRef>> \o s.txSent \o Tail(s.txQueue)
                   ELSE s.txSent \o s.txQueue
  OBVIOUS
<1>6. IF s.link = "ACTIVE" /\ s.txSent # << >>
      THEN TransmitFrom(e, [s EXCEPT !.txQueue = q, !.txSent = << >>], FALSE)
      ELSE st' = [st EXCEPT ![e] = s] /\ UNCHANGED wire
  BY <1>1, <1>5, Zenon DEF ResendDataAlarm
<1>7. Counters'
  BY CountersSame DEF ResendDataAlarm
<1>8. CASE s.link = "ACTIVE" /\ s.txSent # << >>
  <2>1. PICK t : t = [b EXCEPT !.firing = "none", !.txQueue = q, !.txSent = << >>]
    OBVIOUS
  <2>2. t = [s EXCEPT !.txQueue = q, !.txSent = << >>]
    BY <1>1, <1>3, <2>1 DEF Stream
  <2>3. TransmitFrom(e, t, FALSE)
    BY ONLY <1>6, <1>8, <2>2, Zenon
  <2>4. q = IF b.txQueue # << >> /\ Head(b.txQueue) = CtrlRef
            THEN <<CtrlRef>> \o b.txSent \o Tail(b.txQueue)
            ELSE b.txSent \o b.txQueue
    BY ONLY <1>4, <1>5, Zenon
  <2>5. /\ Core(e, t) /\ t.link = b.link /\ t.close = b.close /\ t.txCurrent = b.txCurrent
        /\ Answers(t)
    <3>1. b.link = "ACTIVE"
      BY <1>4, <1>8
    <3>2. t = Returned(b)
      BY ONLY <2>1, <2>4, Zenon DEF Returned, BackQueue
    <3> QED
      BY ONLY <1>3, <3>1, <3>2, BackKeeps
  <2>6. ~CanBlock => t.txCurrent = << >>
    BY <1>3, <2>5
  <2> QED
    BY <1>1, <1>7, <2>3, <2>5, <2>6, TransmitStep
<1>9. CASE ~(s.link = "ACTIVE" /\ s.txSent # << >>)
  <2>1. st' = [st EXCEPT ![e] = s] /\ wire' = wire
    BY <1>6, <1>9
  <2>2. StreamOK(e, s) /\ s.close = b.close
    BY <1>1, <1>2, <1>3, <1>4, <1>9, RestKeeps DEF StreamOK
  <2>3. Down(st[e]) => Down(s)
    BY <1>1, <1>4 DEF Down
  <2>4. OneLife /\ s.close = "closing" /\ s.link = "DEAD" => Down(st[Peer(e)])
    BY <1>1, <1>4, <2>2 DEF Inv, Farewell
  <2> QED
    BY <1>7, <2>1, <2>2, <2>3, <2>4, QuietStep
<1> QED
  BY <1>8, <1>9

LEMMA AckAlarmStep ==
    ASSUME Inv, NEW e \in End, AckAlarm(e) PROVE Inv'
<1>1. PICK b, s : b = st[e] /\ s = [b EXCEPT !.firing = "none"]
  OBVIOUS
<1>2. StreamOK(e, b) /\ b.firing = "ACK"
  BY <1>1 DEF Inv, AckAlarm
<1>3. Core(e, b) /\ Answers(b) /\ (~CanBlock => b.txCurrent = << >>)
  BY <1>2 DEF StreamOK, Scheduled
<1>4. /\ Core(e, s) /\ StreamOK(e, s)
      /\ s.link = b.link /\ s.close = b.close /\ s.txCurrent = b.txCurrent
  BY <1>1, <1>2, <1>3, RestKeeps DEF StreamOK
<1>5. PICK y : y = [s EXCEPT !.pendingAcks = FALSE]
  OBVIOUS
<1>6. PICK p : p = [type |-> "ACK", ack |-> s.currentTxAck]
  OBVIOUS
<1>7. IF s.pendingAcks THEN TransmitFrom(e, FillCtrl(y, p), TRUE)
      ELSE st' = [st EXCEPT ![e] = ScheduleLinkControlPacket(s)] /\ UNCHANGED wire
  BY <1>1, <1>5, <1>6, Zenon DEF AckAlarm
<1>8. Counters'
  BY CountersSame DEF AckAlarm
<1>9. CASE s.pendingAcks
  <2>1. s \in Stream(e) /\ Len(s.txCurrent) <= 1 /\ CtrlFirst(s) /\ Resends(s)
    BY <1>4 DEF Core
  <2>2. /\ y \in Stream(e) /\ y.txCurrent = s.txCurrent /\ y.txQueue = s.txQueue
        /\ y.txCtrl = s.txCtrl
        /\ y.link = s.link /\ y.win = s.win /\ y.size = s.size /\ y.ver = s.ver
        /\ y.conf = s.conf
        /\ y.txFree = s.txFree /\ y.rxFree = s.rxFree /\ y.rxQueue = s.rxQueue
        /\ y.txSent = s.txSent /\ y.alarms = s.alarms /\ y.firing = s.firing
        /\ y.source = s.source /\ y.sink = s.sink /\ y.close = s.close
    BY <1>5, <2>1 DEF Stream
  <2>3. InUse(y) = InUse(s) /\ CtrlFirst(y) /\ Resends(y)
    BY <2>1, <2>2 DEF InUse, CtrlFirst, Resends
  <2>4. s.link = "INITIALIZED" => y.conf \in Proposals(e)
    BY <1>4, <2>2 DEF Core, Params
  <2>5. Core(e, y)
    BY ONLY <1>4, <2>1, <2>2, <2>3, <2>4, CoreTransfer
  <2>6. p \in Control(e) /\ p.type = "ACK"
    <3>1. s.currentTxAck \in 0..7
      BY <2>1, StreamFields
    <3> QED
      BY <1>6, <3>1 DEF Control
  <2>7. PICK t : t = FillCtrl(y, p)
    OBVIOUS
  <2>8. /\ Core(e, t) /\ t.link = y.link /\ t.close = y.close /\ t.txCtrl = p
        /\ t.txCurrent = y.txCurrent \/ (y.txCurrent # << >> /\ t.txCurrent = <<Junk>>)
    BY ONLY <2>5, <2>6, <2>7, FillCtrlKeeps
  <2>9. Answers(t)
    <3>1. Answers(s)
      BY <1>4 DEF StreamOK
    <3> QED
      BY <2>2, <2>6, <2>8, <3>1, PacketTypes DEF Answers, Down
  <2>10. ~CanBlock => t.txCurrent = << >>
    BY <1>3, <1>4, <2>2, <2>8
  <2>11. TransmitFrom(e, t, TRUE)
    BY ONLY <1>7, <1>9, <2>7, Zenon
  <2> QED
    BY <1>1, <1>4, <1>8, <2>2, <2>8, <2>9, <2>10, <2>11, TransmitStep, ZenonT(60)
<1>10. CASE ~s.pendingAcks
  <2>1. PICK u : u = ScheduleLinkControlPacket(s)
    OBVIOUS
  <2>2. st' = [st EXCEPT ![e] = u] /\ wire' = wire
    BY <1>7, <1>10, <2>1
  <2>3. StreamOK(e, u) /\ u.link = b.link /\ u.close = b.close
    BY <1>4, <2>1, ScheduleKeeps DEF Goes
  <2>4. Down(st[e]) => Down(u)
    BY <1>1, <2>3 DEF Down
  <2>5. OneLife /\ u.close = "closing" /\ u.link = "DEAD" => Down(st[Peer(e)])
    BY <1>1, <2>3 DEF Inv, Farewell
  <2> QED
    BY <1>8, <2>2, <2>3, <2>4, <2>5, QuietStep
<1> QED
  BY <1>9, <1>10

\* A packet leaves the wire; what is left was there before.
Within(r, w) == \A i \in 1..Len(r) : \E j \in 1..Len(w) : r[i] = w[j]

LEMMA WireTail ==
    ASSUME NEW e, NEW w, WireOK(e, w), w # << >>, NEW r, r = Tail(w)
    PROVE  /\ WireOK(e, r) /\ Head(w) = w[1] /\ 1 \in 1..Len(w) /\ w[1] \in Packet(Peer(e))
           /\ Within(r, w)
<1>1. PICK P : P = Packet(Peer(e))
  OBVIOUS
<1>2. w \in Seq(P) /\ Len(w) <= WireCap
  BY <1>1 DEF WireOK
<1>3. Len(w) \in Nat /\ Len(w) > 0 /\ WireCap \in Nat
  BY <1>2, SLAPAssumption, LenProperties, EmptySeq
<1>4. r \in Seq(P) /\ Len(r) = Len(w) - 1 /\ Head(w) = w[1]
      /\ \A i \in 1..Len(w) - 1 : r[i] = w[i + 1]
  BY <1>2
<1>5. Len(r) <= WireCap
  BY ONLY <1>2, <1>3, <1>4
<1>6. 1 \in 1..Len(w) /\ w[1] \in P
  BY ONLY <1>2, <1>3
<1>7. \A i \in 1..Len(r) : \E j \in 1..Len(w) : r[i] = w[j]
  <2> TAKE i \in 1..Len(r)
  <2>1. i \in 1..Len(w) - 1 /\ i + 1 \in 1..Len(w)
    BY ONLY <1>3, <1>4, i \in 1..Len(r)
  <2>2. r[i] = w[i + 1]
    BY ONLY <1>4, <2>1
  <2> QED
    BY ONLY <2>1, <2>2
<1> QED
  BY <1>1, <1>4, <1>5, <1>6, <1>7 DEF WireOK, Within

\* The wire to e loses its first packet, and e goes on as t.
LEMMA TakenStep ==
    ASSUME Inv, NEW e \in End, NEW t, wire[e] # << >>,
           st' = [st EXCEPT ![e] = t], wire' = [wire EXCEPT ![e] = Tail(@)], Counters',
           StreamOK(e, t), Down(st[e]) => Down(t),
           OneLife /\ t.close = "closing" /\ t.link = "DEAD" => Down(st[Peer(e)])
    PROVE  Inv'
<1>1. PICK w, we, wf, f : /\ w = wire[e] /\ we = Tail(w) /\ wf = wire[f] /\ f = Peer(e)
  OBVIOUS
<1>2. f \in End /\ f # e /\ Peer(f) = e /\ (\A g \in End : g = e \/ g = f)
  BY <1>1, PeerFacts
<1>3. WireOK(e, w) /\ WireOK(f, wf) /\ wire = [g \in End |-> wire[g]]
  BY <1>1, <1>2 DEF Inv
<1>4. WireOK(e, we) /\ Within(we, w)
  <2>1. w # << >> /\ we = Tail(w)
    BY <1>1
  <2> QED
    BY ONLY <1>3, <2>1, WireTail
<1>5. wire' = [g \in End |-> IF g = e THEN we ELSE wf]
  BY <1>1, <1>2, <1>3
<1>6. ASSUME OneLife
      PROVE  /\ Down(st[e]) => Down(t)
             /\ (\E i \in 1..Len(we) : we[i].type = "DISCONN_RESP") => Down(st[f])
             /\ (\E i \in 1..Len(wf) : wf[i].type = "DISCONN_RESP") => Down(t)
             /\ t.close = "closing" /\ t.link = "DEAD" => Down(st[f])
  <2>1. /\ (\E i \in 1..Len(w) : w[i].type = "DISCONN_RESP") => Down(st[f])
        /\ (\E i \in 1..Len(wf) : wf[i].type = "DISCONN_RESP") => Down(st[e])
    BY <1>1, <1>2, <1>6 DEF Inv, Farewell
  <2>2. (\E i \in 1..Len(we) : we[i].type = "DISCONN_RESP") => Down(st[f])
    BY <1>4, <2>1, Zenon DEF Within
  <2> QED
    BY <1>1, <1>6, <2>1, <2>2
<1> QED
  BY <1>1, <1>3, <1>4, <1>5, <1>6, EndStep

LEMMA ReadStep ==
    ASSUME Inv, NEW e \in End, ReadEventTriggered(e) PROVE Inv'
<1>1. PICK s, w, p : s = st[e] /\ w = wire[e] /\ p = Head(w)
  OBVIOUS
<1>2. StreamOK(e, s) /\ WireOK(e, w) /\ w # << >>
  BY <1>1 DEF Inv, ReadEventTriggered
<1>3. PICK t : t = CASE IsData(p)      -> ProcessData(s, p)
                     [] p.type = "ACK" -> ProcessAckNum(s, p.ack)
                     [] OTHER          -> ProcessControlPacket(s, e, p)
  OBVIOUS
<1>4. st' = [st EXCEPT ![e] = t] /\ wire' = [wire EXCEPT ![e] = Tail(@)]
  BY <1>1, <1>3, Zenon DEF ReadEventTriggered
<1>5. p \in Packet(Peer(e)) /\ p = w[1] /\ 1 \in 1..Len(w)
  <2>1. PICK r : r = Tail(w)
    OBVIOUS
  <2> QED
    BY <1>1, <1>2, <2>1, WireTail
<1>6. /\ StreamOK(e, t) /\ Goes(s, t)
      /\ s.close = "closing" /\ t.link = "DEAD" => s.link = "DEAD" \/ p.type = "DISCONN_RESP"
  <2>1. CASE p.type = "DATA"
    <3>1. p \in DataPacket
      BY <1>5, <2>1, PacketTypes
    <3>2. t = ProcessData(s, p)
      BY <1>3, <2>1 DEF IsData
    <3> QED
      BY ONLY <1>2, <3>1, <3>2, DataKeeps
  <2>2. CASE p.type = "ACK"
    <3>1. t = ProcessAckNum(s, p.ack)
      BY <1>3, <2>2 DEF IsData
    <3>2. /\ Core(e, t) /\ Goes(s, t) /\ t.link = s.link
          /\ Answers(s) => Answers(t)
          /\ Scheduled(s) => Scheduled(t)
      BY <1>2, <3>1, AckNumKeeps DEF StreamOK
    <3> QED
      BY <1>2, <3>2 DEF StreamOK
  <2>3. CASE p.type \notin {"DATA", "ACK"}
    <3>1. t = ProcessControlPacket(s, e, p)
      BY <1>3, <2>3 DEF IsData
    <3> QED
      BY ONLY e \in End, <1>2, <1>5, <2>3, <3>1, ControlKeeps
  <2> QED
    BY <2>1, <2>2, <2>3
<1>7. Counters'
  BY CountersSame DEF ReadEventTriggered
<1>8. Down(st[e]) => Down(t)
  BY <1>1, <1>6 DEF Goes
<1>9. OneLife /\ t.close = "closing" /\ t.link = "DEAD" => Down(st[Peer(e)])
  <2> SUFFICES ASSUME OneLife, t.close = "closing", t.link = "DEAD" PROVE Down(st[Peer(e)])
    OBVIOUS
  <2>1. s.close = "closing" /\ (s.link = "DEAD" \/ p.type = "DISCONN_RESP")
    BY <1>6 DEF Goes
  <2> QED
    BY <1>1, <1>5, <2>1 DEF Inv, Farewell
<1> QED
  BY <1>1, <1>2, <1>4, <1>6, <1>7, <1>8, <1>9, TakenStep

LEMMA LoseStep ==
    ASSUME Inv, NEW e \in End, Lose(e) PROVE Inv'
<1>1. PICK t : t = st[e]
  OBVIOUS
<1>2. st = [g \in End |-> st[g]] /\ StreamOK(e, t)
  BY <1>1 DEF Inv
<1>3. st' = [st EXCEPT ![e] = t]
  BY <1>1, <1>2 DEF Lose
<1>4. Counters'
  BY SLAPAssumption DEF Inv, Counters, Lose
<1>5. OneLife /\ t.close = "closing" /\ t.link = "DEAD" => Down(st[Peer(e)])
  BY <1>1 DEF Inv, Farewell
<1>6. wire[e] # << >> /\ wire' = [wire EXCEPT ![e] = Tail(@)]
  BY DEF Lose
<1> QED
  BY <1>1, <1>2, <1>3, <1>4, <1>5, <1>6, TakenStep

LEMMA PushStep ==
    ASSUME Inv, NEW e \in End, PushBytes(e) PROVE Inv'
<1>1. PICK s, pkt : /\ s = st[e]
                    /\ pkt = [type |-> "DATA", seq |-> s.txSeqNum, ack |-> 0,
                              pay |-> <<epoch[e], pushed[e]>>]
  OBVIOUS
<1>2. PICK q : q = Append(s.txQueue, pkt)
  OBVIOUS
<1>3. PICK u : u = [s EXCEPT !.txFree = s.txFree - 1, !.txSeqNum = (s.txSeqNum + 1) % 8,
                             !.txQueue = q, !.sink = s.sink /\ s.txFree > 1]
  OBVIOUS
<1>4. PICK t : t = Arm(u, "SEND")
  OBVIOUS
<1>5. /\ s.link # "DEAD" /\ s.txFree > 0
      /\ st' = [st EXCEPT ![e] = t] /\ wire' = wire
  BY <1>1, <1>2, <1>3, <1>4 DEF PushBytes
<1>6. StreamOK(e, s) /\ Core(e, s) /\ s \in Stream(e)
  BY <1>1 DEF Inv, StreamOK, Core
<1>7. /\ Len(s.txCurrent) <= 1 /\ CtrlFirst(s) /\ Params(e, s) /\ Buffers(s) /\ Events(s)
      /\ Resends(s)
  BY <1>6 DEF Core
<1>8. /\ s.txQueue \in Seq(Item) /\ Len(s.txQueue) \in Nat /\ s.txFree \in Nat
      /\ s.txSeqNum \in 0..7 /\ s.sink \in BOOLEAN /\ InUse(s) \in Nat /\ s.win \in {1, 2, 4}
      /\ DataIn(s.txQueue) \in Nat /\ DataIn(s.txCurrent) \in Nat /\ Len(s.txSent) \in Nat
      /\ s.rxFree \in Nat /\ s.rxQueue \in Nat
  BY <1>6, StreamFields, DataInStream
<1>9. pkt \in DataPacket
  <2>1. epoch[e] \in Nat /\ pushed[e] \in Nat
    BY DEF Inv, Counters
  <2> QED
    BY <1>1, <1>8, <2>1 DEF DataPacket
<1>10. pkt \in Item /\ pkt.type = "DATA"
  BY <1>9, PacketTypes
<1>11. /\ q \in Seq(Item) /\ DataIn(q) = DataIn(s.txQueue) + 1
       /\ \A i \in 2..Len(q) : q[i].type = "DATA"
  <2>1. <<pkt>> \in Seq(Item) /\ q = s.txQueue \o <<pkt>> /\ DataIn(<<pkt>>) = 1
    BY <1>2, <1>8, <1>10, DataInOne, SMTT(30)
  <2>2. DataIn(q) = DataIn(s.txQueue) + DataIn(<<pkt>>)
    BY ONLY <1>8, <2>1, DataInConcat
  <2>3. q \in Seq(Item) /\ Len(q) = Len(s.txQueue) + 1 /\ q[Len(q)] = pkt
        /\ \A i \in 1..Len(s.txQueue) : q[i] = s.txQueue[i]
    BY ONLY <1>2, <1>8, <1>10
  <2>4. \A i \in 2..Len(q) : i \in 2..Len(s.txQueue) \/ i = Len(q)
    BY ONLY <1>8, <2>3
  <2>5. \A i \in 2..Len(s.txQueue) : i \in 1..Len(s.txQueue) /\ s.txQueue[i].type = "DATA"
    BY <1>7, <1>8 DEF CtrlFirst
  <2>6. \A i \in 2..Len(q) : q[i].type = "DATA"
    BY ONLY <1>10, <2>3, <2>4, <2>5, Zenon
  <2> QED
    BY <2>1, <2>2, <2>3, <2>6
<1>12. s.txFree - 1 \in Nat /\ (s.txSeqNum + 1) % 8 \in 0..7 /\ (s.sink /\ s.txFree > 1) \in BOOLEAN
  <2>1. \A x \in 0..7 : (x + 1) % 8 \in 0..7
    OBVIOUS
  <2>2. s.txFree - 1 \in Nat
    BY ONLY <1>5, <1>8
  <2>3. (s.sink /\ s.txFree > 1) \in BOOLEAN
    OBVIOUS
  <2> QED
    BY ONLY <1>8, <2>1, <2>2, <2>3
<1>13. /\ u \in Stream(e) /\ u.txCurrent = s.txCurrent /\ u.txQueue = q
       /\ u.txCtrl = s.txCtrl
       /\ u.link = s.link /\ u.win = s.win /\ u.size = s.size /\ u.ver = s.ver /\ u.conf = s.conf
       /\ u.txFree = s.txFree - 1 /\ u.rxFree = s.rxFree /\ u.rxQueue = s.rxQueue
       /\ u.txSent = s.txSent /\ u.alarms = s.alarms /\ u.firing = s.firing
       /\ u.source = s.source /\ u.sink = (s.sink /\ s.txFree > 1) /\ u.close = s.close
  BY ONLY <1>3, <1>6, <1>11, <1>12 DEF Stream
<1>14. InUse(u) = InUse(s) + 1
  BY ONLY <1>8, <1>11, <1>13 DEF InUse
<1>15. Buffers(u)
  <2>1. ~NoPackets(s)
    BY <1>5, <1>8 DEF NoPackets
  <2>2. AllPackets(s) /\ s.link \notin {"UNINITIALIZED", "INITIALIZED"}
    BY <1>7, <2>1 DEF Buffers
  <2>3. AllPackets(u)
    BY ONLY <1>8, <1>13, <1>14, <2>2, SMTT(30) DEF AllPackets
  <2> QED
    BY <1>13, <2>2, <2>3 DEF Buffers
<1>16. Events(u)
  <2>1. s.txFree - 1 > 0 => s.txFree > 1 /\ s.txFree > 0
    BY <1>8
  <2>2. s.sink /\ s.txFree > 1 => u.sink
    BY <1>13, Zenon
  <2> QED
    BY <1>7, <1>13, <2>1, <2>2 DEF Events
<1>17. Params(e, u) /\ Woken(u) /\ Resends(u) /\ CtrlFirst(u)
  BY <1>5, <1>7, <1>11, <1>13 DEF Params, Woken, Resends, CtrlFirst
<1>18. Core(e, u)
  BY <1>7, <1>13, <1>15, <1>16, <1>17 DEF Core
<1>19. Answers(u) /\ (~CanBlock => u.txCurrent = << >>)
  BY <1>6, <1>13 DEF StreamOK, Answers, Scheduled, Down
<1>20. "SEND" \in AlarmTypes
  BY DEF AlarmTypes
<1>21. /\ Core(e, t) /\ Goes(u, t) /\ Answers(t) /\ t.link = u.link
       /\ u.txCurrent = << >> => Scheduled(t)
  BY ONLY <1>4, <1>18, <1>19, <1>20, ArmKeeps
<1>22. StreamOK(e, t) /\ t.link # "DEAD" /\ t.link = s.link
  BY <1>5, <1>13, <1>19, <1>21 DEF StreamOK, Goes
<1>23. Counters'
  BY DEF Inv, Counters, PushBytes
<1>24. Down(st[e]) => Down(t)
  BY <1>1, <1>22 DEF Down
<1> QED
  BY <1>5, <1>22, <1>23, <1>24, QuietStep

LEMMA PullStep ==
    ASSUME Inv, NEW e \in End, PullBytes(e) PROVE Inv'
<1>1. PICK s : s = st[e]
  OBVIOUS
<1>2. PICK t : t = [s EXCEPT !.rxQueue = s.rxQueue - 1, !.rxFree = s.rxFree + 1,
                             !.source = s.source /\ s.rxQueue > 1]
  OBVIOUS
<1>3. /\ s.link # "DEAD" /\ s.rxQueue > 0
      /\ st' = [st EXCEPT ![e] = t] /\ wire' = wire
  BY <1>1, <1>2 DEF PullBytes
<1>4. StreamOK(e, s) /\ Core(e, s) /\ s \in Stream(e)
  BY <1>1 DEF Inv, StreamOK, Core
<1>5. /\ Len(s.txCurrent) <= 1 /\ CtrlFirst(s) /\ Params(e, s) /\ Buffers(s) /\ Events(s)
      /\ Resends(s)
  BY <1>4 DEF Core
<1>6. s.rxFree \in Nat /\ s.rxQueue \in Nat /\ s.source \in BOOLEAN /\ s.win \in {1, 2, 4}
  BY <1>4, StreamFields
<1>7. s.rxQueue - 1 \in Nat /\ s.rxFree + 1 \in Nat /\ (s.source /\ s.rxQueue > 1) \in BOOLEAN
  BY <1>3, <1>6
<1>8. /\ t \in Stream(e) /\ t.txCurrent = s.txCurrent /\ t.txQueue = s.txQueue
      /\ t.txCtrl = s.txCtrl
      /\ t.link = s.link /\ t.win = s.win /\ t.size = s.size /\ t.ver = s.ver /\ t.conf = s.conf
      /\ t.txFree = s.txFree /\ t.rxFree = s.rxFree + 1 /\ t.rxQueue = s.rxQueue - 1
      /\ t.txSent = s.txSent /\ t.alarms = s.alarms /\ t.firing = s.firing
      /\ t.source = (s.source /\ s.rxQueue > 1) /\ t.sink = s.sink /\ t.close = s.close
  BY ONLY <1>2, <1>4, <1>7 DEF Stream
<1>9. InUse(t) = InUse(s)
  BY <1>8 DEF InUse
<1>10. Buffers(t)
  <2>1. ~NoPackets(s)
    BY <1>3, <1>6 DEF NoPackets
  <2>2. AllPackets(s) /\ s.link \notin {"UNINITIALIZED", "INITIALIZED"}
    BY <1>5, <2>1 DEF Buffers
  <2>3. AllPackets(t)
    BY ONLY <1>6, <1>8, <1>9, <2>2 DEF AllPackets
  <2> QED
    BY <1>8, <2>2, <2>3 DEF Buffers
<1>11. Events(t)
  <2>1. s.rxQueue - 1 > 0 => s.rxQueue > 1 /\ s.rxQueue > 0
    BY <1>6
  <2>2. s.source /\ s.rxQueue > 1 => t.source
    BY <1>8, Zenon
  <2> QED
    BY <1>5, <1>8, <2>1, <2>2 DEF Events
<1>12. Params(e, t) /\ Woken(t) /\ Resends(t) /\ CtrlFirst(t)
  BY <1>3, <1>5, <1>8 DEF Params, Woken, Resends, CtrlFirst
<1>13. Core(e, t)
  BY <1>5, <1>8, <1>10, <1>11, <1>12 DEF Core
<1>14. StreamOK(e, t)
  BY <1>4, <1>8, <1>13 DEF StreamOK, Answers, Down, Scheduled
<1>15. Counters'
  BY CountersSame DEF PullBytes
<1>16. (Down(st[e]) => Down(t)) /\ t.link # "DEAD"
  BY <1>1, <1>3, <1>8 DEF Down
<1> QED
  BY <1>3, <1>14, <1>15, <1>16, QuietStep

\* Close moves the link down and changes nothing else.
HowClosed(l) == IF l = "DEAD" THEN "closed" ELSE "closing"
ClosedAs(s, l) == [s EXCEPT !.link = l, !.close = HowClosed(l)]

LEMMA ClosedKeeps ==
    ASSUME NEW e, NEW s, StreamOK(e, s), NEW l \in {"DYING", "DEAD"}, NEW t, t = ClosedAs(s, l)
    PROVE  StreamOK(e, t) /\ t.link = l /\ t.close = HowClosed(l)
<1> DEFINE c == HowClosed(l)
<1>a. c \in {"closing", "closed"} /\ (l = "DEAD" => c = "closed")
  BY DEF HowClosed
<1> HIDE DEF c
<1>1. Core(e, s) /\ s \in Stream(e)
  BY DEF StreamOK, Core
<1>2. /\ Len(s.txCurrent) <= 1 /\ CtrlFirst(s) /\ Buffers(s) /\ Events(s)
  BY <1>1 DEF Core
<1>3. /\ t \in Stream(e) /\ t.txCurrent = s.txCurrent /\ t.txQueue = s.txQueue
      /\ t.txCtrl = s.txCtrl /\ t.link = l /\ t.win = s.win
      /\ t.txFree = s.txFree /\ t.rxFree = s.rxFree /\ t.rxQueue = s.rxQueue
      /\ t.txSent = s.txSent /\ t.alarms = s.alarms /\ t.firing = s.firing
      /\ t.source = s.source /\ t.sink = s.sink /\ t.close = c
  BY <1>1, <1>a DEF Stream, Links, ClosedAs, c
<1>4. InUse(t) = InUse(s)
  BY <1>3 DEF InUse
<1>5. Buffers(t)
  BY <1>2, <1>3, <1>4 DEF Buffers, NoPackets, AllPackets
<1>6. Params(e, t) /\ Events(t) /\ Woken(t) /\ Resends(t) /\ CtrlFirst(t)
  BY <1>a, <1>2, <1>3 DEF Params, Events, Woken, Resends, CtrlFirst
<1>7. Core(e, t)
  BY <1>2, <1>3, <1>5, <1>6 DEF Core
<1> QED
  BY <1>3, <1>7 DEF StreamOK, Answers, Down, Scheduled, c

LEMMA CloseStep ==
    ASSUME Inv, NEW e \in End, Close(e) PROVE Inv'
<1>1. PICK s : s = st[e]
  OBVIOUS
<1>2. PICK t, y : /\ t = ClosedAs(s, "DEAD")
                  /\ y = ClosedAs(s, "DYING")
  OBVIOUS
<1>3. PICK u : u = ScheduleLinkControlPacket(y)
  OBVIOUS
<1>4. PICK ver : st' = [st EXCEPT ![e] = IF ver < DISCONNECT_FEATURE \/ s.link = "DEAD"
                                         THEN t ELSE u]
  BY <1>1, <1>2, <1>3, Zenon DEF Close, ClosedAs, HowClosed
<1>5. StreamOK(e, s) /\ wire' = wire
  BY <1>1 DEF Inv, Close
<1>6. Counters'
  BY CountersSame DEF Close
<1>7. CASE st' = [st EXCEPT ![e] = t]
  <2>1. StreamOK(e, t) /\ t.link = "DEAD" /\ t.close = "closed"
    BY ONLY <1>2, <1>5, ClosedKeeps DEF HowClosed
  <2>2. Down(t) /\ t.close # "closing"
    BY <2>1 DEF Down
  <2> QED
    BY <1>5, <1>6, <1>7, <2>1, <2>2, QuietStep
<1>8. CASE st' = [st EXCEPT ![e] = u]
  <2>1. StreamOK(e, y) /\ y.link = "DYING" /\ y.close = "closing"
    BY ONLY <1>2, <1>5, ClosedKeeps DEF HowClosed
  <2>2. StreamOK(e, u) /\ u.link = "DYING"
    BY <1>3, <2>1, ScheduleKeeps
  <2>3. Down(u) /\ u.link # "DEAD"
    BY <2>2 DEF Down
  <2> QED
    BY <1>5, <1>6, <1>8, <2>2, <2>3, QuietStep
<1> QED
  BY <1>4, <1>7, <1>8

LEMMA CloseReturnsStep ==
    ASSUME Inv, NEW e \in End, CloseReturns(e) PROVE Inv'
<1>1. PICK s : s = st[e]
  OBVIOUS
<1>2. PICK y : y = IF s.link = "DEAD" THEN s ELSE Dead(s)
  OBVIOUS
<1>3. PICK t : t = [y EXCEPT !.close = "closed"]
  OBVIOUS
<1>4. StreamOK(e, s) /\ wire' = wire /\ st' = [st EXCEPT ![e] = t]
  BY <1>1, <1>2, <1>3 DEF Inv, CloseReturns
<1>5. StreamOK(e, y) /\ y.link = "DEAD"
  BY <1>2, <1>4, DeadKeeps DEF StreamOK
<1>6. t = ClosedAs(y, "DEAD")
  BY <1>3, <1>5 DEF StreamOK, Core, Stream, ClosedAs, HowClosed
<1>7. StreamOK(e, t) /\ t.link = "DEAD" /\ t.close = "closed"
  BY ONLY <1>5, <1>6, ClosedKeeps DEF HowClosed
<1>8. Down(t) /\ t.close # "closing"
  BY <1>7 DEF Down
<1>9. Counters'
  BY CountersSame DEF CloseReturns
<1> QED
  BY <1>4, <1>7, <1>8, <1>9, QuietStep

LEMMA NewFields ==
    ASSUME NEW e \in End, NEW s, s = NewStream(e)
    PROVE  /\ s \in Stream(e)
           /\ s.link = "UNINITIALIZED" /\ s.win = MaxWindow[e] /\ s.size = MaxPacket[e]
           /\ s.txQueue = << >> /\ s.txSent = << >> /\ s.txCurrent = << >>
           /\ s.txFree = 0 /\ s.rxFree = 0 /\ s.rxQueue = 0 /\ s.txCtrl = Junk
           /\ s.alarms = {} /\ s.firing = "none" /\ s.close = "open"
<1>1. MaxWindow[e] \in {1, 2, 4} /\ MaxPacket[e] \in Nat
  BY ConfFacts
<1>2. Junk \in Control(e)
  BY PacketTypes
<1>3. PICK Q, D, P : Q = Seq(Item) /\ D = Seq(DataPacket) /\ P = Seq(Packet(e))
  OBVIOUS
<1>4. << >> \in Q /\ << >> \in D /\ << >> \in P
  BY <1>3
<1>5. s \in Stream(e)
  BY <1>1, <1>2, <1>3, <1>4 DEF NewStream, Stream, Links, AlarmTypes, Garbage
<1> QED
  BY <1>5 DEF NewStream

LEMMA NewKeeps ==
    ASSUME NEW e \in End PROVE StreamOK(e, NewStream(e))
<1>1. PICK s : s = NewStream(e)
  OBVIOUS
<1>2. /\ s \in Stream(e)
      /\ s.link = "UNINITIALIZED" /\ s.win = MaxWindow[e] /\ s.size = MaxPacket[e]
      /\ s.txQueue = << >> /\ s.txSent = << >> /\ s.txCurrent = << >>
      /\ s.txFree = 0 /\ s.rxFree = 0 /\ s.rxQueue = 0 /\ s.txCtrl = Junk
      /\ s.alarms = {} /\ s.firing = "none" /\ s.close = "open"
  BY <1>1, NewFields
<1>3. Len(<< >>) = 0
  OBVIOUS
<1>4. InUse(s) = 0
  BY ONLY <1>2, <1>3, DataInEmpty DEF InUse
<1>5. Buffers(s)
  BY ONLY <1>2, <1>4 DEF Buffers, NoPackets
<1>6. Params(e, s) /\ Events(s) /\ Woken(s) /\ Resends(s)
  BY ONLY <1>2 DEF Params, Events, Woken, Resends
<1>7. Len(s.txCurrent) <= 1 /\ CtrlFirst(s)
  BY ONLY <1>2, <1>3 DEF CtrlFirst
<1>8. Core(e, s)
  BY ONLY <1>2, <1>5, <1>6, <1>7 DEF Core
<1>9. Answers(s) /\ Scheduled(s)
  BY <1>2, PacketTypes DEF Answers, Scheduled
<1> QED
  BY <1>1, <1>8, <1>9 DEF StreamOK

LEMMA ActiveKeeps ==
    ASSUME NEW e \in End, NEW t,
           t = [NewStream(e) EXCEPT !.link = "ACTIVE", !.conf = AgreedConf,
                    !.win = AgreedConf.win, !.size = AgreedConf.size, !.ver = AgreedConf.ver,
                    !.txFree = AgreedConf.win, !.rxFree = AgreedConf.win,
                    !.sink = TRUE]
    PROVE  StreamOK(e, t) /\ t.close = "open"
<1>1. PICK s, w, z, v, c : /\ s = NewStream(e) /\ w = AgreedConf.win /\ z = AgreedConf.size
                           /\ v = AgreedConf.ver /\ c = AgreedConf
  OBVIOUS
<1>2. /\ s \in Stream(e)
      /\ s.link = "UNINITIALIZED" /\ s.win = MaxWindow[e] /\ s.size = MaxPacket[e]
      /\ s.txQueue = << >> /\ s.txSent = << >> /\ s.txCurrent = << >>
      /\ s.txFree = 0 /\ s.rxFree = 0 /\ s.rxQueue = 0 /\ s.txCtrl = Junk
      /\ s.alarms = {} /\ s.firing = "none" /\ s.close = "open"
  BY <1>1, NewFields
<1>3. w \in {1, 2, 4} /\ z \in Nat /\ v = 1 /\ w \in Nat /\ c \in {NoConf} \cup Proposals(e)
  BY <1>1, ConfFacts DEF Proposals
<1>4. t = [s EXCEPT !.link = "ACTIVE", !.conf = c, !.win = w, !.size = z, !.ver = v,
                    !.txFree = w, !.rxFree = w, !.sink = TRUE]
  BY <1>1, Zenon
<1>5. /\ t \in Stream(e)
      /\ t.link = "ACTIVE" /\ t.win = w /\ t.size = z /\ t.ver = v
      /\ t.txQueue = << >> /\ t.txSent = << >> /\ t.txCurrent = << >>
      /\ t.txFree = w /\ t.rxFree = w /\ t.rxQueue = 0 /\ t.txCtrl = Junk
      /\ t.sink = TRUE /\ t.close = "open"
  BY ONLY <1>2, <1>3, <1>4, ZenonT(60) DEF Stream, Links
<1>6. Len(<< >>) = 0
  OBVIOUS
<1>7. InUse(t) = 0
  BY ONLY <1>5, <1>6, DataInEmpty DEF InUse
<1>8. Buffers(t)
  BY ONLY <1>3, <1>5, <1>7 DEF Buffers, NoPackets, AllPackets
<1>9. Params(e, t) /\ Events(t) /\ Woken(t) /\ Resends(t)
  BY ONLY <1>1, <1>5 DEF Params, Events, Woken, Resends
<1>10. Len(t.txCurrent) <= 1 /\ CtrlFirst(t)
  BY ONLY <1>5, <1>6 DEF CtrlFirst
<1>11. Core(e, t)
  BY ONLY <1>5, <1>8, <1>9, <1>10 DEF Core
<1>12. Answers(t) /\ Scheduled(t)
  BY <1>5, PacketTypes DEF Answers, Scheduled
<1> QED
  BY <1>5, <1>11, <1>12 DEF StreamOK

LEMMA ReopenStep ==
    ASSUME Inv, NEW e \in End, Reopen(e) PROVE Inv'
<1>1. PICK f, t : f = Peer(e) /\ t = ScheduleLinkControlPacket(NewStream(e))
  OBVIOUS
<1>2. f \in End /\ f # e /\ Peer(f) = e /\ (\A g \in End : g = e \/ g = f)
  BY <1>1, PeerFacts
<1>3. StreamOK(e, t)
  BY <1>1, NewKeeps, ScheduleKeeps
<1>4. PICK i \in 0..Len(wire[e]), j \in 0..Len(wire[f]) :
          wire' = [wire EXCEPT ![e] = SubSeq(@, i + 1, Len(@)), ![f] = SubSeq(@, 1, j)]
  BY <1>1 DEF Reopen
<1>5. PICK we, wf : we = SubSeq(wire[e], i + 1, Len(wire[e])) /\ wf = SubSeq(wire[f], 1, j)
  OBVIOUS
<1>6. WireOK(e, wire[e]) /\ WireOK(f, wire[f]) /\ wire = [g \in End |-> wire[g]]
  BY <1>2 DEF Inv
<1>7. wire' = [g \in End |-> IF g = e THEN we ELSE wf]
  BY <1>2, <1>4, <1>5, <1>6
<1>8. ASSUME NEW g, NEW w, WireOK(g, w), NEW a \in Nat, NEW b \in Nat, a >= 1, b <= Len(w)
      PROVE  WireOK(g, SubSeq(w, a, b))
  <2>1. PICK P : P = Packet(Peer(g))
    OBVIOUS
  <2>2. w \in Seq(P) /\ Len(w) <= WireCap /\ Len(w) \in Nat /\ WireCap \in Nat
    BY <1>8, <2>1, SLAPAssumption DEF WireOK
  <2>3. a \in Int /\ b \in Int /\ \A k \in a..b : k \in 1..Len(w)
    BY <1>8, <2>2
  <2>4. \A k \in a..b : w[k] \in P
    BY ONLY <2>2, <2>3
  <2>5. PICK r : r = SubSeq(w, a, b)
    OBVIOUS
  <2>6. r \in Seq(P) /\ Len(r) = IF a <= b THEN b - a + 1 ELSE 0
    BY ONLY <2>3, <2>4, <2>5, SubSeqProperties
  <2>7. Len(r) <= WireCap
    BY <1>8, <2>2, <2>6
  <2> QED
    BY <2>1, <2>5, <2>6, <2>7 DEF WireOK
<1>9. Len(wire[e]) \in Nat /\ Len(wire[f]) \in Nat
  BY <1>6, LenProperties DEF WireOK
<1>10. WireOK(e, we)
  <2>1. PICK w, a, b : w = wire[e] /\ a = i + 1 /\ b = Len(w)
    OBVIOUS
  <2>2. a \in Nat /\ b \in Nat /\ a >= 1 /\ b <= Len(w) /\ WireOK(e, w) /\ we = SubSeq(w, a, b)
    BY <1>4, <1>5, <1>6, <1>9, <2>1
  <2> QED
    BY ONLY <1>8, <2>2
<1>11. WireOK(f, wf)
  <2>1. PICK w : w = wire[f]
    OBVIOUS
  <2>2. 1 \in Nat /\ j \in Nat /\ 1 >= 1 /\ j <= Len(w) /\ WireOK(f, w) /\ wf = SubSeq(w, 1, j)
    BY <1>4, <1>5, <1>6, <1>9, <2>1
  <2> QED
    BY ONLY <1>8, <2>2
<1>12. epoch \in [End -> Nat \ {0}] /\ MaxOpen \in [End -> Nat] /\ epoch[e] < MaxOpen[e]
  BY SLAPAssumption DEF Inv, Counters, Reopen
<1>13. Counters'
  <2>1. epoch[e] + 1 \in Nat \ {0}
    BY <1>12
  <2>2. epoch' \in [End -> Nat \ {0}]
    BY <1>12, <2>1 DEF Reopen
  <2>3. pushed' \in [End -> Nat] /\ losses' \in 0..MaxLoss
    BY DEF Inv, Counters, Reopen
  <2> QED
    BY <2>2, <2>3 DEF Counters
<1>14. ~OneLife
  <2>1. epoch[e] \in Nat \ {0} /\ MaxOpen[e] \in Nat
    BY <1>12
  <2> QED
    BY <1>12, <2>1 DEF OneLife
<1>15. st' = [st EXCEPT ![e] = t]
  BY <1>1 DEF Reopen
<1> QED
  BY <1>1, <1>3, <1>7, <1>10, <1>11, <1>13, <1>14, <1>15, EndStep

\* Two fresh ends and empty wires.
LEMMA StartInv ==
    ASSUME st = [e \in End |-> st[e]], \A e \in End : StreamOK(e, st[e]) /\ st[e].close = "open",
           wire = [e \in End |-> << >>], epoch = [e \in End |-> 1], pushed = [e \in End |-> 0],
           losses = 0
    PROVE  Inv
<1>1. \A e \in End : WireOK(e, wire[e])
  <2> TAKE e \in End
  <2>1. wire[e] = << >> /\ Len(<< >>) = 0 /\ WireCap \in Nat
    BY SLAPAssumption
  <2> QED
    BY <2>1 DEF WireOK
<1>2. \A e \in End : Farewell(e, wire[e])
  <2> TAKE e \in End
  <2>1. wire[e] = << >> /\ Len(<< >>) = 0 /\ st[e].close = "open"
    OBVIOUS
  <2> QED
    BY <2>1 DEF Farewell
<1>3. Counters
  BY SLAPAssumption DEF Counters
<1>4. wire = [e \in End |-> wire[e]]
  OBVIOUS
<1> QED
  BY <1>1, <1>2, <1>3, <1>4 DEF Inv

LEMMA InitInv == ASSUME Init PROVE Inv
<1>1. ASSUME NEW e \in End PROVE StreamOK(e, st[e]) /\ st[e].close = "open"
  <2>1. PICK n, t : n = NewStream(e) /\ t = ScheduleLinkControlPacket(n)
    OBVIOUS
  <2>2. StreamOK(e, n) /\ n.close = "open"
    BY <2>1, NewKeeps, NewFields
  <2>3. StreamOK(e, t) /\ t.close = n.close
    BY <2>1, <2>2, ScheduleKeeps DEF Goes
  <2>4. st[e] = t
    BY <2>1 DEF Init
  <2> QED
    BY <2>2, <2>3, <2>4
<1>2. /\ st = [e \in End |-> st[e]]
      /\ wire = [e \in End |-> << >>] /\ epoch = [e \in End |-> 1]
      /\ pushed = [e \in End |-> 0] /\ losses = 0
  BY DEF Init
<1> QED
  BY <1>1, <1>2, StartInv

LEMMA InitActiveInv == ASSUME InitActive PROVE Inv
<1>1. ASSUME NEW e \in End PROVE StreamOK(e, st[e]) /\ st[e].close = "open"
  <2>1. PICK t : t = [NewStream(e) EXCEPT !.link = "ACTIVE", !.conf = AgreedConf,
                    !.win = AgreedConf.win, !.size = AgreedConf.size, !.ver = AgreedConf.ver,
                    !.txFree = AgreedConf.win, !.rxFree = AgreedConf.win,
                    !.sink = TRUE]
    OBVIOUS
  <2>2. StreamOK(e, t) /\ t.close = "open"
    BY <2>1, ActiveKeeps
  <2>3. st[e] = t
    BY <2>1 DEF InitActive
  <2> QED
    BY <2>2, <2>3
<1>2. /\ st = [e \in End |-> st[e]]
      /\ wire = [e \in End |-> << >>] /\ epoch = [e \in End |-> 1]
      /\ pushed = [e \in End |-> 0] /\ losses = 0
  BY DEF InitActive
<1> QED
  BY <1>1, <1>2, StartInv

LEMMA NextInv == ASSUME Inv, [Next]_vars PROVE Inv'
<1>1. CASE Next
  <2>1. PICK e \in End : Step(e)
    BY <1>1 DEF Next
  <2>2. CASE \E a \in {"SEND", "RESEND", "ACK", "CONTROL"} : AlarmDue(e, a)
    BY <2>2, AlarmDueStep
  <2>3. CASE AlarmTriggered(e)
    BY <2>3, SendDataStep, ResendDataStep, AckAlarmStep, ResendControlStep DEF AlarmTriggered
  <2>4. CASE ReadEventTriggered(e)
    BY <2>4, ReadStep
  <2>5. CASE PushBytes(e)
    BY <2>5, PushStep
  <2>6. CASE PullBytes(e)
    BY <2>6, PullStep
  <2>7. CASE Close(e)
    BY <2>7, CloseStep
  <2>8. CASE CloseReturns(e)
    BY <2>8, CloseReturnsStep
  <2>9. CASE Reopen(e)
    BY <2>9, ReopenStep
  <2>10. CASE Lose(e)
    BY <2>10, LoseStep
  <2> QED
    BY <2>1, <2>2, <2>3, <2>4, <2>5, <2>6, <2>7, <2>8, <2>9, <2>10 DEF Step
<1>2. CASE UNCHANGED vars
  <2>1. PICK e : e \in End
    BY DEF End
  <2>2. PICK t : t = st[e]
    OBVIOUS
  <2>3. StreamOK(e, t) /\ st = [g \in End |-> st[g]]
    BY <2>1, <2>2 DEF Inv
  <2>4. st' = [st EXCEPT ![e] = t] /\ wire' = wire
    BY <1>2, <2>1, <2>2, <2>3 DEF vars
  <2>5. Counters'
    BY <1>2, CountersSame DEF vars
  <2>6. OneLife /\ t.close = "closing" /\ t.link = "DEAD" => Down(st[Peer(e)])
    BY <2>1, <2>2 DEF Inv, Farewell
  <2> QED
    BY <2>1, <2>2, <2>3, <2>4, <2>5, <2>6, QuietStep
<1> QED
  BY <1>1, <1>2

-----------------------------------------------------------------------------
(* What the invariant says of the stream.                                  *)

\* The invariant holds of a link that is established, and of one that starts up.
THEOREM InvHolds == Spec \/ SpecActive => []Inv
<1>1. Init \/ InitActive => Inv
  BY InitInv, InitActiveInv
<1>2. Inv /\ [Next]_vars => Inv'
  BY NextInv
<1> QED
  BY <1>1, <1>2, PTL DEF Spec, SpecActive

LEMMA CountsBounded ==
    ASSUME NEW e, NEW s, Core(e, s)
    PROVE  s.txFree \in 0..4 /\ s.rxFree \in 0..4 /\ s.rxQueue \in 0..4
<1>1. s \in Stream(e) /\ (NoPackets(s) \/ AllPackets(s))
  BY DEF Core, Buffers
<1>2. /\ s.txFree \in Nat /\ s.rxFree \in Nat /\ s.rxQueue \in Nat /\ InUse(s) \in Nat
      /\ s.win \in {1, 2, 4}
  BY <1>1, StreamFields, DataInStream
<1> QED
  BY ONLY <1>1, <1>2 DEF NoPackets, AllPackets

\* Type correctness: the members of both streams have the values their types
\* allow, no buffer count exceeds the largest window, and neither wire holds
\* more than the UART.
THEOREM TypeCorrect == Spec \/ SpecActive => []TypeOK
<1>1. Inv => TypeOK
  <2> SUFFICES ASSUME Inv PROVE TypeOK
    OBVIOUS
  <2>1. ASSUME NEW e \in End
        PROVE  /\ st[e].link \in {"UNINITIALIZED", "INITIALIZED", "ACTIVE", "DYING", "DEAD"}
               /\ st[e].win \in {1, 2, 4} /\ st[e].ver \in {0, 1, Garbage}
               /\ {st[e].expectedSeq, st[e].txSeqNum, st[e].currentTxAck} \subseteq 0..7
               /\ st[e].txFree \in 0..4 /\ st[e].rxFree \in 0..4 /\ st[e].rxQueue \in 0..4
               /\ st[e].alarms \subseteq {"SEND", "RESEND", "ACK", "CONTROL"}
               /\ st[e].firing \in {"none", "SEND", "RESEND", "ACK", "CONTROL"}
               /\ Len(st[e].txCurrent) <= 1
               /\ Len(wire[e]) <= WireCap
    <3>1. PICK s : s = st[e]
      OBVIOUS
    <3>2. Core(e, s) /\ s \in Stream(e) /\ Len(s.txCurrent) <= 1 /\ Len(wire[e]) <= WireCap
      BY <2>1, <3>1 DEF Inv, StreamOK, Core, WireOK
    <3>3. s.txFree \in 0..4 /\ s.rxFree \in 0..4 /\ s.rxQueue \in 0..4
      BY ONLY <3>2, CountsBounded
    <3>4. /\ s.link \in Links /\ s.win \in {1, 2, 4} /\ s.ver \in {0, 1, Garbage}
          /\ s.expectedSeq \in 0..7 /\ s.txSeqNum \in 0..7 /\ s.currentTxAck \in 0..7
          /\ s.alarms \in SUBSET AlarmTypes /\ s.firing \in AlarmTypes \cup {"none"}
      BY ONLY <3>2, StreamFields
    <3> QED
      BY ONLY <3>1, <3>2, <3>3, <3>4 DEF Links, AlarmTypes
  <2>2. losses \in 0..MaxLoss
    BY DEF Inv, Counters
  <2> QED
    BY <2>1, <2>2 DEF TypeOK
<1> QED
  BY <1>1, InvHolds, PTL

\* Whatever the two ends support and in whatever order CONN, ACCEPT, NEGO and
\* NEGO_RESP cross, ends that both consider the link up agree on its parameters.
THEOREM ParametersAgree == Spec \/ SpecActive => []ParamsAgree
<1>1. Inv => ParamsAgree
  <2> SUFFICES ASSUME Inv, \A e \in End : st[e].link = "ACTIVE", NEW e \in End
               PROVE  [win |-> st[e].win, size |-> st[e].size, ver |-> st[e].ver] = AgreedConf
    BY DEF ParamsAgree
  <2>1. /\ st[e].win = AgreedConf.win /\ st[e].size = AgreedConf.size
        /\ st[e].ver = AgreedConf.ver
    BY DEF Inv, StreamOK, Core, Params
  <2> QED
    BY <2>1 DEF AgreedConf
<1> QED
  BY <1>1, InvHolds, PTL

\* Each packet buffer is in one place, and m_txCtrl at most at the head of
\* m_txQueue, however acks, resends, control packets and refusals of the UART
\* interleave.
THEOREM BuffersAreConserved == Spec \/ SpecActive => []BuffersConserved
<1>1. Inv => BuffersConserved
  <2> SUFFICES ASSUME Inv, NEW e \in End, NEW s, s = st[e]
               PROVE  /\ IF s.txFree + (DataIn(s.txQueue) + DataIn(s.txCurrent) + Len(s.txSent))
                               + s.rxFree + s.rxQueue = 0
                         THEN s.link # "ACTIVE"
                         ELSE /\ s.txFree + (DataIn(s.txQueue) + DataIn(s.txCurrent)
                                                + Len(s.txSent)) = s.win
                              /\ s.rxFree + s.rxQueue = s.win
                      /\ \A i \in 2..Len(s.txQueue) : s.txQueue[i] # CtrlRef
    BY DEF BuffersConserved
  <2>1. Core(e, s) /\ s \in Stream(e) /\ Buffers(s) /\ CtrlFirst(s)
    BY DEF Inv, StreamOK, Core
  <2>2. PICK u : u = InUse(s)
    OBVIOUS
  <2>3. u = DataIn(s.txQueue) + DataIn(s.txCurrent) + Len(s.txSent)
    BY <2>2 DEF InUse
  <2>4. /\ s.txFree \in Nat /\ s.rxFree \in Nat /\ s.rxQueue \in Nat /\ u \in Nat
        /\ s.win \in {1, 2, 4}
    BY <2>1, <2>2, StreamFields, DataInStream
  <2>5. IF s.txFree + u + s.rxFree + s.rxQueue = 0
        THEN s.link # "ACTIVE"
        ELSE s.txFree + u = s.win /\ s.rxFree + s.rxQueue = s.win
    <3>1. PICK a, b, c, w : a = s.txFree /\ b = s.rxFree /\ c = s.rxQueue /\ w = s.win
      OBVIOUS
    <3>2. /\ (a = 0 /\ u = 0 /\ b = 0 /\ c = 0) \/ (a + u = w /\ b + c = w)
          /\ s.link = "ACTIVE" => a + u = w
      BY ONLY <2>1, <2>2, <3>1 DEF Buffers, NoPackets, AllPackets
    <3>3. a \in Nat /\ b \in Nat /\ c \in Nat /\ u \in Nat /\ w \in {1, 2, 4}
      BY ONLY <2>4, <3>1
    <3>4. IF a + u + b + c = 0 THEN s.link # "ACTIVE" ELSE a + u = w /\ b + c = w
      BY ONLY <3>2, <3>3
    <3> QED
      BY ONLY <3>1, <3>4
  <2>6. \A i \in 2..Len(s.txQueue) : s.txQueue[i] # CtrlRef
    BY <2>1, PacketTypes DEF CtrlFirst
  <2> QED
    BY ONLY <2>3, <2>5, <2>6
<1> QED
  BY <1>1, InvHolds, PTL

\* The events a reader and a writer wait for are set when there is something to
\* read, and when a packet is free.
THEOREM EventsMatch == Spec \/ SpecActive => []EventsMatchQueues
<1>1. Inv => EventsMatchQueues
  BY DEF Inv, StreamOK, Core, Events, EventsMatchQueues
<1> QED
  BY <1>1, InvHolds, PTL

\* While the link is up, unacknowledged packets have a resend alarm armed or its
\* handler waiting for the lock.
THEOREM UnackedIsResent == Spec \/ SpecActive => []SentHasResend
<1>1. Inv => SentHasResend
  BY DEF Inv, StreamOK, Core, Resends, SentHasResend
<1> QED
  BY <1>1, InvHolds, PTL

\* Whoever waits in PullBytes or PushBytes is woken when the link dies under its
\* user, and no later Reset undoes it.
THEOREM DeathIsHeard == Spec \/ SpecActive => []DeadWakesWaiters
<1>1. Inv => DeadWakesWaiters
  BY DEF Inv, StreamOK, Core, Woken, DeadWakesWaiters
<1> QED
  BY <1>1, InvHolds, PTL

\* If neither end is ever reopened, a Close that DISCONN_RESP answered finds the
\* other end down too, whatever was lost, repeated or resent on the way.
THEOREM DisconnectIsAgreed ==
    ASSUME OneLife PROVE Spec \/ SpecActive => []DisconnectAgreed
<1>1. Inv => DisconnectAgreed
  BY DEF Inv, Farewell, Down, DisconnectAgreed
<1> QED
  BY <1>1, InvHolds, PTL

=============================================================================
