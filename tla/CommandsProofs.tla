--------------------------- MODULE CommandsProofs ---------------------------
(***************************************************************************)
(* Proofs about module Commands, for every size of the pipe buffer, every  *)
(* set of command lines and all readings.                                  *)
(*                                                                         *)
(* Three definitions are recursive functions: Items (which items of a      *)
(* script are printed one way), Digits (the digits of a number) and Value  *)
(* (the number digits stand for).  What they compute is shown by           *)
(* induction, in the form of NatMin: a least counterexample does not       *)
(* exist.                                                                  *)
(***************************************************************************)
EXTENDS Commands, SequenceTheorems, WellFoundedInduction, TLAPS

\* A sequence of anything.
Sequence(s) == \E S : s \in Seq(S)

\* A set of natural numbers that is not empty has a least element.
LEMMA NatMin ==
  ASSUME NEW T \in SUBSET Nat, T # {}
  PROVE  \E m \in T : \A k \in T : m <= k
<1>1. IsWellFoundedOn(OpToRel(<, Nat), Nat)
  BY NatLessThanWellFounded
<1>2. PICK m \in T : \A y \in T : ~(<<y, m>> \in OpToRel(<, Nat))
  BY <1>1, WFMin
<1>3. \A y \in T : ~(y < m)
  BY <1>2 DEF OpToRel
<1> QED
  BY <1>3

\* Sequences one after the other.
LEMMA ConcatFacts ==
  ASSUME NEW s, NEW t, Sequence(s), Sequence(t)
  PROVE  /\ Sequence(s \o t)
         /\ Len(s) \in Nat /\ Len(t) \in Nat /\ Len(s \o t) = Len(s) + Len(t)
         /\ \A k \in 1 .. Len(s) : (s \o t)[k] = s[k]
         /\ \A k \in 1 .. Len(t) : (s \o t)[Len(s) + k] = t[k]
<1>1. PICK S : s \in Seq(S)
  BY DEF Sequence
<1>2. PICK T : t \in Seq(T)
  BY DEF Sequence
<1>3. s \in Seq(S \cup T) /\ t \in Seq(S \cup T)
  BY <1>1, <1>2
<1>4. s \o t \in Seq(S \cup T)
  BY <1>3
<1> QED
  BY <1>3, <1>4 DEF Sequence

\* A sequence is a function of its indices.
LEMMA SequenceDomain ==
  ASSUME NEW s, Sequence(s)
  PROVE  Len(s) \in Nat /\ DOMAIN s = 1 .. Len(s)
         /\ s = [k \in 1 .. Len(s) |-> s[k]]
BY DEF Sequence

LEMMA EmptySequence == Sequence(<< >>) /\ Len(<< >>) = 0
<1>1. << >> \in Seq({})
  OBVIOUS
<1> QED
  BY <1>1 DEF Sequence

LEMMA AppendFacts ==
  ASSUME NEW s, NEW x, Sequence(s)
  PROVE  /\ Sequence(Append(s, x))
         /\ Len(Append(s, x)) = Len(s) + 1 /\ Append(s, x)[Len(s) + 1] = x
         /\ \A k \in 1 .. Len(s) : Append(s, x)[k] = s[k]
<1>1. PICK S : s \in Seq(S)
  BY DEF Sequence
<1>2. s \in Seq(S \cup {x}) /\ x \in S \cup {x}
  BY <1>1
<1>3. Append(s, x) \in Seq(S \cup {x})
  BY <1>2
<1> QED
  BY <1>2, <1>3 DEF Sequence

\* A function of 1 .. n is a sequence.
LEMMA FunctionSequence ==
  ASSUME NEW n \in Nat, NEW f, f = [k \in 1 .. n |-> f[k]]
  PROVE  Sequence(f) /\ Len(f) = n
<1> DEFINE S == {f[k] : k \in 1 .. n}
<1>1. f \in [1 .. n -> S]
  OBVIOUS
<1>2. f \in Seq(S)
  BY <1>1
<1> QED
  BY <1>1, <1>2, SMTT(30) DEF Sequence

LEMMA SameSequence ==
  ASSUME NEW s, NEW t, Sequence(s), Sequence(t), Len(s) = Len(t),
         \A k \in 1 .. Len(t) : s[k] = t[k]
  PROVE  s = t
BY SequenceDomain

-----------------------------------------------------------------------------
\* The runs of Items: g[n] is what the first n items leave.
Taken(script, kind, m, g) ==
  g = [n \in 0 .. m |->
         IF n = 0 THEN << >>
         ELSE IF script[n].by \in kind THEN Append(g[n - 1], script[n].item)
         ELSE g[n - 1]]

LEMMA TakenExists ==
  ASSUME NEW script, NEW kind, NEW m \in Nat
  PROVE  \E g : Taken(script, kind, m, g)
<1> DEFINE T == {n \in Nat : ~ \E g : Taken(script, kind, n, g)}
<1> SUFFICES ASSUME T # {} PROVE FALSE
  OBVIOUS
<1>1. PICK n \in T : \A k \in T : n <= k
  BY NatMin
<1>2. n # 0
  <2>1. Taken(script, kind, 0, [k \in 0 .. 0 |-> << >>])
    BY DEF Taken
  <2> QED
    BY <2>1, <1>1
<1>3. n - 1 \in Nat /\ n - 1 \notin T
  BY <1>1, <1>2
<1>4. PICK g : Taken(script, kind, n - 1, g)
  BY <1>3
<1>5. PICK last : last = IF script[n].by \in kind THEN Append(g[n - 1], script[n].item)
                         ELSE g[n - 1]
  OBVIOUS
<1> DEFINE h == [k \in 0 .. n |-> IF k = n THEN last ELSE g[k]]
<1>6. Taken(script, kind, n, h)
  <2> SUFFICES ASSUME NEW k \in 0 .. n
               PROVE h[k] = IF k = 0 THEN << >>
                            ELSE IF script[k].by \in kind
                            THEN Append(h[k - 1], script[k].item)
                            ELSE h[k - 1]
    BY DEF Taken
  <2>1. \A i \in 0 .. (n - 1) :
          g[i] = IF i = 0 THEN << >>
                 ELSE IF script[i].by \in kind THEN Append(g[i - 1], script[i].item)
                 ELSE g[i - 1]
    BY <1>4 DEF Taken
  <2>2. CASE k = n
    <3>1. h[n] = last /\ h[n - 1] = g[n - 1]
      BY <1>3
    <3> QED
      BY <3>1, <2>2, <1>2, <1>5
  <2>3. CASE k # n
    <3>1. k \in 0 .. (n - 1) /\ h[k] = g[k]
      BY <2>3, <1>3
    <3>2. k # 0 => h[k - 1] = g[k - 1]
      BY <3>1, <1>3
    <3> QED
      BY <3>1, <3>2, <2>1
  <2> QED
    BY <2>2, <2>3
<1> QED
  BY <1>6, <1>1

LEMMA ItemsSteps ==
  ASSUME NEW script, NEW kind, Len(script) \in Nat
  PROVE  \E g : /\ g[0] = << >>
                /\ \A n \in 1 .. Len(script) :
                     g[n] = IF script[n].by \in kind
                            THEN Append(g[n - 1], script[n].item)
                            ELSE g[n - 1]
                /\ Items(script, kind) = g[Len(script)]
<1> DEFINE m == Len(script)
           a == CHOOSE g : g = [n \in 0 .. m |->
                   IF n = 0 THEN << >>
                   ELSE IF script[n].by \in kind THEN Append(g[n - 1], script[n].item)
                   ELSE g[n - 1]]
<1>1. \E g : Taken(script, kind, m, g)
  BY TakenExists
<1>2. a = [n \in 0 .. m |->
             IF n = 0 THEN << >>
             ELSE IF script[n].by \in kind THEN Append(a[n - 1], script[n].item)
             ELSE a[n - 1]]
  BY <1>1 DEF Taken
<1>3. Items(script, kind) = a[m]
  BY DEF Items
<1> HIDE DEF a
<1>4. a[0] = << >>
  BY <1>2
<1>5. ASSUME NEW n \in 1 .. m
      PROVE  a[n] = IF script[n].by \in kind THEN Append(a[n - 1], script[n].item)
                    ELSE a[n - 1]
  <2>1. n \in 0 .. m /\ n # 0
    OBVIOUS
  <2> QED
    BY <2>1, <1>2
<1> QED
  BY <1>3, <1>4, <1>5

\* The items that are printed one way are items of the script.
LEMMA ItemsFromScript ==
  ASSUME NEW script, NEW kind, Len(script) \in Nat
  PROVE  /\ Sequence(Items(script, kind))
         /\ \A k \in 1 .. Len(Items(script, kind)) :
              \E j \in 1 .. Len(script) : Items(script, kind)[k] = script[j].item
<1>1. PICK g : /\ g[0] = << >>
               /\ \A n \in 1 .. Len(script) :
                    g[n] = IF script[n].by \in kind
                           THEN Append(g[n - 1], script[n].item) ELSE g[n - 1]
               /\ Items(script, kind) = g[Len(script)]
  BY ItemsSteps
<1> DEFINE From(s) == /\ Sequence(s)
                      /\ \A k \in 1 .. Len(s) :
                           \E j \in 1 .. Len(script) : s[k] = script[j].item
           T == {n \in 0 .. Len(script) : ~From(g[n])}
<1>2. SUFFICES ASSUME T # {} PROVE FALSE
  BY <1>1
<1>3. PICK m \in T : \A k \in T : m <= k
  <2>1. T \in SUBSET Nat
    OBVIOUS
  <2> HIDE DEF T
  <2> QED
    BY <2>1, <1>2, NatMin
<1>4. m # 0
  <2>1. From(<< >>)
    BY EmptySequence
  <2> QED
    BY <2>1, <1>1, <1>3
<1>5. m \in 1 .. Len(script)
  BY <1>3, <1>4
<1>6. From(g[m - 1])
  BY <1>3, <1>5
<1>7. CASE script[m].by \in kind
  <2>1. PICK s : s = g[m - 1]
    OBVIOUS
  <2>2. PICK x : x = script[m].item
    OBVIOUS
  <2>3. g[m] = Append(s, x)
    BY <2>1, <2>2, <1>1, <1>5, <1>7
  <2>4. Sequence(s) /\ Len(s) \in Nat
    BY <2>1, <1>6, SequenceDomain
  <2>5. /\ Sequence(Append(s, x)) /\ Len(Append(s, x)) = Len(s) + 1
        /\ Append(s, x)[Len(s) + 1] = x
        /\ \A k \in 1 .. Len(s) : Append(s, x)[k] = s[k]
    BY <2>4, AppendFacts
  <2>6. ASSUME NEW k \in 1 .. (Len(s) + 1)
        PROVE  \E j \in 1 .. Len(script) : Append(s, x)[k] = script[j].item
    <3>1. CASE k = Len(s) + 1
      BY <3>1, <2>2, <2>5, <1>5
    <3>2. CASE k # Len(s) + 1
      <4>1. k \in 1 .. Len(s)
        BY <3>2, <2>4
      <4> QED
        BY <4>1, <2>1, <2>5, <1>6
    <3> QED
      BY <3>1, <3>2
  <2>7. From(Append(s, x))
    BY <2>5, <2>6
  <2> QED
    BY <2>3, <2>7, <1>3
<1>8. CASE script[m].by \notin kind
  <2>1. g[m] = g[m - 1]
    BY <1>1, <1>5, <1>8
  <2> QED
    BY <2>1, <1>3, <1>6
<1> QED
  BY <1>7, <1>8

\* If all items of a script are printed this way, none is left out.
LEMMA ItemsAll ==
  ASSUME NEW script, NEW kind, Len(script) \in Nat,
         \A n \in 1 .. Len(script) : script[n].by \in kind
  PROVE  /\ Len(Items(script, kind)) = Len(script)
         /\ \A k \in 1 .. Len(script) : Items(script, kind)[k] = script[k].item
<1>1. PICK g : /\ g[0] = << >>
               /\ \A n \in 1 .. Len(script) :
                    g[n] = IF script[n].by \in kind
                           THEN Append(g[n - 1], script[n].item) ELSE g[n - 1]
               /\ Items(script, kind) = g[Len(script)]
  BY ItemsSteps
<1> DEFINE All(n, s) == /\ Sequence(s) /\ Len(s) = n
                        /\ \A k \in 1 .. n : s[k] = script[k].item
           T == {n \in 0 .. Len(script) : ~All(n, g[n])}
<1>2. SUFFICES ASSUME T # {} PROVE FALSE
  BY <1>1
<1>3. PICK m \in T : \A k \in T : m <= k
  <2>1. T \in SUBSET Nat
    OBVIOUS
  <2> HIDE DEF T
  <2> QED
    BY <2>1, <1>2, NatMin
<1>4. m # 0
  <2>1. All(0, << >>)
    BY EmptySequence
  <2> QED
    BY <2>1, <1>1, <1>3
<1>5. m \in 1 .. Len(script)
  BY <1>3, <1>4
<1>6. All(m - 1, g[m - 1])
  BY <1>3, <1>5
<1>7. PICK s : s = g[m - 1]
  OBVIOUS
<1>8. PICK x : x = script[m].item
  OBVIOUS
<1>9. g[m] = Append(s, x)
  BY <1>1, <1>5, <1>7, <1>8
<1>10. Sequence(s) /\ Len(s) = m - 1 /\ Len(s) \in Nat
  BY <1>6, <1>7, SequenceDomain
<1>11. /\ Sequence(Append(s, x)) /\ Len(Append(s, x)) = Len(s) + 1
       /\ Append(s, x)[Len(s) + 1] = x
       /\ \A k \in 1 .. Len(s) : Append(s, x)[k] = s[k]
  BY <1>10, AppendFacts
<1>12. Len(s) + 1 = m
  BY <1>5, <1>10
<1>13. ASSUME NEW k \in 1 .. m PROVE Append(s, x)[k] = script[k].item
  <2>1. CASE k = m
    BY <2>1, <1>8, <1>11, <1>12
  <2>2. CASE k # m
    <3>1. k \in 1 .. (m - 1)
      BY <2>2, <1>5
    <3> QED
      BY <3>1, <1>6, <1>7, <1>10, <1>11
  <2> QED
    BY <2>1, <2>2
<1>14. All(m, Append(s, x))
  BY <1>11, <1>12, <1>13
<1> QED
  BY <1>3, <1>9, <1>14

\* If none is printed this way, nothing is.
LEMMA ItemsNone ==
  ASSUME NEW script, NEW kind, Len(script) \in Nat,
         \A n \in 1 .. Len(script) : script[n].by \notin kind
  PROVE  Items(script, kind) = << >>
<1>1. PICK g : /\ g[0] = << >>
               /\ \A n \in 1 .. Len(script) :
                    g[n] = IF script[n].by \in kind
                           THEN Append(g[n - 1], script[n].item) ELSE g[n - 1]
               /\ Items(script, kind) = g[Len(script)]
  BY ItemsSteps
<1> DEFINE T == {n \in 0 .. Len(script) : g[n] # << >>}
<1>2. SUFFICES ASSUME T # {} PROVE FALSE
  BY <1>1
<1>3. PICK m \in T : \A k \in T : m <= k
  <2>1. T \in SUBSET Nat
    OBVIOUS
  <2> HIDE DEF T
  <2> QED
    BY <2>1, <1>2, NatMin
<1>4. m \in 1 .. Len(script)
  BY <1>1, <1>3
<1>5. g[m - 1] = << >>
  BY <1>3, <1>4
<1>6. g[m] = g[m - 1]
  BY <1>1, <1>4
<1> QED
  BY <1>3, <1>5, <1>6

-----------------------------------------------------------------------------
\* What an item is called and how it is printed.
LEMMA TextFacts ==
  ASSUME NEW w
  PROVE  Text(w).by = "say" /\ Text(w).item = [what |-> w] /\ Text(w).item.what = w
BY DEF Text, Say

LEMMA NumberFacts ==
  ASSUME NEW what, NEW digits, NEW base, NEW unit, NEW value
  PROVE  LET x == Number(what, digits, base, unit, value)
         IN  /\ x.what = what /\ x.digits = digits /\ x.base = base
             /\ x.unit = unit /\ x.value = value
BY DEF Number

LEMMA DecimalFacts ==
  ASSUME NEW what, NEW n, NEW width
  PROVE  /\ Decimal(what, n, width).by = "put"
         /\ Decimal(what, n, width).item.what = what
         /\ Decimal(what, n, width).item
              = Number(what, print_num(n, width), 10, "none", n)
BY NumberFacts DEF Decimal, Put

LEMMA HexFacts ==
  ASSUME NEW what, NEW n, NEW unit
  PROVE  /\ Hex(what, n, unit).by = "put"
         /\ Hex(what, n, unit).item.what = what
         /\ Hex(what, n, unit).item
              = Number(what, vga_print_hex(IF unit = "KB" THEN n \div 1024 ELSE n),
                       16, unit, n)
BY NumberFacts DEF Hex, Put

LEMMA SizeFacts ==
  ASSUME NEW what, NEW n
  PROVE  /\ Size(what, n).by = "say"
         /\ Size(what, n).item.what = what
         /\ Size(what, n).item
              = Number(what, format_size(n).digits, 10, format_size(n).unit, n)
BY NumberFacts DEF Size, Say

\* Short sequences.
LEMMA Tuple1 ==
  ASSUME NEW a
  PROVE  Sequence(<<a>>) /\ Len(<<a>>) = 1 /\ <<a>>[1] = a
<1>1. <<a>> \in Seq({a})
  OBVIOUS
<1> QED
  BY <1>1 DEF Sequence

LEMMA Tuple2 ==
  ASSUME NEW a, NEW b
  PROVE  Sequence(<<a, b>>) /\ Len(<<a, b>>) = 2
         /\ <<a, b>>[1] = a /\ <<a, b>>[2] = b
<1>1. <<a, b>> \in Seq({a, b})
  OBVIOUS
<1> QED
  BY <1>1 DEF Sequence

LEMMA Tuple4 ==
  ASSUME NEW a, NEW b, NEW d, NEW e
  PROVE  LET s == <<a, b, d, e>>
         IN  /\ Sequence(s) /\ Len(s) = 4
             /\ s[1] = a /\ s[2] = b /\ s[3] = d /\ s[4] = e
<1>1. <<a, b, d, e>> \in Seq({a, b, d, e})
  OBVIOUS
<1> QED
  BY <1>1 DEF Sequence

LEMMA Tuple6 ==
  ASSUME NEW a, NEW b, NEW d, NEW e, NEW f, NEW g
  PROVE  LET s == <<a, b, d, e, f, g>>
         IN  /\ Sequence(s) /\ Len(s) = 6
             /\ s[1] = a /\ s[2] = b /\ s[3] = d /\ s[4] = e /\ s[5] = f /\ s[6] = g
<1>1. <<a, b, d, e, f, g>> \in Seq({a, b, d, e, f, g})
  OBVIOUS
<1> QED
  BY <1>1 DEF Sequence

LEMMA OneAndFive ==
  ASSUME NEW a, NEW b, NEW d, NEW e, NEW f, NEW g
  PROVE  <<a>> \o <<b, d, e, f, g>> = <<a, b, d, e, f, g>>
<1>1. PICK t : t = <<b, d, e, f, g>>
  OBVIOUS
<1>2. t \in Seq({b, d, e, f, g})
  BY <1>1
<1>3. /\ Sequence(t) /\ Len(t) = 5
      /\ t[1] = b /\ t[2] = d /\ t[3] = e /\ t[4] = f /\ t[5] = g
  BY <1>1, <1>2 DEF Sequence
<1>4. PICK u : u = <<a>> \o t
  OBVIOUS
<1>5. PICK s : s = <<a, b, d, e, f, g>>
  OBVIOUS
<1>6. /\ Sequence(s) /\ Len(s) = 6
      /\ s[1] = a /\ s[2] = b /\ s[3] = d /\ s[4] = e /\ s[5] = f /\ s[6] = g
  BY <1>5, Tuple6
<1>7. /\ Sequence(u) /\ Len(u) = 1 + 5
      /\ \A k \in 1 .. 1 : u[k] = <<a>>[k]
      /\ \A k \in 1 .. 5 : u[1 + k] = t[k]
  <2>1. PICK v : v = <<a>>
    OBVIOUS
  <2>2. Sequence(v) /\ Len(v) = 1 /\ u = v \o t
    BY <2>1, <1>4, Tuple1
  <2>4. Sequence(v) /\ Sequence(t) /\ u = v \o t
    BY <2>2, <1>3
  <2> HIDE <2>1
  <2>3. /\ Sequence(u) /\ Len(u) = Len(v) + Len(t)
        /\ \A k \in 1 .. Len(v) : u[k] = v[k]
        /\ \A k \in 1 .. Len(t) : u[Len(v) + k] = t[k]
    BY ONLY <2>4, ConcatFacts
  <2> QED
    BY <2>1, <2>2, <2>3, <1>3
<1>8. /\ Len(u) = 6
      /\ u[1] = a /\ u[2] = b /\ u[3] = d /\ u[4] = e /\ u[5] = f /\ u[6] = g
  <2>1. u[1] = a
    BY <1>7, Tuple1
  <2>2. u[1 + 1] = b /\ u[1 + 2] = d /\ u[1 + 3] = e /\ u[1 + 4] = f /\ u[1 + 5] = g
    BY <1>3, <1>7
  <2>3. 1 + 1 = 2 /\ 1 + 2 = 3 /\ 1 + 3 = 4 /\ 1 + 4 = 5 /\ 1 + 5 = 6
    OBVIOUS
  <2> QED
    BY <2>1, <2>2, <2>3, <1>7
<1>9. \A k \in 1 .. 6 : k = 1 \/ k = 2 \/ k = 3 \/ k = 4 \/ k = 5 \/ k = 6
  OBVIOUS
<1>10. \A k \in 1 .. Len(s) : u[k] = s[k]
  BY <1>6, <1>8, <1>9
<1>11. u = s
  BY <1>6, <1>7, <1>8, <1>10, SameSequence
<1> QED
  BY <1>1, <1>4, <1>5, <1>11

\* Item x shows w and is printed in one of the ways of kind.
Shows(x, w, kind) == x.by \in kind /\ x.item.what = w

\* A script shows what, item by item.
Prints(script, what, kind) ==
  /\ Sequence(script) /\ Sequence(what) /\ Len(script) = Len(what)
  /\ \A k \in 1 .. Len(what) : Shows(script[k], what[k], kind)

LEMMA TextShows ==
  ASSUME NEW w, NEW kind, "say" \in kind
  PROVE  Shows(Text(w), w, kind)
BY TextFacts DEF Shows

LEMMA SizeShows ==
  ASSUME NEW w, NEW n, NEW kind, "say" \in kind
  PROVE  Shows(Size(w, n), w, kind)
BY SizeFacts DEF Shows

LEMMA HexShows ==
  ASSUME NEW w, NEW n, NEW unit, NEW kind, "put" \in kind
  PROVE  Shows(Hex(w, n, unit), w, kind)
BY HexFacts DEF Shows

LEMMA DecimalShows ==
  ASSUME NEW w, NEW n, NEW width, NEW kind, "put" \in kind
  PROVE  Shows(Decimal(w, n, width), w, kind)
BY DecimalFacts DEF Shows

LEMMA Prints1 ==
  ASSUME NEW x, NEW w, NEW kind, Shows(x, w, kind)
  PROVE  Prints(<<x>>, <<w>>, kind)
<1>1. \A k \in 1 .. 1 : k = 1
  OBVIOUS
<1> QED
  BY <1>1, Tuple1 DEF Prints

LEMMA Prints4 ==
  ASSUME NEW x1, NEW x2, NEW x3, NEW x4, NEW w1, NEW w2, NEW w3, NEW w4, NEW kind,
         Shows(x1, w1, kind), Shows(x2, w2, kind), Shows(x3, w3, kind),
         Shows(x4, w4, kind)
  PROVE  Prints(<<x1, x2, x3, x4>>, <<w1, w2, w3, w4>>, kind)
<1>1. \A k \in 1 .. 4 : k = 1 \/ k = 2 \/ k = 3 \/ k = 4
  OBVIOUS
<1>2. PICK s : s = <<x1, x2, x3, x4>>
  OBVIOUS
<1>3. PICK w : w = <<w1, w2, w3, w4>>
  OBVIOUS
<1>4. Sequence(s) /\ Len(s) = 4 /\ s[1] = x1 /\ s[2] = x2 /\ s[3] = x3 /\ s[4] = x4
  BY <1>2, Tuple4
<1>5. Sequence(w) /\ Len(w) = 4 /\ w[1] = w1 /\ w[2] = w2 /\ w[3] = w3 /\ w[4] = w4
  BY <1>3, Tuple4
<1>6. Prints(s, w, kind)
  BY ONLY <1>1, <1>4, <1>5, Shows(x1, w1, kind), Shows(x2, w2, kind),
          Shows(x3, w3, kind), Shows(x4, w4, kind) DEF Prints
<1> QED
  BY <1>2, <1>3, <1>6

LEMMA Prints6 ==
  ASSUME NEW x1, NEW x2, NEW x3, NEW x4, NEW x5, NEW x6,
         NEW w1, NEW w2, NEW w3, NEW w4, NEW w5, NEW w6, NEW kind,
         Shows(x1, w1, kind), Shows(x2, w2, kind), Shows(x3, w3, kind),
         Shows(x4, w4, kind), Shows(x5, w5, kind), Shows(x6, w6, kind)
  PROVE  Prints(<<x1, x2, x3, x4, x5, x6>>, <<w1, w2, w3, w4, w5, w6>>, kind)
<1>1. \A k \in 1 .. 6 : k = 1 \/ k = 2 \/ k = 3 \/ k = 4 \/ k = 5 \/ k = 6
  OBVIOUS
<1>2. PICK s : s = <<x1, x2, x3, x4, x5, x6>>
  OBVIOUS
<1>3. PICK w : w = <<w1, w2, w3, w4, w5, w6>>
  OBVIOUS
<1>4. /\ Sequence(s) /\ Len(s) = 6 /\ s[1] = x1 /\ s[2] = x2 /\ s[3] = x3
      /\ s[4] = x4 /\ s[5] = x5 /\ s[6] = x6
  BY <1>2, Tuple6
<1>5. /\ Sequence(w) /\ Len(w) = 6 /\ w[1] = w1 /\ w[2] = w2 /\ w[3] = w3
      /\ w[4] = w4 /\ w[5] = w5 /\ w[6] = w6
  BY <1>3, Tuple6
<1>6. Prints(s, w, kind)
  BY ONLY <1>1, <1>4, <1>5, Shows(x1, w1, kind), Shows(x2, w2, kind),
          Shows(x3, w3, kind), Shows(x4, w4, kind), Shows(x5, w5, kind),
          Shows(x6, w6, kind) DEF Prints
<1> QED
  BY <1>2, <1>3, <1>6

-----------------------------------------------------------------------------
\* hex_to_int: the value of a hexadecimal character, or -1.
LEMMA HexDigits ==
  /\ DOMAIN hex = 1 .. 16 /\ DOMAIN lower = 1 .. 6
  /\ hex[1] = "0" /\ hex[16] = "F"
BY DEF hex, lower

LEMMA PositionFacts ==
  ASSUME NEW ch, NEW seq, IsIn(ch, seq)
  PROVE  Position(ch, seq) \in DOMAIN seq /\ seq[Position(ch, seq)] = ch
BY DEF IsIn, Position

LEMMA HexValue ==
  ASSUME NEW ch
  PROVE  hex_to_int(ch) \in -1 .. 15
<1>1. CASE IsIn(ch, hex)
  <2>1. Position(ch, hex) \in 1 .. 16
    BY <1>1, PositionFacts, HexDigits
  <2> QED
    BY <2>1, <1>1 DEF hex_to_int
<1>2. CASE ~IsIn(ch, hex) /\ IsIn(ch, lower)
  <2>1. Position(ch, lower) \in 1 .. 6
    BY <1>2, PositionFacts, HexDigits
  <2>2. hex_to_int(ch) = Position(ch, lower) - 1 + 10
    BY <1>2 DEF hex_to_int
  <2> QED
    BY <2>1, <2>2
<1>3. CASE ~IsIn(ch, hex) /\ ~IsIn(ch, lower)
  BY <1>3 DEF hex_to_int
<1> QED
  BY <1>1, <1>2, <1>3

\* The arguments COLOR looks at.
LEMMA ColourArguments ==
  ASSUME NEW cmd, IsCommand(cmd), cmd[1] = "COLOR", Len(cmd) # 1,
         current_text_color \in 0 .. 15
  PROVE  /\ Tail(cmd) # << >> /\ 2 \in DOMAIN cmd
         /\ Background(Tail(cmd)) = hex_to_int(cmd[2])
         /\ 3 \in DOMAIN cmd => Foreground(Tail(cmd)) = hex_to_int(cmd[3])
         /\ 3 \notin DOMAIN cmd => Foreground(Tail(cmd)) = current_text_color
         /\ Accepted(Tail(cmd))
              <=> \A k \in {2, 3} \cap DOMAIN cmd : hex_to_int(cmd[k]) >= 0
<1>1. cmd \in Seq(STRING) /\ cmd # << >>
  BY DEF IsCommand
<1>2. PICK n : n = Len(cmd)
  OBVIOUS
<1>3. n \in Nat /\ n # 0 /\ DOMAIN cmd = 1 .. n
  BY <1>1, <1>2
<1>4. n # 1
  BY <1>2
<1>5. PICK args : args = Tail(cmd)
  OBVIOUS
<1>6. args \in Seq(STRING) /\ Len(args) = n - 1
      /\ \A k \in 1 .. (n - 1) : args[k] = cmd[k + 1]
  BY <1>1, <1>2, <1>3, <1>5
<1>7. args # << >> /\ args[1] = cmd[2] /\ 2 \in DOMAIN cmd
  BY <1>3, <1>4, <1>6
<1>8. CASE 3 \in DOMAIN cmd
  <2>1. Len(args) >= 2 /\ args[2] = cmd[3]
    BY <1>3, <1>6, <1>8
  <2>2. Background(args) = hex_to_int(cmd[2]) /\ Foreground(args) = hex_to_int(cmd[3])
    BY <2>1, <1>7 DEF Background, Foreground
  <2>3. {2, 3} \cap DOMAIN cmd = {2, 3}
    BY <1>7, <1>8
  <2>4. Accepted(args) <=> \A k \in {2, 3} : hex_to_int(cmd[k]) >= 0
    BY <2>2 DEF Accepted
  <2> QED
    BY <2>2, <2>3, <2>4, <1>5, <1>7, <1>8
<1>9. CASE 3 \notin DOMAIN cmd
  <2>1. ~(Len(args) >= 2)
    BY <1>3, <1>6, <1>9
  <2>2. Background(args) = hex_to_int(cmd[2]) /\ Foreground(args) = current_text_color
    BY <2>1, <1>7 DEF Background, Foreground
  <2>3. {2, 3} \cap DOMAIN cmd = {2}
    BY <1>7, <1>9
  <2>4. Accepted(args) <=> \A k \in {2} : hex_to_int(cmd[k]) >= 0
    BY <2>2 DEF Accepted
  <2> QED
    BY <2>2, <2>3, <2>4, <1>5, <1>7, <1>9
<1> QED
  BY <1>8, <1>9

\* The ways in which what a command prints is printed.
Ways == IF capturing_output THEN {"say"} ELSE {"say", "put"}

\* What a command prints is what Alone says; captured, all of it goes to the
\* buffer, but for the commands that print past the capture.
LEMMA ScriptPrints ==
  ASSUME NEW cmd, IsCommand(cmd), NEW r, capturing_output \in BOOLEAN,
         current_text_color \in 0 .. 15,
         capturing_output => ~PastCapture(cmd),
         ~capturing_output => cmd[1] # "SHUTDOWN"
  PROVE  Prints(Script(cmd, r), Alone(cmd), Ways)
<1>1. "say" \in Ways /\ (~capturing_output => "put" \in Ways)
  BY DEF Ways
<1>2. CASE cmd[1] = "MEM"
  <2>1. Script(cmd, r) = cmd_mem(r)
    BY <1>2 DEF Script
  <2>2. Alone(cmd) = MemShows
    BY <1>2 DEF Alone
  <2>3. CASE capturing_output
    <3>1. cmd_mem(r)
            = <<Text("Memory Statistics"), Size("Total RAM", r.total),
                Size("Free RAM", r.free), Size("Used RAM", r.total - r.free),
                Size("Heap Used", r.heap_used), Size("Heap Free", r.heap_free)>>
      BY <2>3, OneAndFive, ZenonT(60) DEF cmd_mem
    <3>2. Prints(cmd_mem(r), MemShows, Ways)
      BY ONLY <3>1, <1>1, Prints6, TextShows, SizeShows DEF MemShows
    <3> QED
      BY <3>2, <2>1, <2>2
  <2>4. CASE ~capturing_output
    <3>1. cmd_mem(r)
            = <<Text("Memory Statistics"), Hex("Total RAM", r.total, "KB"),
                Hex("Free RAM", r.free, "KB"), Hex("Used RAM", r.total - r.free, "KB"),
                Hex("Heap Used", r.heap_used, "none"), Hex("Heap Free", r.heap_free, "none")>>
      BY <2>4, OneAndFive, ZenonT(60) DEF cmd_mem
    <3>2. Prints(cmd_mem(r), MemShows, Ways)
      BY ONLY <3>1, <2>4, <1>1, Prints6, TextShows, HexShows DEF MemShows
    <3> QED
      BY <3>2, <2>1, <2>2
  <2> QED
    BY <2>3, <2>4
<1>3. CASE cmd[1] = "DATE"
  <2>1. ~capturing_output
    BY <1>3 DEF PastCapture
  <2>2. Script(cmd, r) = cmd_date(r)
    BY <1>3 DEF Script
  <2>3. Alone(cmd) = DateShows
    BY <1>3 DEF Alone
  <2>4. Prints(cmd_date(r), DateShows, Ways)
    BY ONLY <2>1, <1>1, Prints6, TextShows, DecimalShows DEF cmd_date, DateShows
  <2> QED
    BY <2>2, <2>3, <2>4
<1>4. CASE cmd[1] = "TIME"
  <2>1. ~capturing_output
    BY <1>4 DEF PastCapture
  <2>2. Script(cmd, r) = cmd_time(r)
    BY <1>4 DEF Script
  <2>3. Alone(cmd) = TimeShows
    BY <1>4 DEF Alone
  <2>4. Prints(cmd_time(r), TimeShows, Ways)
    BY ONLY <2>1, <1>1, Prints6, TextShows, DecimalShows DEF cmd_time, TimeShows
  <2> QED
    BY <2>2, <2>3, <2>4
<1>5. CASE cmd[1] = "COLOR" /\ Len(cmd) = 1
  <2>1. ~capturing_output
    BY <1>5 DEF PastCapture
  <2>2. Tail(cmd) = << >>
    <3>1. cmd \in Seq(STRING) /\ cmd # << >> /\ Len(cmd) = 1
      BY <1>5 DEF IsCommand
    <3>2. Tail(cmd) \in Seq(STRING) /\ Len(Tail(cmd)) = 0
      BY <3>1
    <3> QED
      BY <3>2, EmptySeq
  <2>3. Script(cmd, r) = cmd_color(Tail(cmd))
    BY <1>5 DEF Script
  <2>4. cmd_color(<< >>) = <<Text("BG="), Hex("bg", current_bg_color, "none"),
                             Text("FG="), Hex("fg", current_text_color, "none")>>
    BY <2>1 DEF cmd_color
  <2>5. Alone(cmd) = ColourShows
    BY <1>5 DEF Alone
  <2>6. Prints(cmd_color(<< >>), ColourShows, Ways)
    BY ONLY <2>1, <2>4, <1>1, Prints4, TextShows, HexShows DEF ColourShows
  <2> QED
    BY <2>2, <2>3, <2>5, <2>6
<1>6. CASE cmd[1] = "COLOR" /\ Len(cmd) # 1
  <2>1. Script(cmd, r) = cmd_color(Tail(cmd))
    BY <1>6 DEF Script
  <2>2. cmd_color(Tail(cmd)) = <<Text(ColourAnswer(cmd))>>
    BY <1>6, ColourArguments DEF cmd_color, ColourAnswer
  <2>3. Alone(cmd) = <<ColourAnswer(cmd)>>
    BY <1>6 DEF Alone
  <2>4. Prints(<<Text(ColourAnswer(cmd))>>, <<ColourAnswer(cmd)>>, Ways)
    BY ONLY <1>1, Prints1, TextShows
  <2> QED
    BY <2>1, <2>2, <2>3, <2>4
<1>7. CASE cmd[1] = "HELP"
  <2>1. Script(cmd, r) = [k \in 1 .. 8 |-> Text("HELP")]
    BY <1>7 DEF Script, Repeat
  <2>2. Alone(cmd) = [k \in 1 .. 8 |-> "HELP"]
    BY <1>7 DEF Alone
  <2>3. PICK s : s = [k \in 1 .. 8 |-> Text("HELP")]
    OBVIOUS
  <2>4. PICK w : w = [k \in 1 .. 8 |-> "HELP"]
    OBVIOUS
  <2>5. Sequence(s) /\ Len(s) = 8 /\ \A k \in 1 .. 8 : s[k] = Text("HELP")
    BY <2>3, FunctionSequence, ZenonT(60)
  <2>6. Sequence(w) /\ Len(w) = 8 /\ \A k \in 1 .. 8 : w[k] = "HELP"
    BY <2>4, FunctionSequence, ZenonT(60)
  <2>7. Shows(Text("HELP"), "HELP", Ways)
    BY ONLY <1>1, TextShows
  <2>8. Prints(s, w, Ways)
    BY ONLY <2>5, <2>6, <2>7 DEF Prints
  <2> QED
    BY <2>1, <2>2, <2>3, <2>4, <2>8
<1>8. CASE cmd[1] = "ECHO"
  <2>1. PICK w : w = IF Len(cmd) = 1 THEN "ECHO is on" ELSE cmd[2]
    OBVIOUS
  <2>2. Script(cmd, r) = <<Text(w)>>
    BY <2>1, <1>8 DEF Script
  <2>3. Alone(cmd) = <<w>>
    BY <2>1, <1>8 DEF Alone
  <2>4. Prints(<<Text(w)>>, <<w>>, Ways)
    BY ONLY <1>1, Prints1, TextShows
  <2> QED
    BY <2>2, <2>3, <2>4
<1>9. CASE cmd[1] \in {"EMPTY", "CLS"}
  <2>1. Script(cmd, r) = << >>
    BY <1>9 DEF Script
  <2>2. Alone(cmd) = << >>
    BY <1>9 DEF Alone
  <2> QED
    BY <2>1, <2>2, EmptySequence DEF Prints
<1>10. CASE cmd[1] = "CPU"
  <2>6. PICK y : y = [what |-> "CPU", vendor |-> r.vendor,
                      features |-> {"FPU", "MMX", "SSE", "SSE2", "SSE3"} \cap r.features]
    OBVIOUS
  <2>7. PICK x : x = Say(y)
    OBVIOUS
  <2>1. <<x>> = cmd_cpu(r) /\ x.by = "say" /\ x.item.what = "CPU"
    <3>1. x.by = "say" /\ x.item = y /\ y.what = "CPU"
      BY <2>6, <2>7 DEF Say
    <3>2. cmd_cpu(r) = <<x>>
      BY <2>6, <2>7 DEF cmd_cpu
    <3> QED
      BY <3>1, <3>2
  <2>2. Script(cmd, r) = cmd_cpu(r)
    BY <1>10 DEF Script
  <2>3. Alone(cmd) = <<"CPU">>
    BY <1>10 DEF Alone
  <2>4. Shows(x, "CPU", Ways)
    BY <2>1, <1>1 DEF Shows
  <2>5. Prints(<<x>>, <<"CPU">>, Ways)
    BY ONLY <2>4, Prints1
  <2> QED
    BY <2>1, <2>2, <2>3, <2>5
<1>11. CASE cmd[1] \in {"VER", "PAUSE", "REBOOT", "SHUTDOWN", "BAD"}
  <2>1. Script(cmd, r) = <<Text(cmd[1])>>
    BY <1>11 DEF Script
  <2>2. Alone(cmd) = <<cmd[1]>>
    BY <1>11 DEF Alone
  <2>3. Prints(<<Text(cmd[1])>>, <<cmd[1]>>, Ways)
    BY ONLY <1>1, Prints1, TextShows
  <2> QED
    BY <2>1, <2>2, <2>3
<1>12. cmd[1] \in Names
  BY DEF IsCommand
<1> QED
  BY <1>2, <1>3, <1>4, <1>5, <1>6, <1>7, <1>8, <1>9, <1>10, <1>11, <1>12 DEF Names

-----------------------------------------------------------------------------
(***************************************************************************)
(* Numbers and their digits.                                               *)
(***************************************************************************)
Bases == {10, 16}

\* The digits of the numbers up to m.
DigitsTo(base, m, g) ==
  g = [k \in 0 .. m |-> IF k = 0 THEN << >> ELSE Append(g[k \div base], k % base)]

LEMMA Division ==
  ASSUME NEW base \in Bases, NEW n \in Nat
  PROVE  /\ n \div base \in Nat /\ n % base \in 0 .. (base - 1)
         /\ n > 0 => n \div base < n
         /\ n = (n \div base) * base + (n % base)
         /\ n < base => n \div base = 0 /\ n % base = n
<1>1. CASE base = 10
  BY <1>1
<1>2. CASE base = 16
  BY <1>2
<1> QED
  BY <1>1, <1>2 DEF Bases

LEMMA DigitsToAt ==
  ASSUME NEW base, NEW m, NEW g, DigitsTo(base, m, g), NEW k \in 0 .. m
  PROVE  g[k] = IF k = 0 THEN << >> ELSE Append(g[k \div base], k % base)
BY DEF DigitsTo

LEMMA DigitsToExists ==
  ASSUME NEW base \in Bases, NEW m \in Nat
  PROVE  \E g : DigitsTo(base, m, g)
<1> DEFINE T == {k \in Nat : ~ \E g : DigitsTo(base, k, g)}
<1> SUFFICES ASSUME T # {} PROVE FALSE
  OBVIOUS
<1>1. PICK n \in T : \A k \in T : n <= k
  BY NatMin
<1>2. n # 0
  <2>1. DigitsTo(base, 0, [k \in 0 .. 0 |-> << >>])
    BY DEF DigitsTo
  <2> QED
    BY <2>1, <1>1
<1>3. n - 1 \in Nat /\ n - 1 \notin T
  BY <1>1, <1>2
<1>4. PICK g : DigitsTo(base, n - 1, g)
  BY <1>3
<1>5. PICK last : last = Append(g[n \div base], n % base)
  OBVIOUS
<1> DEFINE h == [k \in 0 .. n |-> IF k = n THEN last ELSE g[k]]
<1>6. DigitsTo(base, n, h)
  <2> SUFFICES ASSUME NEW k \in 0 .. n
               PROVE  h[k] = IF k = 0 THEN << >>
                             ELSE Append(h[k \div base], k % base)
    BY DEF DigitsTo
  <2>1. k \in Nat /\ (k # 0 => k \div base \in 0 .. (n - 1))
    BY <1>3, Division
  <2>2. k # 0 => h[k \div base] = g[k \div base]
    BY <2>1, <1>3
  <2>3. CASE k = n
    BY <2>2, <2>3, <1>2, <1>5
  <2>4. CASE k # n
    <3>1. k \in 0 .. (n - 1)
      BY <2>4, <1>3
    <3>2. g[k] = IF k = 0 THEN << >> ELSE Append(g[k \div base], k % base)
      BY <3>1, <1>4 DEF DigitsTo
    <3>3. h[k] = g[k]
      BY <2>4
    <3> QED
      BY <3>2, <3>3, <2>2
  <2> QED
    BY <2>3, <2>4
<1> QED
  BY <1>6, <1>1

LEMMA DigitsToUnique ==
  ASSUME NEW base \in Bases, NEW m \in Nat, NEW n \in Nat, NEW g, NEW h,
         DigitsTo(base, m, g), DigitsTo(base, n, h), NEW i \in Nat, i <= m, i <= n
  PROVE  g[i] = h[i]
<1> DEFINE T == {k \in Nat : k <= m /\ k <= n /\ g[k] # h[k]}
<1> SUFFICES ASSUME T # {} PROVE FALSE
  OBVIOUS
<1>1. PICK j \in T : \A k \in T : j <= k
  BY NatMin
<1>7. j \in 0 .. m /\ j \in 0 .. n
  BY <1>1
<1>2. g[j] = IF j = 0 THEN << >> ELSE Append(g[j \div base], j % base)
  BY <1>7, DigitsToAt
<1>3. h[j] = IF j = 0 THEN << >> ELSE Append(h[j \div base], j % base)
  BY <1>7, DigitsToAt
<1>4. j # 0
  BY <1>1, <1>2, <1>3
<1>5. j \div base \in Nat /\ j \div base < j
  BY <1>1, <1>4, Division
<1>6. g[j \div base] = h[j \div base]
  BY <1>1, <1>5
<1> QED
  BY <1>1, <1>2, <1>3, <1>6

\* The loop: the last digit is the remainder, the others are those of the
\* quotient.
LEMMA DigitsStep ==
  ASSUME NEW base \in Bases
  PROVE  /\ Digits(0, base) = << >>
         /\ \A n \in Nat : n > 0 =>
              Digits(n, base) = Append(Digits(n \div base, base), n % base)
<1> DEFINE F(f) == [k \in Nat |-> IF k = 0 THEN << >>
                                  ELSE Append(f[k \div base], k % base)]
           G(k) == CHOOSE g : DigitsTo(base, k, g)
           f0 == [k \in Nat |-> G(k)[k]]
           buf == CHOOSE f : f = F(f)
<1>1. \A k \in Nat : DigitsTo(base, k, G(k))
  BY DigitsToExists
<1> HIDE DEF G
<1>2. f0 = F(f0)
  <2> SUFFICES ASSUME NEW k \in Nat
               PROVE  f0[k] = IF k = 0 THEN << >>
                              ELSE Append(f0[k \div base], k % base)
    OBVIOUS
  <2>6. k \in 0 .. k
    OBVIOUS
  <2>1. G(k)[k] = IF k = 0 THEN << >> ELSE Append(G(k)[k \div base], k % base)
    BY <2>6, <1>1, DigitsToAt
  <2>2. k \div base \in Nat /\ k \div base <= k
    <3>1. CASE base = 10
      BY <3>1
    <3>2. CASE base = 16
      BY <3>2
    <3> QED
      BY <3>1, <3>2 DEF Bases
  <2>3. PICK q \in Nat : q = k \div base
    BY <2>2
  <2>4. q <= q /\ q <= k
    BY <2>2, <2>3
  <2>5. G(k)[q] = G(q)[q]
    BY <2>4, <1>1, DigitsToUnique
  <2> QED
    BY <2>1, <2>2, <2>3, <2>5
<1> HIDE DEF f0
<1>3. buf = F(buf)
  BY <1>2
<1>4. \A n : Digits(n, base) = buf[n]
  BY DEF Digits
<1> HIDE DEF buf
<1>5. buf[0] = << >>
  BY <1>3
<1>6. ASSUME NEW n \in Nat, n > 0 PROVE buf[n] = Append(buf[n \div base], n % base)
  <2>1. buf[n] = F(buf)[n]
    BY <1>3
  <2> QED
    BY <2>1, <1>6
<1> QED
  BY <1>4, <1>5, <1>6

\* The runs of Value: g[n] is what the first n digits stand for.
Reads(digits, base, m, g) ==
  g = [n \in 0 .. m |-> IF n = 0 THEN 0 ELSE g[n - 1] * base + digits[n]]

LEMMA ReadsAt ==
  ASSUME NEW digits, NEW base, NEW m, NEW g, Reads(digits, base, m, g),
         NEW n \in 0 .. m
  PROVE  g[n] = IF n = 0 THEN 0 ELSE g[n - 1] * base + digits[n]
BY DEF Reads

LEMMA ReadsExists ==
  ASSUME NEW digits, NEW base, NEW m \in Nat
  PROVE  \E g : Reads(digits, base, m, g)
<1> DEFINE T == {n \in Nat : ~ \E g : Reads(digits, base, n, g)}
<1> SUFFICES ASSUME T # {} PROVE FALSE
  OBVIOUS
<1>1. PICK n \in T : \A k \in T : n <= k
  BY NatMin
<1>2. n # 0
  <2>1. Reads(digits, base, 0, [k \in 0 .. 0 |-> 0])
    BY DEF Reads
  <2> QED
    BY <2>1, <1>1
<1>3. n - 1 \in Nat /\ n - 1 \notin T
  BY <1>1, <1>2
<1>4. PICK g : Reads(digits, base, n - 1, g)
  BY <1>3
<1>5. PICK last : last = g[n - 1] * base + digits[n]
  OBVIOUS
<1> DEFINE h == [k \in 0 .. n |-> IF k = n THEN last ELSE g[k]]
<1>6. Reads(digits, base, n, h)
  <2> SUFFICES ASSUME NEW k \in 0 .. n
               PROVE  h[k] = IF k = 0 THEN 0 ELSE h[k - 1] * base + digits[k]
    BY DEF Reads
  <2>1. k # 0 => k - 1 \in 0 .. (n - 1) /\ h[k - 1] = g[k - 1]
    BY <1>3
  <2>2. CASE k = n
    BY <2>1, <2>2, <1>2, <1>5
  <2>3. CASE k # n
    <3>1. k \in 0 .. (n - 1) /\ h[k] = g[k]
      BY <2>3, <1>3
    <3>2. g[k] = IF k = 0 THEN 0 ELSE g[k - 1] * base + digits[k]
      BY <3>1, <1>4, ReadsAt
    <3> QED
      BY <3>1, <3>2, <2>1
  <2> QED
    BY <2>2, <2>3
<1> QED
  BY <1>6, <1>1

\* A run, without its domain.
Follows(digits, base, m, h) ==
  h[0] = 0 /\ \A n \in 1 .. m : h[n] = h[n - 1] * base + digits[n]

\* A run of Value over digits has no choice.
LEMMA ReadsUnique ==
  ASSUME NEW digits, NEW base, NEW m \in Nat, NEW g, NEW h,
         Reads(digits, base, m, g), Follows(digits, base, m, h)
  PROVE  g[m] = h[m]
<1> DEFINE T == {n \in 0 .. m : g[n] # h[n]}
<1> SUFFICES ASSUME T # {} PROVE FALSE
  OBVIOUS
<1>1. PICK n \in T : \A k \in T : n <= k
  <2>1. T \in SUBSET Nat
    OBVIOUS
  <2> HIDE DEF T
  <2> QED
    BY <2>1, NatMin
<1>2. n \in 0 .. m /\ g[n] = IF n = 0 THEN 0 ELSE g[n - 1] * base + digits[n]
  BY <1>1, ReadsAt
<1>3. n # 0
  BY <1>1, <1>2 DEF Follows
<1>4. n \in 1 .. m /\ n - 1 \in 0 .. m /\ n - 1 < n
  BY <1>2, <1>3
<1>5. g[n - 1] = h[n - 1]
  BY <1>1, <1>4
<1>6. h[n] = h[n - 1] * base + digits[n]
  BY <1>4 DEF Follows
<1> QED
  BY <1>1, <1>2, <1>3, <1>5, <1>6

LEMMA ValueReads ==
  ASSUME NEW digits, NEW base, Len(digits) \in Nat
  PROVE  \E g : Reads(digits, base, Len(digits), g) /\ Value(digits, base) = g[Len(digits)]
<1> DEFINE m == Len(digits)
           a == CHOOSE g : g = [n \in 0 .. m |->
                   IF n = 0 THEN 0 ELSE g[n - 1] * base + digits[n]]
<1>1. \E g : Reads(digits, base, m, g)
  BY ReadsExists
<1>2. Reads(digits, base, m, a)
  BY <1>1 DEF Reads
<1>3. Value(digits, base) = a[m]
  BY DEF Value
<1> QED
  BY <1>2, <1>3

LEMMA ValueIs ==
  ASSUME NEW digits, NEW base, NEW m \in Nat, Len(digits) = m, NEW h,
         Follows(digits, base, m, h)
  PROVE  Value(digits, base) = h[m]
<1>1. PICK g : Reads(digits, base, m, g) /\ Value(digits, base) = g[m]
  BY ValueReads
<1>2. Reads(digits, base, m, g)
  BY <1>1
<1>3. g[m] = h[m]
  BY <1>2, ReadsUnique
<1> QED
  BY <1>1, <1>3

\* One more digit.
LEMMA ValueAppend ==
  ASSUME NEW s, Sequence(s), NEW x, NEW base
  PROVE  Value(Append(s, x), base) = Value(s, base) * base + x
<1>1. PICK m \in Nat : m = Len(s)
  BY SequenceDomain
<1>2. PICK g : Reads(s, base, m, g) /\ Value(s, base) = g[m]
  BY <1>1, ValueReads
<1>3. PICK t : t = Append(s, x)
  OBVIOUS
<1>4. /\ Len(t) = m + 1 /\ t[m + 1] = x
      /\ \A k \in 1 .. m : t[k] = s[k]
  BY <1>1, <1>3, AppendFacts
<1>5. PICK last : last = g[m] * base + x
  OBVIOUS
<1> DEFINE h == [k \in 0 .. (m + 1) |-> IF k = m + 1 THEN last ELSE g[k]]
<1>6. h[0] = 0 /\ h[m + 1] = last /\ h[m] = g[m]
  <2>1. 0 \in 0 .. m /\ g[0] = 0
    BY <1>2, ReadsAt
  <2> QED
    BY <2>1
<1>7. ASSUME NEW n \in 1 .. (m + 1) PROVE h[n] = h[n - 1] * base + t[n]
  <2>1. CASE n = m + 1
    <3>1. n - 1 = m
      BY <2>1
    <3> QED
      BY <3>1, <2>1, <1>4, <1>5, <1>6
  <2>2. CASE n # m + 1
    <3>1. n \in 0 .. m /\ n \in 1 .. m /\ n # 0 /\ n - 1 \in 0 .. m
      BY <2>2
    <3>2. g[n] = g[n - 1] * base + s[n]
      BY <3>1, <1>2, ReadsAt
    <3>3. h[n] = g[n] /\ h[n - 1] = g[n - 1]
      BY <3>1
    <3> QED
      BY <3>1, <3>2, <3>3, <1>4
  <2> QED
    BY <2>1, <2>2
<1> HIDE DEF h
<1>8. Value(t, base) = h[m + 1]
  <2>1. Follows(t, base, m + 1, h)
    BY <1>6, <1>7 DEF Follows
  <2> QED
    BY <2>1, <1>4, ValueIs
<1> QED
  BY <1>2, <1>3, <1>5, <1>6, <1>8

\* Leading zeros do not count.
LEMMA ValuePad ==
  ASSUME NEW s, Sequence(s), NEW width \in Nat, NEW base \in Bases
  PROVE  /\ Sequence(Pad(s, width))
         /\ Len(Pad(s, width)) = IF Len(s) >= width THEN Len(s) ELSE width
         /\ Value(Pad(s, width), base) = Value(s, base)
<1>1. PICK m \in Nat : m = Len(s)
  BY SequenceDomain
<1>2. CASE m >= width
  BY <1>1, <1>2 DEF Pad
<1>3. CASE ~(m >= width)
  <2>1. PICK w \in Nat : w = width - m
    BY <1>3
  <2>2. PICK z : z = [k \in 1 .. w |-> 0]
    OBVIOUS
  <2>3. Sequence(z) /\ Len(z) = w /\ \A k \in 1 .. w : z[k] = 0
    BY <2>2, FunctionSequence
  <2>4. PICK t : t = z \o s
    OBVIOUS
  <2>5. Pad(s, width) = t
    BY <2>1, <2>2, <2>4, <1>1, <1>3 DEF Pad
  <2>6. /\ Sequence(t) /\ Len(t) = w + m
        /\ \A k \in 1 .. w : t[k] = 0
        /\ \A k \in 1 .. m : t[w + k] = s[k]
    <3>1. /\ Sequence(t) /\ Len(t) = Len(z) + Len(s)
          /\ \A k \in 1 .. Len(z) : t[k] = z[k]
          /\ \A k \in 1 .. Len(s) : t[Len(z) + k] = s[k]
      BY ONLY <2>3, <2>4, Sequence(s), ConcatFacts, SMTT(30)
    <3> QED
      BY <3>1, <2>3, <1>1
  <2>7. PICK g : Reads(s, base, m, g) /\ Value(s, base) = g[m]
    BY <1>1, ValueReads
  <2> DEFINE h == [k \in 0 .. (w + m) |-> IF k <= w THEN 0 ELSE g[k - w]]
  <2>8. g[0] = 0
    <3>1. 0 \in 0 .. m
      OBVIOUS
    <3> QED
      BY <3>1, <2>7, ReadsAt
  <2>9. h[0] = 0 /\ h[w + m] = g[m]
    <3>1. CASE m = 0
      BY <3>1, <2>8
    <3>2. CASE m # 0
      <4>1. ~(w + m <= w) /\ (w + m) - w = m /\ w + m \in 0 .. (w + m)
        BY <3>2
      <4> QED
        BY <4>1
    <3> QED
      BY <3>1, <3>2
  <2>10. ASSUME NEW n \in 1 .. (w + m) PROVE h[n] = h[n - 1] * base + t[n]
    <3>1. CASE n <= w
      <4>1. h[n] = 0 /\ h[n - 1] = 0 /\ t[n] = 0
        BY <3>1, <2>6
      <4>2. 0 * base + 0 = 0
        BY DEF Bases
      <4> QED
        BY <4>1, <4>2
    <3>2. CASE ~(n <= w)
      <4>1. PICK k \in 1 .. m : n = w + k
        <5>1. n - w \in 1 .. m /\ n = w + (n - w)
          BY <3>2
        <5> QED
          BY <5>1
      <4>2. k \in 0 .. m /\ k # 0 /\ k - 1 \in 0 .. m /\ n - w = k
        BY <4>1
      <4>3. g[k] = g[k - 1] * base + s[k]
        BY <4>2, <2>7, ReadsAt
      <4>4. h[n] = g[k]
        BY <4>2, <3>2
      <4>5. h[n - 1] = g[k - 1]
        <5>1. CASE k = 1
          BY <5>1, <4>1, <2>8
        <5>2. CASE k # 1
          <6>1. ~(n - 1 <= w) /\ (n - 1) - w = k - 1 /\ n - 1 \in 0 .. (w + m)
            BY <5>2, <4>1
          <6> QED
            BY <6>1
        <5> QED
          BY <5>1, <5>2
      <4>6. t[n] = s[k]
        BY <4>1, <2>6
      <4> QED
        BY <4>3, <4>4, <4>5, <4>6
    <3> QED
      BY <3>1, <3>2
  <2> HIDE DEF h
  <2>11. Value(t, base) = h[w + m]
    <3>1. Follows(t, base, w + m, h)
      BY <2>9, <2>10 DEF Follows
    <3> QED
      BY <3>1, <2>6, ValueIs
  <2> QED
    BY <2>1, <2>5, <2>6, <2>7, <2>9, <2>11, <1>1, <1>3
<1> QED
  BY <1>2, <1>3

\* The digits of a number stand for it.
LEMMA ValueOfDigits ==
  ASSUME NEW base \in Bases, NEW n \in Nat
  PROVE  /\ Sequence(Digits(n, base)) /\ (n > 0 => Len(Digits(n, base)) > 0)
         /\ Value(Digits(n, base), base) = n
<1> DEFINE P(k) == /\ Sequence(Digits(k, base)) /\ (k > 0 => Len(Digits(k, base)) > 0)
                   /\ Value(Digits(k, base), base) = k
           T == {k \in Nat : ~P(k)}
<1> SUFFICES ASSUME T # {} PROVE FALSE
  OBVIOUS
<1>1. PICK k \in T : \A j \in T : k <= j
  BY NatMin
<1>2. k # 0
  <2>1. PICK d : d = Digits(0, base)
    OBVIOUS
  <2>2. d = << >>
    BY <2>1, DigitsStep
  <2>3. Sequence(d) /\ Len(d) = 0
    BY <2>2, EmptySequence
  <2>4. PICK g : Reads(d, base, 0, g) /\ Value(d, base) = g[0]
    BY <2>3, ValueReads
  <2>5. 0 \in 0 .. 0
    OBVIOUS
  <2>6. Value(d, base) = 0
    BY <2>4, <2>5, ReadsAt
  <2> QED
    BY <2>1, <2>3, <2>6, <1>1
<1>3. PICK q \in Nat : q = k \div base
  BY <1>1, Division
<1>4. PICK x \in Nat : x = k % base
  BY <1>1, Division DEF Bases
<1>5. q < k /\ k = q * base + x
  BY <1>1, <1>2, <1>3, <1>4, Division
<1>6. P(q)
  BY <1>1, <1>5
<1>7. PICK d : d = Digits(q, base)
  OBVIOUS
<1>8. Digits(k, base) = Append(d, x)
  BY <1>1, <1>2, <1>3, <1>4, <1>7, DigitsStep
<1>9. Sequence(d) /\ Len(d) \in Nat /\ Value(d, base) = q
  BY <1>6, <1>7, SequenceDomain
<1>10. Sequence(Append(d, x)) /\ Len(Append(d, x)) = Len(d) + 1
  BY <1>9, AppendFacts
<1>11. Value(Append(d, x), base) = q * base + x
  BY <1>9, ValueAppend
<1>12. P(k)
  <2>1. Value(Digits(k, base), base) = k
    BY <1>5, <1>8, <1>11
  <2> QED
    BY <2>1, <1>8, <1>9, <1>10
<1> QED
  BY <1>1, <1>12

-----------------------------------------------------------------------------
(***************************************************************************)
(* The inductive invariant.                                                *)
(***************************************************************************)

\* What the items of a text are called.
Whats(text) == [k \in DOMAIN text |-> text[k].what]

\* The number an item shows reads back as its value.
Readable(x) ==
  "digits" \in DOMAIN x =>
    LET n == Value(x.digits, x.base)
    IN  /\ x.digits # << >>
        /\ n = x.value \div UnitOf[x.unit]
        /\ n = 0 => x.unit \in {"none", "KB"}
        /\ (x.base = 10 /\ x.unit \in {"KB", "MB"}) => n < 1024

\* A number that COLOR reports.
Tinted(x) == "digits" \in DOMAIN x /\ x.what \in {"bg", "fg"}

\* Where execute_command is in a line, and what it is capturing.
ControlOK ==
  /\ at \in {"prompt", "first", "flush", "second", "pause", "stopped"}
  /\ line = << >> \/ line \in Lines
  /\ at \in {"first", "flush"} => line \in Lines /\ Len(line) = 2
  /\ at = "second" => line \in Lines
  /\ at \in {"prompt", "pause"} /\ Len(line) = 2 => line \in Lines
  /\ capturing_output \in BOOLEAN
  /\ capturing_output <=> at \in {"first", "flush"}
  /\ machine \in {"on", "off", "reset", "halted"}

TextOK ==
  /\ Sequence(pipe_buffer) /\ Len(pipe_buffer) < PIPE_BUFFER_SIZE
  /\ Sequence(out)
  /\ \A k \in 1 .. Len(pipe_buffer) :
       Readable(pipe_buffer[k]) /\ ~Tinted(pipe_buffer[k])
  /\ \A k \in 1 .. Len(out) : Readable(out[k])

\* Both colours are the ones that were typed last.
ColourOK ==
  /\ current_bg_color \in 0 .. 15 /\ current_text_color \in 0 .. 15
  /\ chosen = [k \in 1 .. 2 |-> chosen[k]]
  /\ hex[current_bg_color + 1] = chosen[1]
  /\ hex[current_text_color + 1] = chosen[2]

\* An item shows no colour other than the one that was typed.
Matches(x, typed) ==
  "digits" \in DOMAIN x =>
    /\ x.what = "bg" => hex[x.digits[16] + 1] = typed[1]
    /\ x.what = "fg" => hex[x.digits[16] + 1] = typed[2]

\* COLOR's report is the last thing a line prints.
ReportOK ==
  /\ at \in {"first", "flush", "second"} =>
       \A k \in 1 .. Len(out) : ~Tinted(out[k])
  /\ \A k \in 1 .. Len(out) : Matches(out[k], chosen)

\* The first half's text is in the buffer, then on the screen.
Captured == ~PastCapture(line[1]) /\ Len(Alone(line[1])) < PIPE_BUFFER_SIZE
HalvesOK ==
  /\ at = "first" => pipe_buffer = << >> /\ out = << >>
  /\ (at = "flush" /\ Captured)
       => out = << >> /\ Whats(pipe_buffer) = Alone(line[1])
  /\ (at = "second" /\ Len(line) = 2 /\ Captured) => Whats(out) = Alone(line[1])
  /\ (Piped /\ Captured) => Whats(out) = Alone(line[1]) \o Alone(line[2])

IInv == ControlOK /\ TextOK /\ ColourOK /\ ReportOK /\ HalvesOK

-----------------------------------------------------------------------------
(***************************************************************************)
(* Every number is printed so that it reads back.                          *)
(***************************************************************************)
LEMMA Units ==
  /\ UnitOf["none"] = 1 /\ UnitOf["KB"] = 1024
  /\ UnitOf["MB"] = 1048576 /\ UnitOf["GB"] = 1073741824
BY DEF UnitOf

LEMMA PrintNum ==
  ASSUME NEW n \in Nat, NEW width \in Nat
  PROVE  /\ Sequence(print_num(n, width)) /\ Len(print_num(n, width)) > 0
         /\ Value(print_num(n, width), 10) = n
<1>1. 10 \in Bases
  BY DEF Bases
<1>2. PICK d : d = IF n = 0 THEN <<0>> ELSE Digits(n, 10)
  OBVIOUS
<1>3. Sequence(d) /\ Len(d) > 0 /\ Value(d, 10) = n
  <2>1. CASE n = 0
    <3>1. d = <<0>>
      BY <2>1, <1>2
    <3>2. Sequence(d) /\ Len(d) = 1 /\ d[1] = 0
      BY <3>1, Tuple1
    <3>3. PICK g : Reads(d, 10, 1, g) /\ Value(d, 10) = g[1]
      BY <3>2, ValueReads
    <3>4. 0 \in 0 .. 1 /\ 1 \in 0 .. 1
      OBVIOUS
    <3>5. g[0] = 0
      BY <3>3, <3>4, ReadsAt
    <3>6. g[1] = g[1 - 1] * 10 + d[1]
      BY <3>3, <3>4, ReadsAt
    <3>7. g[1] = 0
      BY <3>2, <3>5, <3>6
    <3> QED
      BY <3>2, <3>3, <3>7, <2>1
  <2>2. CASE n # 0
    <3>1. d = Digits(n, 10)
      BY <2>2, <1>2
    <3> QED
      BY <3>1, <2>2, <1>1, ValueOfDigits
  <2> QED
    BY <2>1, <2>2
<1>4. Len(d) \in Nat
  BY <1>3, SequenceDomain
<1>5. print_num(n, width) = Pad(d, width)
  BY <1>2 DEF print_num
<1> QED
  BY <1>1, <1>3, <1>4, <1>5, ValuePad

LEMMA PrintHex ==
  ASSUME NEW n \in Nat
  PROVE  /\ Sequence(vga_print_hex(n)) /\ Len(vga_print_hex(n)) >= 16
         /\ Value(vga_print_hex(n), 16) = n
<1>1. 16 \in Bases
  BY DEF Bases
<1>2. PICK d : d = Digits(n, 16)
  OBVIOUS
<1>3. Sequence(d) /\ Value(d, 16) = n
  BY <1>1, <1>2, ValueOfDigits
<1>4. Len(d) \in Nat
  BY <1>3, SequenceDomain
<1>5. vga_print_hex(n) = Pad(d, 16)
  BY <1>2 DEF vga_print_hex
<1> QED
  BY <1>1, <1>3, <1>4, <1>5, ValuePad

\* The last of 16 digits, for the numbers of the colours.
LEMMA ColourDigit ==
  ASSUME NEW n \in 0 .. 15
  PROVE  vga_print_hex(n)[16] = n
<1>1. 16 \in Bases
  BY DEF Bases
<1>2. PICK z : z = [k \in 1 .. 16 |-> 0]
  OBVIOUS
<1>3. CASE n = 0
  <2>1. PICK e : e = << >>
    OBVIOUS
  <2>2. Sequence(e) /\ Len(e) = 0
    BY <2>1, EmptySequence
  <2>3. Digits(n, 16) = e
    BY <2>1, <1>1, <1>3, DigitsStep
  <2>4. Pad(e, 16) = [k \in 1 .. (16 - Len(e)) |-> 0] \o e
    BY <2>2 DEF Pad
  <2>5. 16 - Len(e) = 16
    BY <2>2
  <2>6. vga_print_hex(n) = z \o e
    BY <2>3, <2>4, <2>5, <1>2 DEF vga_print_hex
  <2>7. Sequence(z) /\ Len(z) = 16
    BY <1>2, FunctionSequence
  <2>8. \A k \in 1 .. Len(z) : (z \o e)[k] = z[k]
    <3>1. Sequence(z) /\ Sequence(e)
      BY <2>2, <2>7
    <3> QED
      BY ONLY <3>1, ConcatFacts
  <2>9. 16 \in 1 .. Len(z)
    BY <2>7
  <2>10. z[16] = 0
    BY <1>2
  <2> QED
    BY <2>6, <2>8, <2>9, <2>10, <1>3
<1>4. CASE n # 0
  <2>1. n \div 16 = 0 /\ n % 16 = n
    OBVIOUS
  <2>2. Digits(n, 16) = Append(Digits(n \div 16, 16), n % 16)
    BY <1>1, <1>4, DigitsStep
  <2>3. Digits(0, 16) = << >>
    BY <1>1, DigitsStep
  <2>4. Digits(n, 16) = Append(<< >>, n)
    BY <2>1, <2>2, <2>3
  <2>5. PICK e : e = << >>
    OBVIOUS
  <2>6. Sequence(e) /\ Len(e) = 0
    BY <2>5, EmptySequence
  <2>7. PICK d : d = Append(e, n)
    OBVIOUS
  <2>8. Sequence(d) /\ Len(d) = 1 /\ d[1] = n
    <3>1. Sequence(d) /\ Len(d) = Len(e) + 1 /\ d[Len(e) + 1] = n
      BY <2>6, <2>7, AppendFacts
    <3> QED
      BY <3>1, <2>6
  <2>9. PICK y : y = [k \in 1 .. 15 |-> 0]
    OBVIOUS
  <2>10. Sequence(y) /\ Len(y) = 15
    BY <2>9, FunctionSequence
  <2>11. vga_print_hex(n) = y \o d
    <3>1. Digits(n, 16) = d
      BY <2>4, <2>5, <2>7
    <3>2. Pad(d, 16) = [k \in 1 .. (16 - Len(d)) |-> 0] \o d
      BY <2>8 DEF Pad
    <3>3. 16 - Len(d) = 15
      BY <2>8
    <3> QED
      BY <3>1, <3>2, <3>3, <2>9 DEF vga_print_hex
  <2>12. \A k \in 1 .. Len(d) : (y \o d)[Len(y) + k] = d[k]
    <3>1. Sequence(y) /\ Sequence(d)
      BY <2>8, <2>10
    <3> QED
      BY ONLY <3>1, ConcatFacts
  <2>13. (y \o d)[15 + 1] = d[1]
    <3>1. 1 \in 1 .. Len(d)
      BY <2>8
    <3> QED
      BY <3>1, <2>10, <2>12
  <2>14. 15 + 1 = 16
    OBVIOUS
  <2> QED
    BY <2>8, <2>11, <2>13, <2>14
<1> QED
  BY <1>3, <1>4

LEMMA NumberReadable ==
  ASSUME NEW what, NEW digits, NEW base, NEW unit, NEW value,
         Sequence(digits), Len(digits) > 0,
         Value(digits, base) = value \div UnitOf[unit],
         Value(digits, base) = 0 => unit \in {"none", "KB"},
         (base = 10 /\ unit \in {"KB", "MB"}) => Value(digits, base) < 1024
  PROVE  Readable(Number(what, digits, base, unit, value))
<1>1. PICK x : x = Number(what, digits, base, unit, value)
  OBVIOUS
<1>2. /\ x.digits = digits /\ x.base = base /\ x.unit = unit /\ x.value = value
  BY <1>1, NumberFacts
<1>3. digits # << >>
  BY EmptySequence
<1>4. Readable(x)
  BY <1>2, <1>3 DEF Readable
<1> QED
  BY <1>1, <1>4

LEMMA DecimalReadable ==
  ASSUME NEW what, NEW n \in Nat, NEW width \in Nat
  PROVE  Readable(Decimal(what, n, width).item)
<1>1. PICK d : d = print_num(n, width)
  OBVIOUS
<1>2. Sequence(d) /\ Len(d) > 0 /\ Value(d, 10) = n
  BY <1>1, PrintNum
<1>3. Value(d, 10) = n \div UnitOf["none"]
  BY <1>2, Units
<1>4. Readable(Number(what, d, 10, "none", n))
  BY <1>2, <1>3, NumberReadable
<1> QED
  BY <1>1, <1>4, DecimalFacts

LEMMA HexReadable ==
  ASSUME NEW what, NEW n \in Nat, NEW unit \in {"none", "KB"}
  PROVE  Readable(Hex(what, n, unit).item)
<1>1. PICK m \in Nat : m = IF unit = "KB" THEN n \div 1024 ELSE n
  OBVIOUS
<1>2. m = n \div UnitOf[unit]
  BY <1>1, Units
<1>3. PICK d : d = vga_print_hex(m)
  OBVIOUS
<1>4. Sequence(d) /\ Len(d) >= 16 /\ Value(d, 16) = m
  BY <1>3, PrintHex
<1>5. Len(d) > 0
  BY <1>4, SequenceDomain
<1>6. Readable(Number(what, d, 16, unit, n))
  BY <1>2, <1>4, <1>5, NumberReadable
<1> QED
  BY <1>1, <1>3, <1>6, HexFacts

LEMMA SizeReadable ==
  ASSUME NEW what, NEW n \in Nat
  PROVE  Readable(Size(what, n).item)
<1>1. PICK kb \in Nat : kb = n \div 1024
  OBVIOUS
<1>2. PICK mb \in Nat : mb = kb \div 1024
  OBVIOUS
<1>3. PICK gb \in Nat : gb = mb \div 1024
  OBVIOUS
<1>4. mb = n \div 1048576 /\ gb = n \div 1073741824
  BY <1>1, <1>2, <1>3
<1>5. mb = 0 => kb < 1024
  BY <1>2
<1>6. gb = 0 => mb < 1024
  BY <1>3
<1>7. PICK s : s = format_size(n)
  OBVIOUS
<1>8. 0 \in Nat
  OBVIOUS
<1>9. Size(what, n).item = Number(what, s.digits, 10, s.unit, n)
  BY <1>7, SizeFacts
<1>10. CASE gb > 0
  <2>1. s.digits = print_num(gb, 0) /\ s.unit = "GB"
    BY <1>1, <1>2, <1>3, <1>7, <1>10 DEF format_size
  <2>2. Sequence(s.digits) /\ Len(s.digits) > 0 /\ Value(s.digits, 10) = gb
    BY <2>1, <1>8, PrintNum
  <2>3. gb = n \div UnitOf["GB"]
    BY <1>4, Units
  <2> QED
    BY <2>1, <2>2, <2>3, <1>9, <1>10, NumberReadable
<1>11. CASE ~(gb > 0) /\ mb > 0
  <2>1. s.digits = print_num(mb, 0) /\ s.unit = "MB"
    BY <1>1, <1>2, <1>3, <1>7, <1>11 DEF format_size
  <2>2. Sequence(s.digits) /\ Len(s.digits) > 0 /\ Value(s.digits, 10) = mb
    BY <2>1, <1>8, PrintNum
  <2>3. mb = n \div UnitOf["MB"]
    BY <1>4, Units
  <2>4. mb < 1024 /\ mb # 0
    BY <1>6, <1>11
  <2> QED
    BY <2>1, <2>2, <2>3, <2>4, <1>9, NumberReadable
<1>12. CASE ~(gb > 0) /\ ~(mb > 0)
  <2>1. s.digits = print_num(kb, 0) /\ s.unit = "KB"
    BY <1>1, <1>2, <1>3, <1>7, <1>12 DEF format_size
  <2>2. Sequence(s.digits) /\ Len(s.digits) > 0 /\ Value(s.digits, 10) = kb
    BY <2>1, <1>8, PrintNum
  <2>3. kb = n \div UnitOf["KB"]
    BY <1>1, Units
  <2>4. kb < 1024
    BY <1>5, <1>12
  <2> QED
    BY <2>1, <2>2, <2>3, <2>4, <1>9, NumberReadable
<1> QED
  BY <1>10, <1>11, <1>12

-----------------------------------------------------------------------------
(***************************************************************************)
(* What a command prints.                                                  *)
(***************************************************************************)

\* A number reads back; a number of COLOR's is printed only where tint says
\* so, and is the colour.
Fine(x, tint) ==
  /\ Readable(x)
  /\ "digits" \in DOMAIN x =>
       /\ x.what = "bg" => tint /\ x.digits[16] = current_bg_color
       /\ x.what = "fg" => tint /\ x.digits[16] = current_text_color
Legible(script, tint) ==
  Sequence(script) /\ \A k \in 1 .. Len(script) : Fine(script[k].item, tint)

LEMMA TextFine ==
  ASSUME NEW w, NEW tint
  PROVE  Fine(Text(w).item, tint)
<1>1. PICK x : x = Text(w).item
  OBVIOUS
<1>2. x = [what |-> w]
  BY <1>1, TextFacts
<1>3. "digits" \notin DOMAIN x
  BY <1>2
<1> QED
  BY <1>1, <1>3 DEF Fine, Readable

LEMMA SizeFine ==
  ASSUME NEW w, w \notin {"bg", "fg"}, NEW n \in Nat, NEW tint
  PROVE  Fine(Size(w, n).item, tint)
BY SizeFacts, SizeReadable DEF Fine

LEMMA DecimalFine ==
  ASSUME NEW w, w \notin {"bg", "fg"}, NEW n \in Nat, NEW width \in Nat, NEW tint
  PROVE  Fine(Decimal(w, n, width).item, tint)
BY DecimalFacts, DecimalReadable DEF Fine

LEMMA HexFine ==
  ASSUME NEW w, w \notin {"bg", "fg"}, NEW n \in Nat, NEW unit \in {"none", "KB"},
         NEW tint
  PROVE  Fine(Hex(w, n, unit).item, tint)
BY HexFacts, HexReadable DEF Fine

LEMMA ColourFine ==
  ASSUME current_bg_color \in 0 .. 15, current_text_color \in 0 .. 15, NEW tint, tint
  PROVE  /\ Fine(Hex("bg", current_bg_color, "none").item, tint)
         /\ Fine(Hex("fg", current_text_color, "none").item, tint)
<1>1. ASSUME NEW w, NEW n \in 0 .. 15
      PROVE  LET x == Hex(w, n, "none").item
             IN  Readable(x) /\ x.what = w /\ x.digits[16] = n
  <2>1. PICK x : x = Hex(w, n, "none").item
    OBVIOUS
  <2>2. PICK d : d = vga_print_hex(n)
    OBVIOUS
  <2>3. x = Number(w, d, 16, "none", n)
    BY <2>1, <2>2, HexFacts
  <2>4. x.what = w /\ x.digits = d
    BY <2>3, NumberFacts
  <2>5. d[16] = n
    BY <2>2, ColourDigit
  <2>6. n \in Nat /\ "none" \in {"none", "KB"}
    OBVIOUS
  <2>7. Readable(x)
    BY <2>1, <2>6, HexReadable
  <2> QED
    BY <2>1, <2>4, <2>5, <2>7
<1>2. PICK x : x = Hex("bg", current_bg_color, "none").item
  OBVIOUS
<1>3. PICK y : y = Hex("fg", current_text_color, "none").item
  OBVIOUS
<1>4. Readable(x) /\ x.what = "bg" /\ x.digits[16] = current_bg_color
  BY <1>1, <1>2
<1>5. Readable(y) /\ y.what = "fg" /\ y.digits[16] = current_text_color
  BY <1>1, <1>3
<1> QED
  BY <1>2, <1>3, <1>4, <1>5 DEF Fine

LEMMA Legible1 ==
  ASSUME NEW x, NEW tint, Fine(x.item, tint)
  PROVE  Legible(<<x>>, tint)
<1>1. \A k \in 1 .. 1 : k = 1
  OBVIOUS
<1> QED
  BY <1>1, Tuple1 DEF Legible

LEMMA Legible2 ==
  ASSUME NEW x1, NEW x2, NEW tint, Fine(x1.item, tint), Fine(x2.item, tint)
  PROVE  Legible(<<x1, x2>>, tint)
<1>1. \A k \in 1 .. 2 : k = 1 \/ k = 2
  OBVIOUS
<1>2. PICK s : s = <<x1, x2>>
  OBVIOUS
<1>3. Sequence(s) /\ Len(s) = 2 /\ s[1] = x1 /\ s[2] = x2
  BY <1>2, Tuple2
<1>4. Legible(s, tint)
  BY ONLY <1>1, <1>3, Fine(x1.item, tint), Fine(x2.item, tint) DEF Legible
<1> QED
  BY <1>2, <1>4

LEMMA Legible4 ==
  ASSUME NEW x1, NEW x2, NEW x3, NEW x4, NEW tint,
         Fine(x1.item, tint), Fine(x2.item, tint), Fine(x3.item, tint),
         Fine(x4.item, tint)
  PROVE  Legible(<<x1, x2, x3, x4>>, tint)
<1>1. \A k \in 1 .. 4 : k = 1 \/ k = 2 \/ k = 3 \/ k = 4
  OBVIOUS
<1>2. PICK s : s = <<x1, x2, x3, x4>>
  OBVIOUS
<1>3. Sequence(s) /\ Len(s) = 4 /\ s[1] = x1 /\ s[2] = x2 /\ s[3] = x3 /\ s[4] = x4
  BY <1>2, Tuple4
<1>4. Legible(s, tint)
  BY ONLY <1>1, <1>3, Fine(x1.item, tint), Fine(x2.item, tint),
          Fine(x3.item, tint), Fine(x4.item, tint) DEF Legible
<1> QED
  BY <1>2, <1>4

LEMMA Legible6 ==
  ASSUME NEW x1, NEW x2, NEW x3, NEW x4, NEW x5, NEW x6, NEW tint,
         Fine(x1.item, tint), Fine(x2.item, tint), Fine(x3.item, tint),
         Fine(x4.item, tint), Fine(x5.item, tint), Fine(x6.item, tint)
  PROVE  Legible(<<x1, x2, x3, x4, x5, x6>>, tint)
<1>1. \A k \in 1 .. 6 : k = 1 \/ k = 2 \/ k = 3 \/ k = 4 \/ k = 5 \/ k = 6
  OBVIOUS
<1>2. PICK s : s = <<x1, x2, x3, x4, x5, x6>>
  OBVIOUS
<1>3. /\ Sequence(s) /\ Len(s) = 6 /\ s[1] = x1 /\ s[2] = x2 /\ s[3] = x3
      /\ s[4] = x4 /\ s[5] = x5 /\ s[6] = x6
  BY <1>2, Tuple6
<1>4. Legible(s, tint)
  BY ONLY <1>1, <1>3, Fine(x1.item, tint), Fine(x2.item, tint),
          Fine(x3.item, tint), Fine(x4.item, tint), Fine(x5.item, tint),
          Fine(x6.item, tint) DEF Legible
<1> QED
  BY <1>2, <1>4

\* COLOR that reports the colours on the screen.
Reports(cmd) == cmd[1] = "COLOR" /\ Len(cmd) = 1 /\ ~capturing_output

LEMMA ScriptLegible ==
  ASSUME NEW cmd, IsCommand(cmd), NEW r \in Readings,
         current_bg_color \in 0 .. 15, current_text_color \in 0 .. 15
  PROVE  Legible(Script(cmd, r), Reports(cmd))
<1>1. /\ r.total \in Nat /\ r.free \in Nat /\ r.total - r.free \in Nat
      /\ r.heap_used \in Nat /\ r.heap_free \in Nat
  BY CommandsAssumption
<1>2. /\ r.day \in Nat /\ r.month \in Nat /\ r.year \in Nat
      /\ r.hour \in Nat /\ r.minute \in Nat /\ r.second \in Nat
  BY CommandsAssumption
<1>3. CASE cmd[1] = "MEM"
  <2>1. Script(cmd, r) = cmd_mem(r)
    BY <1>3 DEF Script
  <2>2. PICK tint : tint = Reports(cmd)
    OBVIOUS
  <2>3. CASE capturing_output
    <3>1. cmd_mem(r)
            = <<Text("Memory Statistics"), Size("Total RAM", r.total),
                Size("Free RAM", r.free), Size("Used RAM", r.total - r.free),
                Size("Heap Used", r.heap_used), Size("Heap Free", r.heap_free)>>
      BY <2>3, OneAndFive, ZenonT(60) DEF cmd_mem
    <3>2. Fine(Text("Memory Statistics").item, tint)
      BY ONLY TextFine
    <3>3. /\ Fine(Size("Total RAM", r.total).item, tint)
          /\ Fine(Size("Free RAM", r.free).item, tint)
          /\ Fine(Size("Used RAM", r.total - r.free).item, tint)
          /\ Fine(Size("Heap Used", r.heap_used).item, tint)
          /\ Fine(Size("Heap Free", r.heap_free).item, tint)
      BY ONLY <1>1, SizeFine
    <3>4. Legible(cmd_mem(r), tint)
      BY ONLY <3>1, <3>2, <3>3, Legible6
    <3> QED
      BY <3>4, <2>1, <2>2
  <2>4. CASE ~capturing_output
    <3>1. cmd_mem(r)
            = <<Text("Memory Statistics"), Hex("Total RAM", r.total, "KB"),
                Hex("Free RAM", r.free, "KB"), Hex("Used RAM", r.total - r.free, "KB"),
                Hex("Heap Used", r.heap_used, "none"),
                Hex("Heap Free", r.heap_free, "none")>>
      BY <2>4, OneAndFive, ZenonT(60) DEF cmd_mem
    <3>2. Fine(Text("Memory Statistics").item, tint)
      BY ONLY TextFine
    <3>3. /\ Fine(Hex("Total RAM", r.total, "KB").item, tint)
          /\ Fine(Hex("Free RAM", r.free, "KB").item, tint)
          /\ Fine(Hex("Used RAM", r.total - r.free, "KB").item, tint)
          /\ Fine(Hex("Heap Used", r.heap_used, "none").item, tint)
          /\ Fine(Hex("Heap Free", r.heap_free, "none").item, tint)
      BY ONLY <1>1, HexFine
    <3>4. Legible(cmd_mem(r), tint)
      BY ONLY <3>1, <3>2, <3>3, Legible6
    <3> QED
      BY <3>4, <2>1, <2>2
  <2> QED
    BY <2>3, <2>4
<1>4. CASE cmd[1] = "DATE"
  <2>1. Script(cmd, r) = cmd_date(r)
    BY <1>4 DEF Script
  <2>2. PICK tint : tint = Reports(cmd)
    OBVIOUS
  <2>3. Fine(Text("date is").item, tint) /\ Fine(Text("-").item, tint)
    BY ONLY TextFine
  <2>4. /\ Fine(Decimal("day", r.day, 2).item, tint)
        /\ Fine(Decimal("month", r.month, 2).item, tint)
        /\ Fine(Decimal("year", r.year, 4).item, tint)
    BY ONLY <1>2, DecimalFine
  <2>5. Legible(cmd_date(r), tint)
    BY ONLY <2>3, <2>4, Legible6 DEF cmd_date
  <2> QED
    BY <2>1, <2>2, <2>5
<1>5. CASE cmd[1] = "TIME"
  <2>1. Script(cmd, r) = cmd_time(r)
    BY <1>5 DEF Script
  <2>2. PICK tint : tint = Reports(cmd)
    OBVIOUS
  <2>3. Fine(Text("time is").item, tint) /\ Fine(Text(":").item, tint)
    BY ONLY TextFine
  <2>4. /\ Fine(Decimal("hour", r.hour, 2).item, tint)
        /\ Fine(Decimal("minute", r.minute, 2).item, tint)
        /\ Fine(Decimal("second", r.second, 2).item, tint)
    BY ONLY <1>2, DecimalFine
  <2>5. Legible(cmd_time(r), tint)
    BY ONLY <2>3, <2>4, Legible6 DEF cmd_time
  <2> QED
    BY <2>1, <2>2, <2>5
<1>6. CASE cmd[1] = "COLOR" /\ Tail(cmd) = << >> /\ ~capturing_output
  <2>1. Script(cmd, r) = cmd_color(Tail(cmd))
    BY <1>6 DEF Script
  <2>2. Reports(cmd)
    <3>1. cmd \in Seq(STRING) /\ cmd # << >>
      BY DEF IsCommand
    <3>2. Len(Tail(cmd)) = Len(cmd) - 1 /\ Len(cmd) \in Nat
      BY <3>1
    <3>3. Len(cmd) = 1
      <4>1. Len(Tail(cmd)) = 0
        BY <1>6, EmptySequence, Zenon
      <4> QED
        BY ONLY <4>1, <3>2
    <3> QED
      BY <3>3, <1>6 DEF Reports
  <2>3. PICK tint : tint = Reports(cmd)
    OBVIOUS
  <2>4. cmd_color(Tail(cmd))
          = <<Text("BG="), Hex("bg", current_bg_color, "none"),
              Text("FG="), Hex("fg", current_text_color, "none")>>
    BY <1>6 DEF cmd_color
  <2>5. Fine(Text("BG=").item, tint) /\ Fine(Text("FG=").item, tint)
    BY ONLY TextFine
  <2>6. /\ Fine(Hex("bg", current_bg_color, "none").item, tint)
        /\ Fine(Hex("fg", current_text_color, "none").item, tint)
    BY <2>2, <2>3, ColourFine
  <2>7. Legible(cmd_color(Tail(cmd)), tint)
    BY ONLY <2>4, <2>5, <2>6, Legible4
  <2> QED
    BY <2>1, <2>3, <2>7
<1>7. CASE cmd[1] = "COLOR" /\ Tail(cmd) = << >> /\ capturing_output
  <2>1. Script(cmd, r) = <<Text("BG="), Text("FG=")>>
    BY <1>7 DEF Script, cmd_color
  <2>2. PICK tint : tint = Reports(cmd)
    OBVIOUS
  <2>3. Fine(Text("BG=").item, tint) /\ Fine(Text("FG=").item, tint)
    BY ONLY TextFine
  <2>4. Legible(<<Text("BG="), Text("FG=")>>, tint)
    BY ONLY <2>3, Legible2
  <2> QED
    BY <2>1, <2>2, <2>4
<1>8. CASE cmd[1] = "HELP"
  <2>1. Script(cmd, r) = [k \in 1 .. 8 |-> Text("HELP")]
    BY <1>8 DEF Script, Repeat
  <2>2. PICK s : s = [k \in 1 .. 8 |-> Text("HELP")]
    OBVIOUS
  <2>3. Sequence(s) /\ Len(s) = 8 /\ \A k \in 1 .. 8 : s[k] = Text("HELP")
    BY <2>2, FunctionSequence, ZenonT(60)
  <2>4. PICK tint : tint = Reports(cmd)
    OBVIOUS
  <2>5. Fine(Text("HELP").item, tint)
    BY ONLY TextFine
  <2>6. Legible(s, tint)
    BY ONLY <2>3, <2>5 DEF Legible
  <2> QED
    BY <2>1, <2>2, <2>4, <2>6
<1>9. CASE cmd[1] \in {"EMPTY", "CLS"}
  <2>1. Script(cmd, r) = << >>
    BY <1>9 DEF Script
  <2> QED
    BY <2>1, EmptySequence DEF Legible
<1>10. CASE cmd[1] = "CPU"
  <2>1. PICK y : y = [what |-> "CPU", vendor |-> r.vendor,
                      features |-> {"FPU", "MMX", "SSE", "SSE2", "SSE3"} \cap r.features]
    OBVIOUS
  <2>2. PICK x : x = Say(y)
    OBVIOUS
  <2>3. Script(cmd, r) = <<x>>
    BY <2>1, <2>2, <1>10 DEF Script, cmd_cpu
  <2>4. x.item = y
    BY <2>2 DEF Say
  <2>5. "digits" \notin DOMAIN y
    BY <2>1
  <2>6. PICK tint : tint = Reports(cmd)
    OBVIOUS
  <2>7. Fine(x.item, tint)
    BY <2>4, <2>5 DEF Fine, Readable
  <2>8. Legible(<<x>>, tint)
    BY ONLY <2>7, Legible1
  <2> QED
    BY <2>3, <2>6, <2>8
<1>11. ASSUME NEW w, Script(cmd, r) = <<Text(w)>>
       PROVE  Legible(Script(cmd, r), Reports(cmd))
  <2>1. PICK tint : tint = Reports(cmd)
    OBVIOUS
  <2>2. Fine(Text(w).item, tint)
    BY ONLY TextFine
  <2>3. Legible(<<Text(w)>>, tint)
    BY ONLY <2>2, Legible1
  <2> QED
    BY <2>1, <2>3, <1>11
<1>12. CASE cmd[1] = "COLOR" /\ Tail(cmd) # << >>
  <2>1. PICK w : w = IF Accepted(Tail(cmd)) THEN "Color changed" ELSE "Usage"
    OBVIOUS
  <2>2. Script(cmd, r) = <<Text(w)>>
    BY <2>1, <1>12 DEF Script, cmd_color
  <2> QED
    BY <2>2, <1>11
<1>13. CASE cmd[1] = "ECHO"
  <2>1. PICK w : w = IF Len(cmd) = 1 THEN "ECHO is on" ELSE cmd[2]
    OBVIOUS
  <2>2. Script(cmd, r) = <<Text(w)>>
    BY <2>1, <1>13 DEF Script
  <2> QED
    BY <2>2, <1>11
<1>14. CASE cmd[1] = "SHUTDOWN" /\ ~capturing_output /\ ~PoweredOff
  <2>1. Script(cmd, r) = <<Text("SHUTDOWN"), Text("ACPI shutdown failed")>>
    BY <1>14 DEF Script
  <2>2. PICK tint : tint = Reports(cmd)
    OBVIOUS
  <2>3. Fine(Text("SHUTDOWN").item, tint) /\ Fine(Text("ACPI shutdown failed").item, tint)
    BY ONLY TextFine
  <2>4. Legible(<<Text("SHUTDOWN"), Text("ACPI shutdown failed")>>, tint)
    BY ONLY <2>3, Legible2
  <2> QED
    BY <2>1, <2>2, <2>4
<1>15. CASE /\ cmd[1] \in {"VER", "PAUSE", "REBOOT", "SHUTDOWN", "BAD"}
            /\ ~(cmd[1] = "SHUTDOWN" /\ ~capturing_output /\ ~PoweredOff)
  <2>1. Script(cmd, r) = <<Text(cmd[1])>>
    BY <1>15 DEF Script
  <2> QED
    BY <2>1, <1>11
<1>16. cmd[1] \in Names
  BY DEF IsCommand
<1> QED
  BY <1>3, <1>4, <1>5, <1>6, <1>7, <1>8, <1>9, <1>10, <1>12, <1>13, <1>14, <1>15,
     <1>16 DEF Names

-----------------------------------------------------------------------------
(***************************************************************************)
(* Texts that are joined, captured and named.                              *)
(***************************************************************************)
LEMMA Joined ==
  ASSUME NEW s, NEW t, Sequence(s), Sequence(t), NEW k \in 1 .. Len(s \o t)
  PROVE  \/ k \in 1 .. Len(s) /\ (s \o t)[k] = s[k]
         \/ \E j \in 1 .. Len(t) : k = Len(s) + j /\ (s \o t)[k] = t[j]
<1>1. PICK u : u = s \o t
  OBVIOUS
<1>2. PICK m \in Nat : m = Len(s)
  BY SequenceDomain
<1>3. PICK n \in Nat : n = Len(t)
  BY SequenceDomain
<1>4. /\ Len(u) = m + n /\ \A i \in 1 .. m : u[i] = s[i]
      /\ \A i \in 1 .. n : u[m + i] = t[i]
  <2>1. Sequence(s) /\ Sequence(t) /\ u = s \o t
    BY <1>1
  <2>2. /\ Len(u) = Len(s) + Len(t) /\ \A i \in 1 .. Len(s) : u[i] = s[i]
        /\ \A i \in 1 .. Len(t) : u[Len(s) + i] = t[i]
    BY ONLY <2>1, ConcatFacts
  <2> QED
    BY <2>2, <1>2, <1>3
<1>5. k \in 1 .. (m + n)
  BY <1>1, <1>4
<1>6. CASE k <= m
  <2>1. k \in 1 .. m
    BY <1>5, <1>6
  <2> QED
    BY <2>1, <1>1, <1>2, <1>4
<1>7. CASE ~(k <= m)
  <2>1. PICK j \in 1 .. n : k = m + j
    <3>1. k - m \in 1 .. n /\ k = m + (k - m)
      BY <1>5, <1>7
    <3> QED
      BY <3>1
  <2> QED
    BY <2>1, <1>1, <1>2, <1>3, <1>4
<1> QED
  BY <1>6, <1>7

LEMMA JoinEmpty ==
  ASSUME NEW s, NEW e, Sequence(s), e = << >>
  PROVE  e \o s = s /\ s \o e = s
<1>1. PICK S : s \in Seq(S)
  BY DEF Sequence
<1> QED
  BY <1>1

LEMMA WhatsFacts ==
  ASSUME NEW s, Sequence(s)
  PROVE  /\ Sequence(Whats(s)) /\ Len(Whats(s)) = Len(s)
         /\ \A k \in 1 .. Len(s) : Whats(s)[k] = s[k].what
<1>1. PICK n \in Nat : n = Len(s) /\ DOMAIN s = 1 .. n
  BY SequenceDomain
<1>2. PICK f : f = [k \in 1 .. n |-> s[k].what]
  OBVIOUS
<1>3. Whats(s) = f
  BY <1>1, <1>2 DEF Whats
<1>4. Sequence(f) /\ Len(f) = n
  BY <1>2, FunctionSequence
<1> QED
  BY <1>1, <1>2, <1>3, <1>4

LEMMA WhatsConcat ==
  ASSUME NEW s, NEW t, Sequence(s), Sequence(t)
  PROVE  Whats(s \o t) = Whats(s) \o Whats(t)
<1>1. PICK u : u = s \o t
  OBVIOUS
<1>2. PICK a : a = Whats(s)
  OBVIOUS
<1>3. PICK b : b = Whats(t)
  OBVIOUS
<1>4. Sequence(a) /\ Len(a) = Len(s) /\ \A k \in 1 .. Len(s) : a[k] = s[k].what
  BY <1>2, WhatsFacts
<1>5. Sequence(b) /\ Len(b) = Len(t) /\ \A k \in 1 .. Len(t) : b[k] = t[k].what
  BY <1>3, WhatsFacts
<1>6. Sequence(u) /\ Len(u) = Len(s) + Len(t)
  BY <1>1, ConcatFacts
<1>7. PICK v : v = a \o b
  OBVIOUS
<1>8. /\ Sequence(v) /\ Len(v) = Len(a) + Len(b)
      /\ \A k \in 1 .. Len(a) : v[k] = a[k]
      /\ \A k \in 1 .. Len(b) : v[Len(a) + k] = b[k]
  <2>1. Sequence(a) /\ Sequence(b) /\ v = a \o b
    BY <1>4, <1>5, <1>7
  <2> QED
    BY ONLY <2>1, ConcatFacts
<1>9. PICK w : w = Whats(u)
  OBVIOUS
<1>10. Sequence(w) /\ Len(w) = Len(u) /\ \A k \in 1 .. Len(u) : w[k] = u[k].what
  BY <1>6, <1>9, WhatsFacts
<1>11. Len(w) = Len(v)
  BY <1>4, <1>5, <1>6, <1>8, <1>10
<1>12. ASSUME NEW k \in 1 .. Len(u) PROVE w[k] = v[k]
  <2>1. \/ k \in 1 .. Len(s) /\ u[k] = s[k]
        \/ \E j \in 1 .. Len(t) : k = Len(s) + j /\ u[k] = t[j]
    <3>1. Sequence(s) /\ Sequence(t) /\ k \in 1 .. Len(s \o t)
      BY <1>1
    <3> QED
      BY <3>1, <1>1, Joined
  <2>2. CASE k \in 1 .. Len(s) /\ u[k] = s[k]
    BY <2>2, <1>4, <1>8, <1>10
  <2>3. CASE \E j \in 1 .. Len(t) : k = Len(s) + j /\ u[k] = t[j]
    <3>1. PICK j \in 1 .. Len(t) : k = Len(s) + j /\ u[k] = t[j]
      BY <2>3
    <3>2. j \in 1 .. Len(b) /\ k = Len(a) + j
      BY <3>1, <1>4, <1>5
    <3> QED
      BY <3>1, <3>2, <1>5, <1>8, <1>10
  <2> QED
    BY <2>1, <2>2, <2>3
<1>13. w = v
  <2>1. Len(v) = Len(u)
    BY <1>10, <1>11
  <2> QED
    BY <2>1, <1>8, <1>10, <1>11, <1>12, SameSequence
<1> QED
  BY <1>1, <1>2, <1>3, <1>7, <1>9, <1>13

LEMMA WhatsEmpty == Whats(<< >>) = << >>
BY DEF Whats

\* What Prints promises of the items that reach the buffer or the screen.
LEMMA WhatsItems ==
  ASSUME NEW script, NEW w, NEW kind, Prints(script, w, kind)
  PROVE  Sequence(Items(script, kind)) /\ Whats(Items(script, kind)) = w
<1>1. /\ Sequence(script) /\ Sequence(w) /\ Len(script) = Len(w)
      /\ \A k \in 1 .. Len(w) : script[k].by \in kind /\ script[k].item.what = w[k]
  BY DEF Prints, Shows
<1>2. PICK n \in Nat : n = Len(w)
  BY <1>1, SequenceDomain
<1>3. PICK t : t = Items(script, kind)
  OBVIOUS
<1>4. Sequence(t)
  BY <1>1, <1>2, <1>3, ItemsFromScript
<1>5. Len(t) = n /\ \A k \in 1 .. n : t[k] = script[k].item
  BY <1>1, <1>2, <1>3, ItemsAll
<1>6. PICK v : v = Whats(t)
  OBVIOUS
<1>7. Sequence(v) /\ Len(v) = Len(t) /\ \A k \in 1 .. Len(t) : v[k] = t[k].what
  BY <1>4, <1>6, WhatsFacts
<1>8. \A k \in 1 .. n : v[k] = w[k]
  BY <1>1, <1>2, <1>5, <1>7
<1>9. Len(v) = Len(w)
  BY <1>2, <1>5, <1>7
<1>10. v = w
  BY <1>1, <1>2, <1>7, <1>8, <1>9, SameSequence
<1> QED
  BY <1>3, <1>4, <1>6, <1>10

LEMMA CaptureFacts ==
  ASSUME NEW text, Sequence(text), Sequence(pipe_buffer)
  PROVE  /\ Sequence(Capture(text)) /\ Len(Capture(text)) < PIPE_BUFFER_SIZE
         /\ \A k \in 1 .. Len(Capture(text)) :
              k \in 1 .. Len(pipe_buffer \o text)
              /\ Capture(text)[k] = (pipe_buffer \o text)[k]
         /\ Len(pipe_buffer \o text) < PIPE_BUFFER_SIZE
              => Capture(text) = pipe_buffer \o text
<1>1. PICK room \in Nat : room = PIPE_BUFFER_SIZE - 1
  BY CommandsAssumption
<1>2. PICK all : all = pipe_buffer \o text
  OBVIOUS
<1>3. Sequence(all)
  BY <1>2, ConcatFacts
<1>4. Len(all) \in Nat
  BY <1>3, SequenceDomain
<1>5. PICK c : c = Capture(text)
  OBVIOUS
<1>6. c = IF Len(all) <= room THEN all ELSE SubSeq(all, 1, room)
  BY <1>1, <1>2, <1>5 DEF Capture
<1>7. PIPE_BUFFER_SIZE = room + 1
  BY <1>1, CommandsAssumption
<1>8. CASE Len(all) <= room
  <2>1. c = all
    BY <1>6, <1>8
  <2> QED
    <3>1. Sequence(c) /\ Len(c) < PIPE_BUFFER_SIZE
      BY <2>1, <1>3, <1>4, <1>7, <1>8
    <3>2. \A k \in 1 .. Len(c) : k \in 1 .. Len(all) /\ c[k] = all[k]
      BY <2>1
    <3> QED
      BY <3>1, <3>2, <2>1, <1>2, <1>5, Zenon
<1>9. CASE ~(Len(all) <= room)
  <2>1. PICK S : all \in Seq(S)
    BY <1>3 DEF Sequence
  <2>2. c = SubSeq(all, 1, room)
    BY <1>6, <1>9
  <2>3. c \in Seq(S) /\ Len(c) = room /\ \A k \in 1 .. room : c[k] = all[k]
    BY <2>1, <2>2, <1>4, <1>9
  <2>4. Sequence(c)
    BY <2>3 DEF Sequence
  <2>5. \A k \in 1 .. room : k \in 1 .. Len(all)
    BY <1>4, <1>9
  <2> QED
    BY <2>3, <2>4, <2>5, <1>2, <1>4, <1>5, <1>7, <1>9
<1> QED
  BY <1>8, <1>9

-----------------------------------------------------------------------------
(***************************************************************************)
(* Colours.                                                                *)
(***************************************************************************)
Capital(ch) == IF IsIn(ch, lower) THEN hex[Position(ch, lower) + 10] ELSE ch

LEMMA CasesDiffer ==
  ASSUME NEW ch, IsIn(ch, hex)
  PROVE  ~IsIn(ch, lower)
<1>1. ch \in {"0", "1", "2", "3", "4", "5", "6", "7", "8", "9",
              "A", "B", "C", "D", "E", "F"}
  BY DEF IsIn, hex
<1>2. SUFFICES ASSUME IsIn(ch, lower) PROVE FALSE
  OBVIOUS
<1>3. ch \in {"a", "b", "c", "d", "e", "f"}
  BY <1>2 DEF IsIn, lower
<1> QED
  BY <1>1, <1>3

LEMMA CapitalFacts ==
  ASSUME NEW ch
  PROVE  /\ hex_to_int(ch) >= 0 <=> IsIn(Capital(ch), hex)
         /\ hex_to_int(ch) >= 0 => hex[hex_to_int(ch) + 1] = Capital(ch)
<1>1. CASE IsIn(ch, hex)
  <2>1. Capital(ch) = ch
    BY <1>1, CasesDiffer DEF Capital
  <2>2. PICK p \in 1 .. 16 : p = Position(ch, hex) /\ hex[p] = ch
    BY <1>1, PositionFacts, HexDigits
  <2>3. hex_to_int(ch) = p - 1
    BY <2>2, <1>1 DEF hex_to_int
  <2>4. (p - 1) + 1 = p /\ p - 1 >= 0
    OBVIOUS
  <2> QED
    BY <2>1, <2>2, <2>3, <2>4, <1>1
<1>2. CASE ~IsIn(ch, hex) /\ IsIn(ch, lower)
  <2>1. PICK p \in 1 .. 6 : p = Position(ch, lower)
    BY <1>2, PositionFacts, HexDigits
  <2>2. hex_to_int(ch) = p - 1 + 10
    BY <2>1, <1>2 DEF hex_to_int
  <2>3. Capital(ch) = hex[p + 10]
    BY <2>1, <1>2 DEF Capital
  <2>4. p + 10 \in DOMAIN hex /\ (p - 1 + 10) + 1 = p + 10 /\ p - 1 + 10 >= 0
    BY HexDigits
  <2>5. IsIn(hex[p + 10], hex)
    BY <2>4 DEF IsIn
  <2> QED
    BY <2>2, <2>3, <2>4, <2>5
<1>3. CASE ~IsIn(ch, hex) /\ ~IsIn(ch, lower)
  BY <1>3 DEF hex_to_int, Capital
<1> QED
  BY <1>1, <1>2, <1>3

LEMMA ColourStep ==
  ASSUME ColourOK, NEW cmd, IsCommand(cmd), SetColour(cmd), Choose(cmd)
  PROVE  /\ ColourOK'
         /\ (cmd[1] # "COLOR" \/ Len(cmd) = 1) => UNCHANGED colours
<1>1. cmd \in Seq(STRING) /\ cmd # << >>
  BY DEF IsCommand
<1>2. PICK n \in Nat : n = Len(cmd) /\ n # 0
  BY <1>1
<1>3. PICK t : t = Tail(cmd)
  OBVIOUS
<1>4. t \in Seq(STRING) /\ Len(t) = n - 1 /\ \A k \in 1 .. (n - 1) : t[k] = cmd[k + 1]
  BY <1>1, <1>2, <1>3
<1>5. PICK m \in 0 .. 2 : m = IF n > 3 THEN 2 ELSE n - 1
  BY <1>2
<1>6. PICK args : args = SubSeq(t, 1, m)
  OBVIOUS
<1>7. DOMAIN args = 1 .. m /\ \A k \in 1 .. m : args[k] = cmd[k + 1]
  <2>1. m <= n - 1
    BY <1>2, <1>5
  <2>2. args \in Seq(STRING) /\ Len(args) = m /\ \A k \in 1 .. m : args[k] = t[k]
    BY <2>1, <1>2, <1>4, <1>6
  <2> QED
    BY <2>1, <2>2, <1>2, <1>4
<1>8. chosen' = IF cmd[1] = "COLOR" /\ \A k \in DOMAIN args : IsIn(Capital(args[k]), hex)
                THEN [k \in 1 .. 2 |-> IF k \in DOMAIN args THEN Capital(args[k])
                                       ELSE chosen[k]]
                ELSE chosen
  BY <1>2, <1>3, <1>5, <1>6 DEF Choose, Capital
<1>9. /\ current_bg_color \in 0 .. 15 /\ current_text_color \in 0 .. 15
      /\ chosen = [k \in 1 .. 2 |-> chosen[k]]
      /\ hex[current_bg_color + 1] = chosen[1]
      /\ hex[current_text_color + 1] = chosen[2]
  BY DEF ColourOK
<1>10. CASE cmd[1] # "COLOR" \/ n = 1
  <2>1. chosen' = chosen
    <3>1. CASE cmd[1] # "COLOR"
      BY <3>1, <1>8
    <3>2. CASE cmd[1] = "COLOR"
      <4>1. m = 0
        BY <3>2, <1>5, <1>10
      <4>2. DOMAIN args = {}
        BY <4>1, <1>7
      <4> QED
        BY <4>2, <3>2, <1>8, <1>9
    <3> QED
      BY <3>1, <3>2
  <2>2. UNCHANGED <<current_bg_color, current_text_color>>
    <3>1. CASE cmd[1] # "COLOR"
      BY <3>1 DEF SetColour
    <3>2. CASE n = 1
      <4>1. t = << >>
        BY <3>2, <1>4
      <4> QED
        BY <4>1, <1>3 DEF SetColour
    <3> QED
      BY <3>1, <3>2, <1>10
  <2> QED
    BY <2>1, <2>2, <1>9 DEF ColourOK, colours
<1>11. CASE cmd[1] = "COLOR" /\ n # 1
  <2>1. /\ t # << >> /\ 2 \in DOMAIN cmd
        /\ Background(t) = hex_to_int(cmd[2])
        /\ 3 \in DOMAIN cmd => Foreground(t) = hex_to_int(cmd[3])
        /\ 3 \notin DOMAIN cmd => Foreground(t) = current_text_color
        /\ Accepted(t) <=> \A k \in {2, 3} \cap DOMAIN cmd : hex_to_int(cmd[k]) >= 0
    BY <1>2, <1>3, <1>9, <1>11, ColourArguments
  <2>2. IF Accepted(t)
        THEN current_bg_color' = Background(t) /\ current_text_color' = Foreground(t)
        ELSE UNCHANGED <<current_bg_color, current_text_color>>
    BY <2>1, <1>3, <1>11 DEF SetColour
  <2>3. DOMAIN cmd = 1 .. n
    BY <1>1, <1>2
  <2>4. m \in 1 .. 2 /\ (m = 1 <=> 3 \notin DOMAIN cmd)
    <3>1. n \in Nat /\ n # 0 /\ n # 1
      BY <1>2, <1>11
    <3>2. 3 \in 1 .. n <=> n >= 3
      BY <3>1
    <3>3. m \in 1 .. 2 /\ (m = 1 <=> ~(n >= 3))
      BY <3>1, <1>5
    <3> QED
      BY <3>2, <3>3, <2>3
  <2>5. 1 \in 1 .. m /\ args[1] = cmd[2] /\ (m = 2 => 2 \in 1 .. m /\ args[2] = cmd[3])
    BY <2>4, <1>7
  <2>6. (\A k \in DOMAIN args : IsIn(Capital(args[k]), hex)) <=> Accepted(t)
    <3>1. CASE m = 1
      <4>1. {2, 3} \cap DOMAIN cmd = {2}
        BY <3>1, <2>1, <2>4
      <4>2. DOMAIN args = {1}
        BY <3>1, <1>7
      <4> QED
        BY <4>1, <4>2, <2>1, <2>5, CapitalFacts
    <3>2. CASE m = 2
      <4>1. {2, 3} \cap DOMAIN cmd = {2, 3}
        BY <3>2, <2>1, <2>4
      <4>2. DOMAIN args = {1, 2}
        BY <3>2, <1>7
      <4> QED
        BY <4>1, <4>2, <3>2, <2>1, <2>5, CapitalFacts
    <3> QED
      BY <3>1, <3>2, <2>4
  <2>7. CASE ~Accepted(t)
    <3>1. chosen' = chosen
      BY <2>6, <2>7, <1>8
    <3>2. UNCHANGED <<current_bg_color, current_text_color>>
      BY <2>2, <2>7
    <3> QED
      BY <3>1, <3>2, <1>2, <1>9, <1>11 DEF ColourOK
  <2>8. CASE Accepted(t)
    <3>1. chosen' = [k \in 1 .. 2 |-> IF k \in 1 .. m THEN Capital(cmd[k + 1])
                                      ELSE chosen[k]]
      BY <2>6, <2>8, <1>7, <1>8, <1>11
    <3>2. current_bg_color' = hex_to_int(cmd[2]) /\ current_text_color' = Foreground(t)
      BY <2>1, <2>2, <2>8
    <3>3. hex_to_int(cmd[2]) >= 0
      BY <2>1, <2>8
    <3>4. hex_to_int(cmd[2]) \in 0 .. 15
      BY <3>3, HexValue
    <3>5. chosen'[1] = Capital(cmd[2]) /\ chosen' = [k \in 1 .. 2 |-> chosen'[k]]
      <4>1. 1 \in 1 .. 2 /\ 1 \in 1 .. m /\ 1 + 1 = 2
        BY <2>4
      <4> QED
        BY <4>1, <3>1
    <3>6. hex[hex_to_int(cmd[2]) + 1] = chosen'[1]
      BY <3>3, <3>5, CapitalFacts
    <3>7. Foreground(t) \in 0 .. 15 /\ hex[Foreground(t) + 1] = chosen'[2]
      <4>1. CASE m = 1
        <5>1. Foreground(t) = current_text_color
          BY <4>1, <2>1, <2>4
        <5>2. chosen'[2] = chosen[2]
          BY <4>1, <3>1
        <5> QED
          BY <5>1, <5>2, <1>9
      <4>2. CASE m = 2
        <5>1. 3 \in DOMAIN cmd /\ Foreground(t) = hex_to_int(cmd[3])
          BY <4>2, <2>1, <2>4
        <5>2. hex_to_int(cmd[3]) >= 0
          BY <5>1, <2>1, <2>8
        <5>3. chosen'[2] = Capital(cmd[3])
          <6>1. 2 \in 1 .. 2 /\ 2 \in 1 .. m /\ 2 + 1 = 3
            BY <4>2
          <6> QED
            BY <6>1, <3>1
        <5>4. hex_to_int(cmd[3]) \in 0 .. 15
          BY <5>2, HexValue
        <5> QED
          BY <5>1, <5>2, <5>3, <5>4, CapitalFacts
      <4> QED
        BY <4>1, <4>2, <2>4
    <3>8. ColourOK'
      BY <3>2, <3>4, <3>5, <3>6, <3>7 DEF ColourOK
    <3> QED
      BY <3>8, <1>2, <1>11
  <2> QED
    BY <2>7, <2>8
<1> QED
  BY <1>2, <1>10, <1>11

-----------------------------------------------------------------------------
(***************************************************************************)
(* Every step keeps the invariant.                                         *)
(***************************************************************************)
LEMMA LineFacts ==
  ASSUME NEW ln \in Lines
  PROVE  /\ Len(ln) \in {1, 2} /\ IsCommand(ln[1]) /\ IsCommand(ln[Len(ln)])
         /\ Len(ln) = 2 => IsCommand(ln[2])
<1>1. /\ ln \in Seq(Seq(STRING)) /\ Len(ln) \in {1, 2}
      /\ \A k \in DOMAIN ln : IsCommand(ln[k])
  BY LinesAssumption
<1>2. DOMAIN ln = 1 .. Len(ln)
  BY <1>1
<1>3. 1 \in DOMAIN ln /\ Len(ln) \in DOMAIN ln /\ (Len(ln) = 2 => 2 \in DOMAIN ln)
  BY <1>1, <1>2
<1> QED
  BY <1>1, <1>3

LEMMA FineMatches ==
  ASSUME ColourOK, NEW x, NEW tint \in BOOLEAN, Fine(x, tint)
  PROVE  /\ Readable(x) /\ Matches(x, chosen)
         /\ ~tint => ~Tinted(x)
BY DEF Fine, Matches, Tinted, ColourOK

LEMMA PlainMatches ==
  ASSUME NEW x, NEW typed, ~Tinted(x)
  PROVE  Matches(x, typed)
BY DEF Tinted, Matches

\* What a command prints, whichever way.
LEMMA Printed ==
  ASSUME ColourOK, NEW cmd, IsCommand(cmd), NEW r \in Readings, NEW kind,
         capturing_output \in BOOLEAN
  PROVE  LET text == Items(Script(cmd, r), kind)
         IN  /\ Sequence(text)
             /\ \A k \in 1 .. Len(text) :
                  /\ Readable(text[k]) /\ Matches(text[k], chosen)
                  /\ ~Reports(cmd) => ~Tinted(text[k])
<1>1. PICK script : script = Script(cmd, r)
  OBVIOUS
<1>2. Legible(script, Reports(cmd))
  BY <1>1, ScriptLegible DEF ColourOK
<1>3. Sequence(script) /\ Len(script) \in Nat
      /\ \A j \in 1 .. Len(script) : Fine(script[j].item, Reports(cmd))
  BY <1>2, SequenceDomain DEF Legible
<1>4. PICK text : text = Items(script, kind)
  OBVIOUS
<1>5. /\ Sequence(text)
      /\ \A k \in 1 .. Len(text) : \E j \in 1 .. Len(script) : text[k] = script[j].item
  BY <1>3, <1>4, ItemsFromScript
<1>6. Reports(cmd) \in BOOLEAN
  BY DEF Reports
<1>7. ASSUME NEW k \in 1 .. Len(text)
      PROVE  /\ Readable(text[k]) /\ Matches(text[k], chosen)
             /\ ~Reports(cmd) => ~Tinted(text[k])
  <2>1. Fine(text[k], Reports(cmd))
    BY <1>3, <1>5, <1>7
  <2> QED
    BY <2>1, <1>6, FineMatches
<1> QED
  BY <1>1, <1>4, <1>5, <1>7

LEMMA RunFirstStep ==
  ASSUME IInv, RunFirst
  PROVE  IInv'
<1>1. at = "first" /\ Run(line[1], "flush")
  BY DEF RunFirst
<1>2. PICK cmd : cmd = line[1]
  OBVIOUS
<1>3. line \in Lines /\ Len(line) = 2 /\ capturing_output = TRUE
  BY <1>1 DEF IInv, ControlOK
<1>4. IsCommand(cmd)
  BY <1>2, <1>3, LineFacts
<1>5. /\ at' = "flush" /\ UNCHANGED <<line, capturing_output, machine>>
  BY <1>1, <1>3 DEF Run
<1>6. SetColour(cmd) /\ Choose(cmd)
  BY <1>1, <1>2 DEF Run, Output
<1>7. PICK r \in Readings :
        /\ pipe_buffer' = Capture(Items(Script(cmd, r), {"say"}))
        /\ out' = out \o Items(Script(cmd, r), {"put"})
  BY <1>1, <1>2, <1>3 DEF Run, Output
<1>8. /\ ColourOK /\ capturing_output \in BOOLEAN /\ ~Reports(cmd)
      /\ pipe_buffer = << >> /\ out = << >>
  BY <1>1, <1>3 DEF IInv, HalvesOK, Reports
<1>9. PICK said : said = Items(Script(cmd, r), {"say"})
  OBVIOUS
<1>10. PICK put : put = Items(Script(cmd, r), {"put"})
  OBVIOUS
<1>11. /\ Sequence(said)
       /\ \A k \in 1 .. Len(said) : Readable(said[k]) /\ ~Tinted(said[k])
  BY <1>4, <1>8, <1>9, Printed
<1>12. /\ Sequence(put)
       /\ \A k \in 1 .. Len(put) : Readable(put[k]) /\ ~Tinted(put[k])
  BY <1>4, <1>8, <1>10, Printed
<1>13. Sequence(pipe_buffer) /\ pipe_buffer \o said = said
  BY <1>8, <1>11, EmptySequence, JoinEmpty
<1>14. out' = put
  BY <1>7, <1>8, <1>10, <1>12, JoinEmpty
<1>15. PICK c : c = Capture(said)
  OBVIOUS
<1>16. /\ Sequence(c) /\ Len(c) < PIPE_BUFFER_SIZE
       /\ \A k \in 1 .. Len(c) : k \in 1 .. Len(said) /\ c[k] = said[k]
       /\ Len(said) < PIPE_BUFFER_SIZE => c = said
  <2>1. /\ Sequence(Capture(said)) /\ Len(Capture(said)) < PIPE_BUFFER_SIZE
        /\ \A k \in 1 .. Len(Capture(said)) :
             k \in 1 .. Len(pipe_buffer \o said)
             /\ Capture(said)[k] = (pipe_buffer \o said)[k]
        /\ Len(pipe_buffer \o said) < PIPE_BUFFER_SIZE
              => Capture(said) = pipe_buffer \o said
    BY <1>11, <1>13, CaptureFacts
  <2> QED
    BY <2>1, <1>13, <1>15
<1>17. pipe_buffer' = c
  BY <1>7, <1>9, <1>15
<1>18. ControlOK'
  BY <1>3, <1>5 DEF IInv, ControlOK
<1>19. TextOK'
  BY <1>11, <1>12, <1>14, <1>16, <1>17 DEF TextOK
<1>20. ColourOK'
  BY <1>4, <1>6, <1>8, ColourStep
<1>21. ReportOK'
  <2>1. \A k \in 1 .. Len(put) : Matches(put[k], chosen')
    BY <1>12, PlainMatches
  <2> QED
    BY <2>1, <1>12, <1>14 DEF ReportOK
<1>22. HalvesOK'
  <2>1. ASSUME ~PastCapture(cmd), Len(Alone(cmd)) < PIPE_BUFFER_SIZE
        PROVE  out' = << >> /\ Whats(pipe_buffer') = Alone(cmd)
    <3>1. Prints(Script(cmd, r), Alone(cmd), Ways)
      BY <2>1, <1>3, <1>4, <1>8, ScriptPrints DEF ColourOK
    <3>2. Ways = {"say"}
      BY <1>3 DEF Ways
    <3>3. Whats(said) = Alone(cmd)
      BY <3>1, <3>2, <1>9, WhatsItems
    <3>4. Len(said) < PIPE_BUFFER_SIZE
      BY <3>3, <2>1, <1>11, WhatsFacts
    <3>5. Whats(pipe_buffer') = Alone(cmd)
      BY <3>3, <3>4, <1>16, <1>17
    <3>6. put = << >>
      <4>1. /\ Sequence(Script(cmd, r))
            /\ \A k \in 1 .. Len(Script(cmd, r)) : Script(cmd, r)[k].by \in {"say"}
        BY <3>1, <3>2 DEF Prints, Shows
      <4>2. Len(Script(cmd, r)) \in Nat
        BY <4>1, SequenceDomain
      <4>3. \A k \in 1 .. Len(Script(cmd, r)) : Script(cmd, r)[k].by \notin {"put"}
        BY <4>1
      <4> QED
        BY <4>2, <4>3, <1>10, ItemsNone
    <3> QED
      BY <3>5, <3>6, <1>14
  <2>2. line'[1] = cmd
    BY <1>2, <1>5
  <2> QED
    BY <2>1, <2>2, <1>5 DEF HalvesOK, Captured, Piped
<1> QED
  BY <1>18, <1>19, <1>20, <1>21, <1>22 DEF IInv

LEMMA FlushStep ==
  ASSUME IInv, Flush
  PROVE  IInv'
<1>1. /\ at = "flush" /\ at' = "second" /\ capturing_output' = FALSE
      /\ out' = out \o pipe_buffer
      /\ UNCHANGED <<line, pipe_buffer, colours, machine>>
  BY DEF Flush
<1>2. UNCHANGED <<current_bg_color, current_text_color, chosen>>
  BY <1>1 DEF colours
<1>3. line \in Lines /\ Len(line) = 2
  BY <1>1 DEF IInv, ControlOK
<1>4. /\ Sequence(out) /\ Sequence(pipe_buffer)
      /\ Len(pipe_buffer) < PIPE_BUFFER_SIZE
      /\ \A k \in 1 .. Len(out) : Readable(out[k]) /\ ~Tinted(out[k])
      /\ \A k \in 1 .. Len(pipe_buffer) :
           Readable(pipe_buffer[k]) /\ ~Tinted(pipe_buffer[k])
  BY <1>1 DEF IInv, TextOK, ReportOK
<1>5. PICK u : u = out \o pipe_buffer
  OBVIOUS
<1>6. Sequence(u)
  BY <1>4, <1>5, ConcatFacts
<1>7. ASSUME NEW k \in 1 .. Len(u) PROVE Readable(u[k]) /\ ~Tinted(u[k])
  <2>1. \/ k \in 1 .. Len(out) /\ u[k] = out[k]
        \/ \E j \in 1 .. Len(pipe_buffer) :
             k = Len(out) + j /\ u[k] = pipe_buffer[j]
    <3>1. Sequence(out) /\ Sequence(pipe_buffer) /\ k \in 1 .. Len(out \o pipe_buffer)
      BY <1>4, <1>5, <1>7
    <3> QED
      BY <3>1, <1>5, Joined
  <2> QED
    BY <2>1, <1>4
<1>8. ControlOK'
  BY <1>1, <1>3 DEF IInv, ControlOK
<1>9. TextOK'
  BY <1>1, <1>4, <1>5, <1>6, <1>7 DEF TextOK
<1>10. ColourOK'
  BY <1>2 DEF IInv, ColourOK
<1>11. ReportOK'
  <2>1. \A k \in 1 .. Len(u) : Matches(u[k], chosen')
    BY <1>7, PlainMatches
  <2> QED
    BY <2>1, <1>1, <1>5, <1>7 DEF ReportOK
<1>12. HalvesOK'
  <2>1. Captured => Whats(u) = Alone(line[1])
    <3>1. SUFFICES ASSUME Captured PROVE Whats(u) = Alone(line[1])
      OBVIOUS
    <3>2. out = << >> /\ Whats(pipe_buffer) = Alone(line[1])
      BY <3>1, <1>1 DEF IInv, HalvesOK
    <3> QED
      BY <3>2, <1>4, <1>5, JoinEmpty
  <2>2. Captured' <=> Captured
    BY <1>1 DEF Captured
  <2> QED
    BY <2>1, <2>2, <1>1, <1>5 DEF HalvesOK, Piped
<1> QED
  BY <1>8, <1>9, <1>10, <1>11, <1>12 DEF IInv

LEMMA RunSecondStep ==
  ASSUME IInv, RunSecond
  PROVE  IInv'
<1>1. at = "second" /\ Run(line[Len(line)], "prompt")
  BY DEF RunSecond
<1>2. PICK cmd : cmd = line[Len(line)]
  OBVIOUS
<1>3. line \in Lines /\ capturing_output = FALSE
  BY <1>1 DEF IInv, ControlOK
<1>4. IsCommand(cmd)
  BY <1>2, <1>3, LineFacts
<1>5. /\ UNCHANGED <<line, capturing_output>>
      /\ at' \in {"pause", "stopped", "prompt"}
      /\ at' # "stopped" => cmd[1] # "SHUTDOWN"
      /\ machine' \in {"on", "off", "reset", "halted"}
  <2>1. machine \in {"on", "off", "reset", "halted"}
    BY DEF IInv, ControlOK
  <2> QED
    BY <2>1, <1>1, <1>2, <1>3 DEF Run, cmd_reboot, cmd_shutdown
<1>6. SetColour(cmd) /\ Choose(cmd)
  BY <1>1, <1>2 DEF Run, Output
<1>7. PICK r \in Readings :
        /\ out' = IF cmd[1] = "CLS" THEN << >>
                  ELSE out \o Items(Script(cmd, r), {"say", "put"})
        /\ UNCHANGED pipe_buffer
  BY <1>1, <1>2, <1>3 DEF Run, Output
<1>8. ColourOK /\ capturing_output \in BOOLEAN
  BY <1>3 DEF IInv
<1>9. PICK text : text = Items(Script(cmd, r), {"say", "put"})
  OBVIOUS
<1>10. /\ Sequence(text)
       /\ \A k \in 1 .. Len(text) :
            /\ Readable(text[k]) /\ Matches(text[k], chosen)
            /\ ~Reports(cmd) => ~Tinted(text[k])
  BY <1>4, <1>8, <1>9, Printed
<1>11. /\ ColourOK'
       /\ (cmd[1] # "COLOR" \/ Len(cmd) = 1) => chosen' = chosen
  BY <1>4, <1>6, <1>8, ColourStep DEF colours
<1>12. \A k \in 1 .. Len(text) : Matches(text[k], chosen')
  <2>1. CASE Reports(cmd)
    BY <2>1, <1>10, <1>11 DEF Reports
  <2>2. CASE ~Reports(cmd)
    BY <2>2, <1>10, PlainMatches
  <2> QED
    BY <2>1, <2>2
<1>13. /\ Sequence(out)
       /\ \A k \in 1 .. Len(out) : Readable(out[k]) /\ ~Tinted(out[k])
  BY <1>1 DEF IInv, TextOK, ReportOK
<1>14. PICK u : u = out \o text
  OBVIOUS
<1>15. Sequence(u)
  BY <1>10, <1>13, <1>14, ConcatFacts
<1>16. ASSUME NEW k \in 1 .. Len(u) PROVE Readable(u[k]) /\ Matches(u[k], chosen')
  <2>1. \/ k \in 1 .. Len(out) /\ u[k] = out[k]
        \/ \E j \in 1 .. Len(text) : k = Len(out) + j /\ u[k] = text[j]
    BY <1>10, <1>13, <1>14, <1>16, Joined
  <2> QED
    BY <2>1, <1>10, <1>12, <1>13, PlainMatches
<1>17. /\ Sequence(out')
       /\ \A k \in 1 .. Len(out') : Readable(out'[k]) /\ Matches(out'[k], chosen')
  <2>1. CASE cmd[1] = "CLS"
    <3>1. PICK e : e = << >>
      OBVIOUS
    <3>2. Sequence(e) /\ Len(e) = 0
      BY <3>1, EmptySequence
    <3>3. out' = e
      BY <3>1, <2>1, <1>7
    <3> QED
      BY <3>2, <3>3
  <2>2. CASE cmd[1] # "CLS"
    <3>1. out' = u
      BY <2>2, <1>7, <1>9, <1>14
    <3> QED
      BY <3>1, <1>15, <1>16
  <2> QED
    BY <2>1, <2>2
<1>18. ControlOK'
  BY <1>3, <1>5 DEF IInv, ControlOK
<1>19. TextOK'
  BY <1>7, <1>17 DEF IInv, TextOK
<1>20. ReportOK'
  BY <1>5, <1>17 DEF ReportOK
<1>21. HalvesOK'
  <2>1. ASSUME Len(line) = 2, Captured, cmd[1] # "CLS", at' # "stopped"
        PROVE  Whats(out') = Alone(line[1]) \o Alone(line[2])
    <3>1. Whats(out) = Alone(line[1])
      BY <2>1, <1>1 DEF IInv, HalvesOK
    <3>2. cmd = line[2]
      BY <2>1, <1>2
    <3>3. Prints(Script(cmd, r), Alone(cmd), Ways)
      BY <2>1, <1>3, <1>4, <1>5, <1>8, ScriptPrints DEF ColourOK
    <3>4. Ways = {"say", "put"}
      BY <1>3 DEF Ways
    <3>5. Whats(text) = Alone(cmd)
      BY <3>3, <3>4, <1>9, WhatsItems
    <3>6. Whats(u) = Whats(out) \o Whats(text)
      BY <1>10, <1>13, <1>14, WhatsConcat
    <3>7. out' = u
      BY <2>1, <1>7, <1>9, <1>14
    <3> QED
      BY <3>1, <3>2, <3>5, <3>6, <3>7
  <2>2. Captured' <=> Captured
    BY <1>5 DEF Captured
  <2>3. at' \notin {"first", "flush", "second"}
    BY <1>5
  <2>4. Piped' => Len(line) = 2 /\ cmd[1] # "CLS" /\ at' # "stopped"
    BY <1>2, <1>5 DEF Piped
  <2>5. (Piped' /\ Captured') => Whats(out') = Alone(line'[1]) \o Alone(line'[2])
    BY <2>1, <2>2, <2>4, <1>5
  <2> QED
    BY <2>3, <2>5 DEF HalvesOK
<1> QED
  BY <1>11, <1>18, <1>19, <1>20, <1>21 DEF IInv

LEMMA EnterStep ==
  ASSUME IInv, NEW new \in Lines, Enter(new)
  PROVE  IInv'
<1>1. /\ at = "prompt" /\ line' = new /\ out' = << >>
      /\ UNCHANGED <<colours, machine>>
  BY DEF Enter
<1>2. \/ Len(new) = 1 /\ at' = "second" /\ UNCHANGED <<capturing_output, pipe_buffer>>
      \/ Len(new) = 2 /\ at' = "first" /\ pipe_buffer' = << >> /\ capturing_output' = TRUE
  BY DEF Enter
<1>3. PICK e : e = << >>
  OBVIOUS
<1>4. Sequence(e) /\ Len(e) = 0
  BY <1>3, EmptySequence
<1>5. PIPE_BUFFER_SIZE \in Nat /\ PIPE_BUFFER_SIZE # 0
  BY CommandsAssumption
<1>6. ControlOK'
  <2>1. capturing_output = FALSE /\ machine \in {"on", "off", "reset", "halted"}
    BY <1>1 DEF IInv, ControlOK
  <2>2. capturing_output' \in BOOLEAN /\ (capturing_output' <=> at' \in {"first", "flush"})
    BY <2>1, <1>2
  <2>3. line' \in Lines /\ machine' \in {"on", "off", "reset", "halted"}
    BY <2>1, <1>1
  <2>4. at' = "second" \/ (at' = "first" /\ Len(line') = 2)
    BY <1>1, <1>2
  <2> QED
    BY ONLY <2>2, <2>3, <2>4 DEF ControlOK
<1>7. TextOK'
  <2>1. CASE pipe_buffer' = pipe_buffer
    BY <2>1, <1>1, <1>3, <1>4 DEF IInv, TextOK
  <2>2. CASE pipe_buffer' = << >>
    <3>1. pipe_buffer' = e /\ out' = e
      BY <2>2, <1>1, <1>3
    <3> QED
      BY <3>1, <1>4, <1>5 DEF TextOK
  <2> QED
    BY <2>1, <2>2, <1>2
<1>8. ColourOK'
  BY <1>1 DEF IInv, ColourOK, colours
<1>9. ReportOK'
  BY <1>1, <1>3, <1>4 DEF ReportOK
<1>10. HalvesOK'
  BY <1>1, <1>2 DEF HalvesOK, Piped
<1> QED
  BY <1>6, <1>7, <1>8, <1>9, <1>10 DEF IInv

LEMMA KeyStep ==
  ASSUME IInv, Key
  PROVE  IInv'
<1>1. /\ at = "pause" /\ at' = "prompt"
      /\ UNCHANGED <<line, capturing_output, pipe_buffer, out, machine>>
      /\ UNCHANGED <<current_bg_color, current_text_color, chosen>>
  BY DEF Key, colours
<1>2. ControlOK'
  BY <1>1 DEF IInv, ControlOK
<1>3. TextOK' /\ ColourOK' /\ ReportOK'
  BY <1>1 DEF IInv, TextOK, ColourOK, ReportOK
<1>4. HalvesOK'
  BY <1>1 DEF IInv, HalvesOK, Piped, Captured
<1> QED
  BY <1>2, <1>3, <1>4 DEF IInv

-----------------------------------------------------------------------------
(***************************************************************************)
(* Theorems.                                                               *)
(***************************************************************************)

\* The invariant holds in every state of the specification: where
\* execute_command is, what it captures, that every number reads back, that
\* the colours are the ones typed, and which half's text is where.
THEOREM Invariant == Spec => []IInv
<1>1. Init => IInv
  <2>1. SUFFICES ASSUME Init PROVE IInv
    OBVIOUS
  <2>2. PICK e : e = << >>
    OBVIOUS
  <2>3. Sequence(e) /\ Len(e) = 0
    BY <2>2, EmptySequence
  <2>4. line = e /\ pipe_buffer = e /\ out = e /\ at = "prompt"
    BY <2>1, <2>2 DEF Init
  <2>5. PIPE_BUFFER_SIZE \in Nat /\ PIPE_BUFFER_SIZE # 0
    BY CommandsAssumption
  <2>6. ControlOK
    <3>1. Len(line) # 2 /\ line = << >>
      BY <2>2, <2>3, <2>4
    <3> QED
      BY <3>1, <2>1 DEF Init, ControlOK
  <2>7. TextOK
    BY <2>3, <2>4, <2>5 DEF TextOK
  <2>8. ColourOK
    <3>1. PICK c : c = <<"0", "F">>
      OBVIOUS
    <3>2. c = [k \in 1 .. 2 |-> c[k]] /\ c[1] = "0" /\ c[2] = "F"
      BY <3>1
    <3>3. chosen = c /\ current_bg_color = 0 /\ current_text_color = 15
      BY <2>1, <3>1 DEF Init
    <3>4. hex[0 + 1] = "0" /\ hex[15 + 1] = "F"
      BY HexDigits
    <3> QED
      BY <3>2, <3>3, <3>4 DEF ColourOK
  <2>9. ReportOK
    BY <2>3, <2>4 DEF ReportOK
  <2>10. HalvesOK
    BY <2>3, <2>4 DEF HalvesOK, Piped
  <2> QED
    BY <2>6, <2>7, <2>8, <2>9, <2>10 DEF IInv
<1>2. IInv /\ [Next]_vars => IInv'
  <2>1. SUFFICES ASSUME IInv, [Next]_vars PROVE IInv'
    OBVIOUS
  <2>2. CASE \E new \in Lines : Enter(new)
    BY <2>1, <2>2, EnterStep
  <2>3. CASE RunFirst
    BY <2>1, <2>3, RunFirstStep
  <2>4. CASE Flush
    BY <2>1, <2>4, FlushStep
  <2>5. CASE RunSecond
    BY <2>1, <2>5, RunSecondStep
  <2>6. CASE Key
    BY <2>1, <2>6, KeyStep
  <2>7. CASE UNCHANGED vars
    <3>1. /\ UNCHANGED <<at, line, capturing_output, pipe_buffer, out, machine>>
          /\ UNCHANGED <<current_bg_color, current_text_color, chosen>>
      BY <2>7 DEF vars, colours
    <3>2. ControlOK'
      BY <2>1, <3>1 DEF IInv, ControlOK
    <3>3. TextOK' /\ ColourOK' /\ ReportOK'
      BY <2>1, <3>1 DEF IInv, TextOK, ColourOK, ReportOK
    <3>4. HalvesOK'
      BY <2>1, <3>1 DEF IInv, HalvesOK, Piped, Captured
    <3> QED
      BY <3>2, <3>3, <3>4 DEF IInv
  <2> QED
    BY <2>1, <2>2, <2>3, <2>4, <2>5, <2>6, <2>7 DEF Next
<1> QED
  BY <1>1, <1>2, PTL DEF Spec

\* The values of the variables; shell_print never fills pipe_buffer to its
\* last place.
THEOREM TypeCorrect == Spec => []TypeOK
<1>1. IInv => TypeOK
  BY DEF IInv, ControlOK, TextOK, ColourOK, TypeOK
<1> QED
  BY <1>1, Invariant, PTL

\* execute_command captures only while it runs the first half of a pipe:
\* the prompt, PAUSE's wait and a stopped machine never see the flag set.
THEOREM CaptureStaysScoped == Spec => []CaptureScoped
<1>1. IInv => CaptureScoped
  BY DEF IInv, ControlOK, CaptureScoped
<1> QED
  BY <1>1, Invariant, PTL

\* A pipe shows the output of its first command and then that of its second,
\* nothing lost and nothing twice, for every pair of commands whose first
\* prints by way of shell_print and fits the buffer.
THEOREM PipeShowsBothHalves == Spec => []PipeShowsBoth
<1>1. IInv => PipeShowsBoth
  BY DEF IInv, HalvesOK, PipeShowsBoth, Captured, Whats
<1> QED
  BY <1>1, Invariant, PTL

\* print_num, vga_print_hex and format_size print every number so that it
\* reads back, for all values of the readings.
THEOREM NumbersAreReadable == Spec => []NumbersReadBack
<1>1. IInv => NumbersReadBack
  <2>1. SUFFICES ASSUME IInv PROVE NumbersReadBack
    OBVIOUS
  <2>2. DOMAIN out = 1 .. Len(out) /\ \A k \in 1 .. Len(out) : Readable(out[k])
    BY <2>1, SequenceDomain DEF IInv, TextOK
  <2> QED
    BY <2>2 DEF NumbersReadBack, Readable
<1> QED
  BY <1>1, Invariant, PTL

\* COLOR without arguments reports the colours that were typed last, in
\* either case of letters and with the missing one kept.
THEOREM ColoursAsTyped == Spec => []ColourShownAsTyped
<1>1. IInv => ColourShownAsTyped
  <2>1. SUFFICES ASSUME IInv PROVE ColourShownAsTyped
    OBVIOUS
  <2>2. DOMAIN out = 1 .. Len(out) /\ \A k \in 1 .. Len(out) : Matches(out[k], chosen)
    BY <2>1, SequenceDomain DEF IInv, TextOK, ReportOK
  <2> QED
    BY <2>2 DEF ColourShownAsTyped, Matches
<1> QED
  BY <1>1, Invariant, PTL

=============================================================================
