--------------------------- MODULE PenroseProofs ---------------------------
(***************************************************************************)
(* Machine-checked theorems about PenroseAnimator, for every culling radius *)
(* and every sequence of frames.  The tiles of a generation are half-rhombs *)
(* of one size, and the margin of the visibility test is wide enough for    *)
(* that size: no line that crosses the screen is left out.  Culling keeps   *)
(* what will come into view, so promotions do not show.  And splitting,     *)
(* scaling and culling leave no half-rhomb in the middle without its other  *)
(* half.                                                                    *)
(***************************************************************************)
EXTENDS PenroseAnimator, TLAPS

\* v times z, v over phi, and v the other way.
Turn(v)   == <<0 - v[4], v[1] + v[4], v[2] - v[4], v[3] + v[4]>>
Turn2(v)  == Turn(Turn(v))
Turn3(v)  == Turn(Turn2(v))
Turn4(v)  == Turn(Turn3(v))
Shrunk(v) == Sub(TimesPhi(v), v)
Minus(v)  == Sub(Origin, v)

\* |v|^2 = A + B phi, exactly.
Mixed(v) == v[1] * v[3] + v[2] * v[4] - v[1] * v[4]
A(v) == v[1] * v[1] + v[2] * v[2] + v[3] * v[3] + v[4] * v[4] - Mixed(v)
B(v) == v[1] * v[2] + v[2] * v[3] + v[3] * v[4] + Mixed(v)
Size(v, m, n) == v \in Point /\ A(v) = m /\ B(v) = n

LEMMA Closed ==
  ASSUME NEW u \in Point, NEW v \in Point
  PROVE  /\ Add(u, v) \in Point /\ Sub(u, v) \in Point /\ TimesPhi(u) \in Point
         /\ Turn(u) \in Point /\ Turn2(u) \in Point /\ Turn3(u) \in Point /\ Turn4(u) \in Point
         /\ Shrunk(u) \in Point /\ Minus(u) \in Point /\ Origin \in Point
         /\ Toward(u, v) \in Point
<1>1. ASSUME NEW p \in Int, NEW q \in Int, NEW r \in Int, NEW s \in Int
      PROVE  <<p, q, r, s>> \in Point
  BY DEF Point
<1>2. /\ \A w \in Point : \A i \in 1..4 : w[i] \in Int
      /\ 1 \in 1..4 /\ 2 \in 1..4 /\ 3 \in 1..4 /\ 4 \in 1..4
  BY DEF Point
<1>3. \A x, y \in Point : Add(x, y) \in Point
  BY <1>1, <1>2 DEF Add
<1>4. \A x, y \in Point : Sub(x, y) \in Point
  BY <1>1, <1>2 DEF Sub
<1>5. \A x \in Point : TimesPhi(x) \in Point
  BY <1>1, <1>2 DEF TimesPhi
<1>6. \A x \in Point : Turn(x) \in Point
  BY <1>1, <1>2 DEF Turn
<1>7. Origin \in Point
  BY <1>1 DEF Origin
<1>. QED
  BY <1>3, <1>4, <1>5, <1>6, <1>7 DEF Shrunk, Minus, Toward, Turn2, Turn3, Turn4

LEMMA TurnSize ==
  ASSUME NEW m, NEW n, NEW v, Size(v, m, n)
  PROVE  Size(Turn(v), m, n) /\ Size(Minus(v), m, n)
<1>1. A(Turn(v)) = A(v) /\ B(Turn(v)) = B(v)
  BY DEF B, A, Mixed, Turn, Point, Size
<1>2. A(Minus(v)) = A(v) /\ B(Minus(v)) = B(v)
  BY DEF B, A, Mixed, Minus, Origin, Sub, Point, Size
<1>. QED
  BY <1>1, <1>2, Closed DEF Size

LEMMA ShrunkSize ==
  ASSUME NEW m, NEW n, NEW v, Size(v, m, n)
  PROVE  Size(Shrunk(v), 2 * m - n, n - m)
<1>1. A(Shrunk(v)) = 2 * A(v) - B(v) /\ B(Shrunk(v)) = B(v) - A(v)
  BY DEF B, A, Mixed, Shrunk, Sub, TimesPhi, Point, Size
<1>. QED
  BY <1>1, Closed DEF Size

LEMMA PhiSize ==
  ASSUME NEW m, NEW n, NEW v, Size(v, m, n)
  PROVE  Size(TimesPhi(v), m + n, m + 2 * n)
<1>1. A(TimesPhi(v)) = A(v) + B(v) /\ B(TimesPhi(v)) = A(v) + 2 * B(v)
  BY DEF B, A, Mixed, TimesPhi, Point, Size
<1>. QED
  BY <1>1, Closed DEF Size

\* Differences do not depend on where the corners are.
LEMMA Differences ==
  ASSUME NEW a \in Point, NEW b \in Point, NEW c \in Point, NEW s \in Point, NEW u \in Point
  PROVE  /\ Sub(Add(a, s), c) = Sub(s, Sub(c, a)) /\ Sub(c, Add(a, s)) = Sub(Sub(c, a), s)
         /\ Sub(b, c) = Sub(Sub(b, a), Sub(c, a)) /\ Sub(a, Add(a, s)) = Minus(s)
         /\ Sub(a, b) = Minus(Sub(b, a)) /\ Sub(Add(a, s), Add(a, u)) = Sub(s, u)
         /\ Minus(Minus(s)) = s
BY DEF Add, Sub, Minus, Origin, Point

\* What z is in this ring, together with phi: the sides of the halves of a tile.
LEMMA ThinRing ==
  ASSUME NEW v \in Point
  PROVE  LET s == Shrunk(v)
         IN  /\ Sub(s, Turn(v)) = Minus(Turn2(s))
             /\ Sub(v, Turn(v)) = Minus(Turn3(s))
             /\ Sub(Turn(v), s) = Turn2(s)
<1> DEFINE s == Shrunk(v)
<1>1. PICK p \in Int, q \in Int, r \in Int, x \in Int : v = <<p, q, r, x>>
  BY DEF Point
<1>2. s = <<q - x, 0 - q + r + x, p + q - r, 0 - p + r>>
  BY <1>1 DEF Shrunk, TimesPhi, Sub
<1>3. Turn(v) = <<0 - x, p + x, q - x, r + x>>
  BY <1>1 DEF Turn
<1>4. Sub(s, Turn(v)) = <<q, 0 - p - q + r, p - r + x, 0 - p - x>>
  BY <1>2, <1>3 DEF Sub
<1>5. Turn(s) = <<p - r, 0 - p + q + r - x, p - q + x, q>>
  BY <1>2 DEF Turn
<1>6. Turn2(s) = <<0 - q, p + q - r, 0 - p + r - x, p + x>>
  BY <1>5 DEF Turn2, Turn
<1>7. Minus(Turn2(s)) = <<q, 0 - p - q + r, p - r + x, 0 - p - x>>
  BY <1>6 DEF Minus, Origin, Sub
<1>8. Sub(v, Turn(v)) = <<p + x, 0 - p + q - x, 0 - q + r + x, 0 - r>>
  BY <1>1, <1>3 DEF Sub
<1>9. Turn3(s) = <<0 - p - x, p - q + x, q - r - x, r>>
  BY <1>6 DEF Turn3, Turn
<1>10. Minus(Turn3(s)) = <<p + x, 0 - p + q - x, 0 - q + r + x, 0 - r>>
  BY <1>9 DEF Minus, Origin, Sub
<1>11. Sub(Turn(v), s) = <<0 - q, p + q - r, 0 - p + r - x, p + x>>
  BY <1>3, <1>2 DEF Sub
<1>. QED
  BY <1>4, <1>7, <1>8, <1>10, <1>11, <1>6

LEMMA ThinMirroredRing ==
  ASSUME NEW v \in Point
  PROVE  LET t == Shrunk(Turn(v))
         IN  /\ Sub(t, v) = Turn3(t)
             /\ Sub(Turn(v), v) = Turn2(t)
             /\ Sub(v, t) = Minus(Turn3(t))
<1> DEFINE t == Shrunk(Turn(v))
<1>1. PICK p \in Int, q \in Int, r \in Int, x \in Int : v = <<p, q, r, x>>
  BY DEF Point
<1>2. Turn(v) = <<0 - x, p + x, q - x, r + x>>
  BY <1>1 DEF Turn
<1>3. t = <<p - r, 0 - p + q + r - x, p - q + x, q>>
  BY <1>2 DEF Shrunk, TimesPhi, Sub
<1>4. Sub(t, v) = <<0 - r, 0 - p + r - x, p - q - r + x, q - x>>
  BY <1>3, <1>1 DEF Sub
<1>5. Turn(t) = <<0 - q, p + q - r, 0 - p + r - x, p + x>>
  BY <1>3 DEF Turn
<1>6. Turn2(t) = <<0 - p - x, p - q + x, q - r - x, r>>
  BY <1>5 DEF Turn2, Turn
<1>7. Turn3(t) = <<0 - r, 0 - p + r - x, p - q - r + x, q - x>>
  BY <1>6 DEF Turn3, Turn
<1>8. Sub(Turn(v), v) = <<0 - p - x, p - q + x, q - r - x, r>>
  BY <1>2, <1>1 DEF Sub
<1>9. Sub(v, t) = <<r, p - r + x, 0 - p + q + r - x, 0 - q + x>>
  BY <1>1, <1>3 DEF Sub
<1>10. Minus(Turn3(t)) = <<r, p - r + x, 0 - p + q + r - x, 0 - q + x>>
  BY <1>7 DEF Minus, Origin, Sub
<1>. QED
  BY <1>4, <1>7, <1>8, <1>6, <1>9, <1>10

LEMMA ThickRing ==
  ASSUME NEW v \in Point
  PROVE  LET s == Shrunk(v)  k == Shrunk(Minus(v))  g == Sub(Turn3(v), v)  l == Shrunk(g)
         IN  /\ Sub(g, l) = Turn4(s)
             /\ Sub(Minus(v), l) = Minus(Turn2(s))
             /\ Sub(l, k) = Turn3(s)
             /\ Sub(k, l) = Minus(Turn3(s))
             /\ Minus(k) = s
<1> DEFINE s == Shrunk(v)
           k == Shrunk(Minus(v))
           g == Sub(Turn3(v), v)
           l == Shrunk(g)
<1>1. PICK p \in Int, q \in Int, r \in Int, x \in Int : v = <<p, q, r, x>>
  BY DEF Point
<1>2. Turn(v) = <<0 - x, p + x, q - x, r + x>>
  BY <1>1 DEF Turn
<1>3. Turn2(v) = <<0 - r - x, r, p - r, q + r>>
  BY <1>2 DEF Turn2, Turn
<1>4. Turn3(v) = <<0 - q - r, q - x, 0 - q, p + q>>
  BY <1>3 DEF Turn3, Turn
<1>5. g = <<0 - p - q - r, 0 - x, 0 - q - r, p + q - x>>
  BY <1>4, <1>1 DEF Sub
<1>6. l = <<0 - p - q, p - r, 0 - p - x, p>>
  BY <1>5 DEF Shrunk, TimesPhi, Sub
<1>7. Sub(g, l) = <<0 - r, 0 - p + r - x, p - q - r + x, q - x>>
  BY <1>5, <1>6 DEF Sub
<1>8. s = <<q - x, 0 - q + r + x, p + q - r, 0 - p + r>>
  BY <1>1 DEF Shrunk, TimesPhi, Sub
<1>9. Turn(s) = <<p - r, 0 - p + q + r - x, p - q + x, q>>
  BY <1>8 DEF Turn
<1>10. Turn2(s) = <<0 - q, p + q - r, 0 - p + r - x, p + x>>
  BY <1>9 DEF Turn2, Turn
<1>11. Turn3(s) = <<0 - p - x, p - q + x, q - r - x, r>>
  BY <1>10 DEF Turn3, Turn
<1>12. Turn4(s) = <<0 - r, 0 - p + r - x, p - q - r + x, q - x>>
  BY <1>11 DEF Turn4, Turn
<1>13. Minus(v) = <<0 - p, 0 - q, 0 - r, 0 - x>>
  BY <1>1 DEF Minus, Origin, Sub
<1>14. Sub(Minus(v), l) = <<q, 0 - p - q + r, p - r + x, 0 - p - x>>
  BY <1>13, <1>6 DEF Sub
<1>15. Minus(Turn2(s)) = <<q, 0 - p - q + r, p - r + x, 0 - p - x>>
  BY <1>10 DEF Minus, Origin, Sub
<1>16. k = <<0 - q + x, q - r - x, 0 - p - q + r, p - r>>
  BY <1>13 DEF Shrunk, TimesPhi, Sub
<1>17. Sub(l, k) = <<0 - p - x, p - q + x, q - r - x, r>>
  BY <1>6, <1>16 DEF Sub
<1>18. Sub(k, l) = <<p + x, 0 - p + q - x, 0 - q + r + x, 0 - r>>
  BY <1>16, <1>6 DEF Sub
<1>19. Minus(Turn3(s)) = <<p + x, 0 - p + q - x, 0 - q + r + x, 0 - r>>
  BY <1>11 DEF Minus, Origin, Sub
<1>20. Minus(k) = <<q - x, 0 - q + r + x, p + q - r, 0 - p + r>>
  BY <1>16 DEF Minus, Origin, Sub
<1>. QED
  BY <1>7, <1>12, <1>14, <1>15, <1>17, <1>11, <1>18, <1>19, <1>20, <1>8

LEMMA ThickMirroredRing ==
  ASSUME NEW v \in Point
  PROVE  LET s == Shrunk(Turn3(v))  k == Shrunk(Minus(Turn3(v)))
             g == Sub(v, Turn3(v))  l == Shrunk(g)
         IN  /\ Sub(g, l) = Minus(Turn(s))
             /\ Sub(Minus(Turn3(v)), l) = Turn3(s)
             /\ Sub(l, k) = Minus(Turn2(s))
             /\ Sub(k, l) = Turn2(s)
             /\ Minus(k) = s
<1> DEFINE s == Shrunk(Turn3(v))
           k == Shrunk(Minus(Turn3(v)))
           g == Sub(v, Turn3(v))
           l == Shrunk(g)
<1>1. PICK p \in Int, q \in Int, r \in Int, x \in Int : v = <<p, q, r, x>>
  BY DEF Point
<1>2. Turn(v) = <<0 - x, p + x, q - x, r + x>>
  BY <1>1 DEF Turn
<1>3. Turn2(v) = <<0 - r - x, r, p - r, q + r>>
  BY <1>2 DEF Turn2, Turn
<1>4. Turn3(v) = <<0 - q - r, q - x, 0 - q, p + q>>
  BY <1>3 DEF Turn3, Turn
<1>5. g = <<p + q + r, x, q + r, 0 - p - q + x>>
  BY <1>1, <1>4 DEF Sub
<1>6. l = <<p + q, 0 - p + r, p + x, 0 - p>>
  BY <1>5 DEF Shrunk, TimesPhi, Sub
<1>7. Sub(g, l) = <<r, p - r + x, 0 - p + q + r - x, 0 - q + x>>
  BY <1>5, <1>6 DEF Sub
<1>8. s = <<0 - p - x, p - q + x, q - r - x, r>>
  BY <1>4 DEF Shrunk, TimesPhi, Sub
<1>9. Turn(s) = <<0 - r, 0 - p + r - x, p - q - r + x, q - x>>
  BY <1>8 DEF Turn
<1>10. Minus(Turn(s)) = <<r, p - r + x, 0 - p + q + r - x, 0 - q + x>>
  BY <1>9 DEF Minus, Origin, Sub
<1>11. Minus(Turn3(v)) = <<q + r, 0 - q + x, q, 0 - p - q>>
  BY <1>4 DEF Minus, Origin, Sub
<1>12. Sub(Minus(Turn3(v)), l) = <<0 - p + r, p - q - r + x, 0 - p + q - x, 0 - q>>
  BY <1>11, <1>6 DEF Sub
<1>13. Turn2(s) = <<0 - q + x, q - r - x, 0 - p - q + r, p - r>>
  BY <1>9 DEF Turn2, Turn
<1>14. Turn3(s) = <<0 - p + r, p - q - r + x, 0 - p + q - x, 0 - q>>
  BY <1>13 DEF Turn3, Turn
<1>15. k = <<p + x, 0 - p + q - x, 0 - q + r + x, 0 - r>>
  BY <1>11 DEF Shrunk, TimesPhi, Sub
<1>16. Sub(l, k) = <<q - x, 0 - q + r + x, p + q - r, 0 - p + r>>
  BY <1>6, <1>15 DEF Sub
<1>17. Minus(Turn2(s)) = <<q - x, 0 - q + r + x, p + q - r, 0 - p + r>>
  BY <1>13 DEF Minus, Origin, Sub
<1>18. Sub(k, l) = <<0 - q + x, q - r - x, 0 - p - q + r, p - r>>
  BY <1>15, <1>6 DEF Sub
<1>19. Minus(k) = <<0 - p - x, p - q + x, q - r - x, r>>
  BY <1>15 DEF Minus, Origin, Sub
<1>. QED
  BY <1>7, <1>10, <1>12, <1>14, <1>16, <1>17, <1>18, <1>13, <1>19, <1>8

-----------------------------------------------------------------------------
(* Norm2 is a norm: it is positive on the whole ring, as 1.618033 is less than the  *)
(* golden ratio.                                                                    *)

LEMMA NormInt == \A v \in Point : Norm2(v) \in Int /\ Norm2(v) = 1000000 * A(v) + 1618033 * B(v)
BY DEF Norm2, A, B, Mixed, Point

\* Four squares of linear forms make it up.
LEMMA NormPositive ==
  ASSUME NEW v \in Point
  PROVE  Norm2(v) \in Int /\ Norm2(v) >= 0
<1>1. PICK p \in Int, q \in Int, r \in Int, x \in Int : v = <<p, q, r, x>>
  BY DEF Point
<1> DEFINE s1 == Norm2(v)
           l1 == 2000000 * p + 1618033 * q + 618033 * r - 618033 * x
           l2 == 1381969210911 * q + 2236068210911 * r + 2236063789089 * x
           l3 == 2763934 * r + 3618033 * x
           s2 == 1381969210911 * (q * q) + 4472136421822 * (q * r) + 4472127578178 * (q * x)
                 + 3618035210911 * (r * r) + 7236061578178 * (r * x) + 3618035210911 * (x * x)
           s3 == 2763934 * (r * r) + 7236066 * (r * x) + 7236066 * (x * x)
<1>2. 2763934 * s3 = l3 * l3 + 6909846054555 * (x * x)
  OBVIOUS
<1>3. 1381969210911 * s2 = l2 * l2 + 4421822000000 * s3
  OBVIOUS
<1>4. 4000000 * s1 = l1 * l1 + s2
  BY <1>1 DEF Norm2
<1>5. /\ l1 * l1 >= 0 /\ l2 * l2 >= 0 /\ l3 * l3 >= 0 /\ x * x >= 0
      /\ l1 * l1 \in Int /\ l2 * l2 \in Int /\ l3 * l3 \in Int /\ x * x \in Int
  <2>1. \A n \in Int : n * n >= 0 /\ n * n \in Int
    OBVIOUS
  <2>2. l1 \in Int /\ l2 \in Int /\ l3 \in Int
    OBVIOUS
  <2> HIDE DEF l1, l2, l3
  <2>. QED
    BY <2>1, <2>2
<1>6. s1 \in Int /\ s2 \in Int /\ s3 \in Int
  BY <1>1 DEF Norm2
<1> HIDE DEF s1, s2, s3, l1, l2, l3
<1>7. s3 >= 0
  BY <1>2, <1>5, <1>6
<1>8. s2 >= 0
  BY <1>3, <1>5, <1>6, <1>7
<1>9. s1 >= 0
  BY <1>4, <1>5, <1>6, <1>8
<1>. QED
  BY <1>6, <1>9 DEF s1

\* Dividing by phi makes nothing much longer, in this norm either.
LEMMA NormOfPhi ==
  ASSUME NEW v \in Point
  PROVE  3 * Norm2(TimesPhi(v)) >= Norm2(v)
<1>1. PICK p \in Int, q \in Int, r \in Int, x \in Int : v = <<p, q, r, x>>
  BY DEF Point
<1> DEFINE s1 == 3 * Norm2(TimesPhi(v)) - Norm2(v)
           l1 == 13708198 * p + 11090165 * q + 4236066 * r - 4236066 * x
           l2 == 64922932679979 * q + 105047506781780 * r + 105047502359958 * x
           l3 == 18944264 * r + 24798363 * x
           s2 == 64922932679979 * (q * q) + 210095013563560 * (q * r)
                 + 210095004719916 * (q * x) + 169970437250848 * (r * r)
                 + 339940865658052 * (r * x) + 169970437250848 * (x * x)
           s3 == 18944264 * (r * r) + 49596726 * (r * x) + 49596726 * (x * x)
<1>2. 18944264 * s3 = l3 * l3 + 324614663399895 * (x * x)
  OBVIOUS
<1>3. 64922932679979 * s2 = l2 * l2 + 30307605748378 * s3
  OBVIOUS
<1>4. 27416396 * s1 = l1 * l1 + s2
  BY <1>1 DEF Norm2, TimesPhi
<1>5. /\ l1 * l1 >= 0 /\ l2 * l2 >= 0 /\ l3 * l3 >= 0 /\ x * x >= 0
      /\ l1 * l1 \in Int /\ l2 * l2 \in Int /\ l3 * l3 \in Int /\ x * x \in Int
  <2>1. \A n \in Int : n * n >= 0 /\ n * n \in Int
    OBVIOUS
  <2>2. l1 \in Int /\ l2 \in Int /\ l3 \in Int
    OBVIOUS
  <2> HIDE DEF l1, l2, l3
  <2>. QED
    BY <2>1, <2>2
<1>6. s1 \in Int /\ s2 \in Int /\ s3 \in Int
  BY <1>1 DEF Norm2, TimesPhi
<1>10. Norm2(v) \in Int /\ Norm2(TimesPhi(v)) \in Int
  BY <1>1 DEF Norm2, TimesPhi
<1> HIDE DEF s1, s2, s3, l1, l2, l3
<1>7. s3 >= 0
  BY <1>2, <1>5, <1>6
<1>8. s2 >= 0
  BY <1>3, <1>5, <1>6, <1>7
<1>9. s1 >= 0
  BY <1>4, <1>5, <1>6, <1>8
<1>. QED
  BY <1>9, <1>10 DEF s1

\* The triangle inequality, without roots.
LEMMA Triangle ==
  ASSUME NEW u \in Point, NEW v \in Point
  PROVE  Norm2(u) <= 2 * Norm2(v) + 2 * Norm2(Sub(u, v))
<1> DEFINE w == Sub(v, Sub(u, v))
<1>1. w \in Point /\ Sub(u, v) \in Point
  BY Closed
<1>2. Norm2(u) + Norm2(w) = 2 * Norm2(v) + 2 * Norm2(Sub(u, v))
  <2>1. A(u) + A(w) = 2 * A(v) + 2 * A(Sub(u, v))
    BY SMT DEF A, Mixed, Sub, Point
  <2>2. B(u) + B(w) = 2 * B(v) + 2 * B(Sub(u, v))
    BY SMT DEF B, Mixed, Sub, Point
  <2>3. \A x \in {u, v, w, Sub(u, v)} : A(x) \in Int /\ B(x) \in Int
    BY <1>1 DEF A, B, Mixed, Point
  <2> HIDE DEF w
  <2>. QED
    BY <1>1, <2>1, <2>2, <2>3, NormInt, SMT
<1>3. Norm2(w) >= 0
  BY <1>1, NormPositive
<1> HIDE DEF w
<1>. QED
  BY <1>1, <1>2, <1>3, NormPositive

-----------------------------------------------------------------------------
(* The shape of a tile, and what the code's operations do to it.           *)

\* The legs from the apex are as long as m + n phi says, and a thin tile's are one
\* tenth of a turn apart, a thick one's three tenths.
Legs(kind, a, b, c, m, n) ==
  LET e == Sub(b, a)  f == Sub(c, a)
  IN  /\ Size(e, m, n) /\ Size(f, m, n)
      /\ kind = 0 => f = Turn(e) \/ e = Turn(f)
      /\ kind = 1 => f = Turn3(e) \/ e = Turn3(f)
Tile == [kind : {0, 1}, a : Point, b : Point, c : Point]
HalfRhomb(t, m, n) == t \in Tile /\ Legs(t.kind, t.a, t.b, t.c, m, n)

LEMMA Unit ==
  ASSUME NEW v \in Point
  PROVE  /\ Turn(Minus(v)) = Minus(Turn(v)) /\ Turn(Turn4(v)) = Minus(v) /\ Minus(Minus(v)) = v
         /\ Turn(TimesPhi(v)) = TimesPhi(Turn(v))
<1>1. PICK p \in Int, q \in Int, r \in Int, x \in Int : v = <<p, q, r, x>>
  BY DEF Point
<1>2. Turn(v) = <<0 - x, p + x, q - x, r + x>>
  BY <1>1 DEF Turn
<1>3. Turn2(v) = <<0 - r - x, r, p - r, q + r>>
  BY <1>2 DEF Turn2, Turn
<1>4. Turn3(v) = <<0 - q - r, q - x, 0 - q, p + q>>
  BY <1>3 DEF Turn3, Turn
<1>5. Turn4(v) = <<0 - p - q, p - r, 0 - p - x, p>>
  BY <1>4 DEF Turn4, Turn
<1>6. Turn(Turn4(v)) = <<0 - p, 0 - q, 0 - r, 0 - x>>
  BY <1>5 DEF Turn
<1>7. Minus(v) = <<0 - p, 0 - q, 0 - r, 0 - x>>
  BY <1>1 DEF Minus, Origin, Sub
<1>8. Turn(Minus(v)) = <<x, 0 - p - x, x - q, 0 - r - x>> /\ Minus(Minus(v)) = <<p, q, r, x>>
  BY <1>7 DEF Turn, Minus, Origin, Sub
<1>9. Minus(Turn(v)) = <<x, 0 - p - x, x - q, 0 - r - x>>
  BY <1>2 DEF Minus, Origin, Sub
<1>10. TimesPhi(v) = <<p + q - x, r + x, p + q, r + x - p>>
  BY <1>1 DEF TimesPhi
<1>11. Turn(TimesPhi(v)) = <<p - r - x, q + r, p, q + r + x>>
  BY <1>10 DEF Turn
<1>12. TimesPhi(Turn(v)) = <<p - r - x, q + r, p, q + r + x>>
  BY <1>2 DEF TimesPhi
<1>. QED
  BY <1>1, <1>6, <1>7, <1>8, <1>9, <1>11, <1>12

LEMMA Turns ==
  ASSUME NEW v \in Point
  PROVE  /\ Turn3(Minus(v)) = Minus(Turn3(v)) /\ Turn3(Turn2(v)) = Minus(v)
         /\ Turn3(Turn4(v)) = Minus(Turn2(v)) /\ Turn3(Turn3(v)) = Minus(Turn(v))
         /\ Turn3(Minus(Turn2(v))) = v /\ Turn3(TimesPhi(v)) = TimesPhi(Turn3(v))
<1>1. /\ Turn(v) \in Point /\ Turn2(v) \in Point /\ Turn3(v) \in Point /\ Minus(v) \in Point
      /\ TimesPhi(v) \in Point
  BY Closed
<1>2. Turn3(Minus(v)) = Minus(Turn3(v)) /\ Turn3(Turn2(v)) = Minus(v)
  BY <1>1, Unit DEF Turn2, Turn3, Turn4
<1>3. Turn3(Turn4(v)) = Minus(Turn2(v)) /\ Turn3(Turn3(v)) = Minus(Turn(v))
  BY <1>1, Unit DEF Turn2, Turn3, Turn4
<1>4. Turn3(Minus(Turn2(v))) = Minus(Turn3(Turn2(v)))
  BY <1>1, Unit, Closed DEF Turn2, Turn3, Turn4
<1>5. Turn3(TimesPhi(v)) = TimesPhi(Turn3(v))
  BY <1>1, Unit DEF Turn2, Turn3
<1>. QED
  BY <1>2, <1>3, <1>4, <1>5, Unit

LEMMA TurnsSize ==
  ASSUME NEW m, NEW n, NEW v, Size(v, m, n)
  PROVE  /\ Size(Turn(v), m, n) /\ Size(Turn2(v), m, n) /\ Size(Turn3(v), m, n)
         /\ Size(Turn4(v), m, n) /\ Size(Minus(v), m, n)
BY TurnSize DEF Turn2, Turn3, Turn4

\* A thin tile splits into a thin and a thick one.
LEMMA ThinHalves ==
  ASSUME NEW a \in Point, NEW b \in Point, NEW c \in Point, NEW m, NEW n, Legs(0, a, b, c, m, n)
  PROVE  LET p == Toward(a, b)
         IN  /\ p \in Point
             /\ Legs(0, c, p, b, 2 * m - n, n - m) /\ Legs(1, p, c, a, 2 * m - n, n - m)
<1> DEFINE e == Sub(b, a)  f == Sub(c, a)  s == Shrunk(e)  p == Add(a, s)
<1>1. /\ e \in Point /\ f \in Point /\ s \in Point /\ p \in Point
      /\ Turn(s) \in Point /\ Turn2(s) \in Point /\ Turn3(s) \in Point
  BY Closed
<1>2. Toward(a, b) = p
  BY DEF Toward, Shrunk
<1>3. /\ Size(e, m, n) /\ Size(f, m, n) /\ (f = Turn(e) \/ e = Turn(f))
  BY DEF Legs
<1>4. Size(s, 2 * m - n, n - m)
  BY <1>3, ShrunkSize
<1>5. /\ Sub(p, c) = Sub(s, f) /\ Sub(b, c) = Sub(e, f) /\ Sub(c, p) = Sub(f, s)
      /\ Sub(a, p) = Minus(s)
  BY <1>1, Differences
<1> HIDE DEF e, f, s, p
<1>6. /\ Turn(Minus(Turn2(s))) = Minus(Turn3(s)) /\ Turn3(Turn2(s)) = Minus(s)
      /\ Turn3(Minus(s)) = Minus(Turn3(s))
  BY <1>1, Unit, Turns DEF Turn3
<1>7. CASE f = Turn(e)
  <2>1. Sub(s, f) = Minus(Turn2(s)) /\ Sub(e, f) = Minus(Turn3(s)) /\ Sub(f, s) = Turn2(s)
    BY <1>1, <1>7, ThinRing DEF s
  <2>. QED
    BY <2>1, <1>1, <1>2, <1>4, <1>5, <1>6, TurnsSize DEF Legs
<1>8. CASE e = Turn(f)
  <2>1. Sub(s, f) = Turn3(s) /\ Sub(e, f) = Turn2(s) /\ Sub(f, s) = Minus(Turn3(s))
    BY <1>1, <1>8, ThinMirroredRing DEF s
  <2>2. Turn3(s) = Turn(Turn2(s))
    BY DEF Turn3
  <2>. QED
    BY <2>1, <2>2, <1>1, <1>2, <1>4, <1>5, <1>6, TurnsSize DEF Legs
<1>. QED
  BY <1>3, <1>7, <1>8

\* A thick tile splits into two thick ones and a thin one.
LEMMA ThickHalves ==
  ASSUME NEW a \in Point, NEW b \in Point, NEW c \in Point, NEW m, NEW n, Legs(1, a, b, c, m, n)
  PROVE  LET q == Toward(b, a)  r == Toward(b, c)
         IN  /\ q \in Point /\ r \in Point
             /\ Legs(1, r, c, a, 2 * m - n, n - m) /\ Legs(1, q, r, b, 2 * m - n, n - m)
             /\ Legs(0, r, q, a, 2 * m - n, n - m)
<1> DEFINE e == Sub(b, a)  f == Sub(c, a)  g == Sub(f, e)
           k == Shrunk(Minus(e))  l == Shrunk(g)  q == Add(b, k)  r == Add(b, l)
<1>1. /\ e \in Point /\ f \in Point /\ g \in Point /\ k \in Point /\ l \in Point
      /\ q \in Point /\ r \in Point /\ Minus(e) \in Point
  BY Closed
<1>2. Sub(c, b) = g /\ Sub(a, b) = Minus(e)
  BY <1>1, Differences
<1>3. Toward(b, a) = q /\ Toward(b, c) = r
  BY <1>2 DEF Toward, Shrunk
<1>4. /\ Size(e, m, n) /\ Size(f, m, n) /\ (f = Turn3(e) \/ e = Turn3(f))
  BY DEF Legs
<1>5. /\ Sub(c, r) = Sub(g, l) /\ Sub(a, r) = Sub(Minus(e), l) /\ Sub(r, q) = Sub(l, k)
      /\ Sub(b, q) = Minus(k) /\ Sub(q, r) = Sub(k, l)
  BY <1>1, <1>2, Differences
<1>6. CASE f = Turn3(e)
  <2> DEFINE s == Shrunk(e)
  <2>1. Size(s, 2 * m - n, n - m) /\ s \in Point
    BY <1>1, <1>4, ShrunkSize, Closed
  <2>2. /\ Sub(g, l) = Turn4(s) /\ Sub(Minus(e), l) = Minus(Turn2(s)) /\ Sub(l, k) = Turn3(s)
        /\ Minus(k) = s /\ Sub(k, l) = Minus(Turn3(s))
    BY <1>1, <1>6, ThickRing
  <2> HIDE DEF s, e, f, g, k, l, q, r
  <2>3. Turn2(s) \in Point /\ Turn3(s) = Turn(Turn2(s))
    BY <2>1, Closed DEF Turn3
  <2>4. Turn3(Turn4(s)) = Minus(Turn2(s)) /\ Turn(Minus(Turn2(s))) = Minus(Turn3(s))
    BY <2>1, <2>3, Unit, Turns
  <2>5. Legs(1, r, c, a, 2 * m - n, n - m)
    BY <2>1, <2>2, <2>4, <1>5, TurnsSize DEF Legs
  <2>6. Legs(1, q, r, b, 2 * m - n, n - m)
    BY <2>1, <2>2, <1>5, TurnsSize DEF Legs
  <2>7. Legs(0, r, q, a, 2 * m - n, n - m)
    BY <2>1, <2>2, <2>4, <1>5, TurnsSize DEF Legs
  <2>. QED
    BY <2>5, <2>6, <2>7, <1>1, <1>3
<1>7. CASE e = Turn3(f)
  <2> DEFINE s == Shrunk(e)
  <2>1. Size(s, 2 * m - n, n - m) /\ s \in Point
    BY <1>1, <1>4, ShrunkSize, Closed
  <2>2. /\ Sub(g, l) = Minus(Turn(s)) /\ Sub(Minus(e), l) = Turn3(s)
        /\ Sub(l, k) = Minus(Turn2(s)) /\ Minus(k) = s /\ Sub(k, l) = Turn2(s)
    BY <1>1, <1>7, ThickMirroredRing
  <2> HIDE DEF s, e, f, g, k, l, q, r
  <2>3. /\ Turn3(Turn3(s)) = Minus(Turn(s)) /\ Turn3(Minus(Turn2(s))) = s
        /\ Turn3(s) = Turn(Turn2(s))
    BY <2>1, Turns DEF Turn3
  <2>4. Size(Minus(Turn(s)), 2 * m - n, n - m) /\ Size(Minus(Turn2(s)), 2 * m - n, n - m)
    BY <2>1, TurnsSize
  <2>5. Legs(1, r, c, a, 2 * m - n, n - m)
    BY <2>1, <2>2, <2>3, <2>4, <1>5, TurnsSize DEF Legs
  <2>6. Legs(1, q, r, b, 2 * m - n, n - m)
    BY <2>1, <2>2, <2>3, <2>4, <1>5, TurnsSize DEF Legs
  <2>7. Legs(0, r, q, a, 2 * m - n, n - m)
    BY <2>1, <2>2, <2>3, <1>5, TurnsSize DEF Legs
  <2>. QED
    BY <2>5, <2>6, <2>7, <1>1, <1>3
<1>. QED
  BY <1>4, <1>6, <1>7

Generation(tris, m, n) == \A t \in tris : HalfRhomb(t, m, n)

LEMMA SubdivideShape ==
  ASSUME NEW tris, NEW m, NEW n, Generation(tris, m, n)
  PROVE  /\ Generation(Subdivide(tris), 2 * m - n, n - m)
         /\ Generation(Cull(Subdivide(tris)), 2 * m - n, n - m)
<1> SUFFICES ASSUME NEW t \in tris, NEW x \in Halves(t)
             PROVE  HalfRhomb(x, 2 * m - n, n - m)
  BY DEF Generation, Cull, Subdivide
<1>1. t \in Tile /\ Legs(t.kind, t.a, t.b, t.c, m, n)
  BY DEF Generation, HalfRhomb
<1>2. t.a \in Point /\ t.b \in Point /\ t.c \in Point /\ t.kind \in {0, 1}
  BY <1>1 DEF Tile
<1>3. ASSUME NEW kind \in {0, 1}, NEW a \in Point, NEW b \in Point, NEW c \in Point,
             Legs(kind, a, b, c, 2 * m - n, n - m)
      PROVE  HalfRhomb(Tri(kind, a, b, c), 2 * m - n, n - m)
  BY <1>3 DEF HalfRhomb, Tile, Tri
<1>4. CASE t.kind = 0
  <2> DEFINE p == Toward(t.a, t.b)
  <2>1. x \in {Tri(0, t.c, p, t.b), Tri(1, p, t.c, t.a)}
    BY <1>4 DEF Halves
  <2>2. /\ p \in Point /\ Legs(0, t.c, p, t.b, 2 * m - n, n - m)
        /\ Legs(1, p, t.c, t.a, 2 * m - n, n - m)
    BY <1>1, <1>2, <1>4, ThinHalves
  <2> HIDE DEF p
  <2>. QED
    BY <2>1, <2>2, <1>2, <1>3
<1>5. CASE t.kind = 1
  <2> DEFINE q == Toward(t.b, t.a)  r == Toward(t.b, t.c)
  <2>1. x \in {Tri(1, r, t.c, t.a), Tri(1, q, r, t.b), Tri(0, r, q, t.a)}
    BY <1>5 DEF Halves
  <2>2. /\ q \in Point /\ r \in Point /\ Legs(1, r, t.c, t.a, 2 * m - n, n - m)
        /\ Legs(1, q, r, t.b, 2 * m - n, n - m) /\ Legs(0, r, q, t.a, 2 * m - n, n - m)
    BY <1>1, <1>2, <1>5, ThickHalves
  <2> HIDE DEF q, r
  <2>. QED
    BY <2>1, <2>2, <1>2, <1>3
<1>. QED
  BY <1>2, <1>4, <1>5

LEMMA ScaleShape ==
  ASSUME NEW tris, NEW m, NEW n, Generation(tris, m, n)
  PROVE  /\ Generation(ScaleTiles(tris), m + n, m + 2 * n)
         /\ Generation(Cull(ScaleTiles(tris)), m + n, m + 2 * n)
<1> SUFFICES ASSUME NEW t \in tris
             PROVE  HalfRhomb(Tri(t.kind, TimesPhi(t.a), TimesPhi(t.b), TimesPhi(t.c)),
                              m + n, m + 2 * n)
  BY DEF Generation, Cull, ScaleTiles
<1> DEFINE a == t.a  b == t.b  c == t.c  e == Sub(b, a)  f == Sub(c, a)
<1>1. t \in Tile /\ Legs(t.kind, a, b, c, m, n)
  BY DEF Generation, HalfRhomb
<1>2. a \in Point /\ b \in Point /\ c \in Point /\ t.kind \in {0, 1}
  BY <1>1 DEF Tile
<1>3. /\ Sub(TimesPhi(b), TimesPhi(a)) = TimesPhi(e) /\ Sub(TimesPhi(c), TimesPhi(a)) = TimesPhi(f)
      /\ TimesPhi(a) \in Point /\ TimesPhi(b) \in Point /\ TimesPhi(c) \in Point
  <2>1. ASSUME NEW u \in Point, NEW v \in Point
        PROVE  Sub(TimesPhi(u), TimesPhi(v)) = TimesPhi(Sub(u, v))
    BY DEF Sub, TimesPhi, Point
  <2>. QED
    BY <2>1, <1>2, Closed
<1>4. e \in Point /\ f \in Point
  BY <1>2, Closed
<1>5. /\ Size(e, m, n) /\ Size(f, m, n)
      /\ t.kind = 0 => f = Turn(e) \/ e = Turn(f)
      /\ t.kind = 1 => f = Turn3(e) \/ e = Turn3(f)
  BY <1>1 DEF Legs
<1> HIDE DEF a, b, c, e, f
<1>6. Legs(t.kind, TimesPhi(a), TimesPhi(b), TimesPhi(c), m + n, m + 2 * n)
  BY <1>3, <1>4, <1>5, PhiSize, Unit, Turns DEF Legs
<1>. QED
  BY <1>2, <1>3, <1>6 DEF HalfRhomb, Tile, Tri, a, b, c

LEMMA SeedShape == Generation(Seed, 1, 0)
<1> DEFINE W(p, q, r, x) == <<p, q, r, x>>
<1>1. /\ Wheel(0) = W(1, 0, 0, 0) /\ Wheel(1) = W(0, 1, 0, 0) /\ Wheel(2) = W(0, 0, 1, 0)
      /\ Wheel(3) = W(0, 0, 0, 1) /\ Wheel(4) = W(-1, 1, -1, 1)
  BY DEF Wheel
<1>2. /\ Wheel(5) = W(-1, 0, 0, 0) /\ Wheel(6) = W(0, -1, 0, 0) /\ Wheel(7) = W(0, 0, -1, 0)
      /\ Wheel(8) = W(0, 0, 0, -1) /\ Wheel(9) = W(1, -1, 1, -1) /\ Wheel(10) = W(1, 0, 0, 0)
  BY DEF Wheel, Sub, Origin
<1>3. \A i \in 0..10 : Wheel(i) \in Point
  BY <1>1, <1>2 DEF Point
<1>4. \A i \in 0..10 : Size(Sub(Wheel(i), Origin), 1, 0)
  BY <1>1, <1>2, <1>3, Closed DEF Size, Sub, Origin, A, B, Mixed
<1>5. \A i \in 0..9 : Sub(Wheel(i + 1), Origin) = Turn(Sub(Wheel(i), Origin))
  BY <1>1, <1>2 DEF Sub, Origin, Turn
<1>6. \A i \in 0..9 : /\ HalfRhomb(Tri(0, Origin, Wheel(i + 1), Wheel(i)), 1, 0)
                      /\ HalfRhomb(Tri(0, Origin, Wheel(i), Wheel(i + 1)), 1, 0)
  BY <1>3, <1>4, <1>5, Closed DEF HalfRhomb, Tile, Legs, Tri
<1>. QED
  BY <1>6 DEF Generation, Seed

-----------------------------------------------------------------------------
(* The radius of the screen's circle.                                      *)

Smaller(k, i) == (k[i - 1] * 9762) \div 10000

LEMMA ShrinkSolves ==
  Shrink[0] = 10000 /\ \A i \in 1..40 : Shrink[i] = Smaller(Shrink, i)
<1> DEFINE table == <<9762, 9529, 9302, 9080, 8863, 8652, 8446, 8244, 8047, 7855,
                7668, 7485, 7306, 7132, 6962, 6796, 6634, 6476, 6321, 6170,
                6023, 5879, 5739, 5602, 5468, 5337, 5209, 5085, 4963, 4844,
                4728, 4615, 4505, 4397, 4292, 4189, 4089, 3991, 3896, 3803>>
           k == [i \in 0..40 |-> IF i = 0 THEN 10000 ELSE table[i]]
           shrink == CHOOSE f : f = [i \in 0..40 |-> IF i = 0 THEN 10000 ELSE Smaller(f, i)]
<1>1. /\ k[0] = 10000
      /\ k[1] = 9762
      /\ k[2] = 9529
      /\ k[3] = 9302
      /\ k[4] = 9080
      /\ k[5] = 8863
  OBVIOUS
<1>2. /\ k[5] = 8863
      /\ k[6] = 8652
      /\ k[7] = 8446
      /\ k[8] = 8244
      /\ k[9] = 8047
      /\ k[10] = 7855
  OBVIOUS
<1>3. /\ k[10] = 7855
      /\ k[11] = 7668
      /\ k[12] = 7485
      /\ k[13] = 7306
      /\ k[14] = 7132
      /\ k[15] = 6962
  OBVIOUS
<1>4. /\ k[15] = 6962
      /\ k[16] = 6796
      /\ k[17] = 6634
      /\ k[18] = 6476
      /\ k[19] = 6321
      /\ k[20] = 6170
  OBVIOUS
<1>5. /\ k[20] = 6170
      /\ k[21] = 6023
      /\ k[22] = 5879
      /\ k[23] = 5739
      /\ k[24] = 5602
      /\ k[25] = 5468
  OBVIOUS
<1>6. /\ k[25] = 5468
      /\ k[26] = 5337
      /\ k[27] = 5209
      /\ k[28] = 5085
      /\ k[29] = 4963
      /\ k[30] = 4844
  OBVIOUS
<1>7. /\ k[30] = 4844
      /\ k[31] = 4728
      /\ k[32] = 4615
      /\ k[33] = 4505
      /\ k[34] = 4397
      /\ k[35] = 4292
  OBVIOUS
<1>8. /\ k[35] = 4292
      /\ k[36] = 4189
      /\ k[37] = 4089
      /\ k[38] = 3991
      /\ k[39] = 3896
      /\ k[40] = 3803
  OBVIOUS
<1> HIDE DEF k
<1>9. \A i \in 1..5 : k[i] = Smaller(k, i)
  BY <1>1 DEF Smaller
<1>10. \A i \in 6..10 : k[i] = Smaller(k, i)
  BY <1>2 DEF Smaller
<1>11. \A i \in 11..15 : k[i] = Smaller(k, i)
  BY <1>3 DEF Smaller
<1>12. \A i \in 16..20 : k[i] = Smaller(k, i)
  BY <1>4 DEF Smaller
<1>13. \A i \in 21..25 : k[i] = Smaller(k, i)
  BY <1>5 DEF Smaller
<1>14. \A i \in 26..30 : k[i] = Smaller(k, i)
  BY <1>6 DEF Smaller
<1>15. \A i \in 31..35 : k[i] = Smaller(k, i)
  BY <1>7 DEF Smaller
<1>16. \A i \in 36..40 : k[i] = Smaller(k, i)
  BY <1>8 DEF Smaller
<1>17. \A i \in 1..40 : k[i] = Smaller(k, i)
  BY <1>9, <1>10, <1>11, <1>12, <1>13, <1>14, <1>15, <1>16
<1>18. k = [i \in 0..40 |-> IF i = 0 THEN 10000 ELSE Smaller(k, i)]
  BY <1>1, <1>17 DEF k
<1>19. shrink = [i \in 0..40 |-> IF i = 0 THEN 10000 ELSE Smaller(shrink, i)]
  BY <1>18
<1>20. Shrink = shrink
  BY DEF Shrink, Steps, Smaller
<1> HIDE DEF shrink
<1>21. PICK g : g = shrink /\ shrink = [i \in 0..40 |-> IF i = 0 THEN 10000 ELSE Smaller(g, i)]
  BY <1>19
<1>. QED
  BY <1>20, <1>21

LEMMA ShrinkBounds == \A i \in 0..39 : Shrink[i] \in Nat /\ Shrink[i] >= 3890 /\ Shrink[i] <= 10000
<1>0. Shrink[0] = 10000 /\ \A i \in 1..40 : Shrink[i] = (Shrink[i - 1] * 9762) \div 10000
  BY ShrinkSolves DEF Smaller
<1>1. /\ Shrink[1] = 9762
      /\ Shrink[2] = 9529
      /\ Shrink[3] = 9302
      /\ Shrink[4] = 9080
      /\ Shrink[5] = 8863
  BY <1>0
<1>2. /\ Shrink[6] = 8652
      /\ Shrink[7] = 8446
      /\ Shrink[8] = 8244
      /\ Shrink[9] = 8047
      /\ Shrink[10] = 7855
  BY <1>0, <1>1
<1>3. /\ Shrink[11] = 7668
      /\ Shrink[12] = 7485
      /\ Shrink[13] = 7306
      /\ Shrink[14] = 7132
      /\ Shrink[15] = 6962
  BY <1>0, <1>2
<1>4. /\ Shrink[16] = 6796
      /\ Shrink[17] = 6634
      /\ Shrink[18] = 6476
      /\ Shrink[19] = 6321
      /\ Shrink[20] = 6170
  BY <1>0, <1>3
<1>5. /\ Shrink[21] = 6023
      /\ Shrink[22] = 5879
      /\ Shrink[23] = 5739
      /\ Shrink[24] = 5602
      /\ Shrink[25] = 5468
  BY <1>0, <1>4
<1>6. /\ Shrink[26] = 5337
      /\ Shrink[27] = 5209
      /\ Shrink[28] = 5085
      /\ Shrink[29] = 4963
      /\ Shrink[30] = 4844
  BY <1>0, <1>5
<1>7. /\ Shrink[31] = 4728
      /\ Shrink[32] = 4615
      /\ Shrink[33] = 4505
      /\ Shrink[34] = 4397
      /\ Shrink[35] = 4292
  BY <1>0, <1>6
<1>8. /\ Shrink[36] = 4189
      /\ Shrink[37] = 4089
      /\ Shrink[38] = 3991
      /\ Shrink[39] = 3896
      /\ Shrink[40] = 3803
  BY <1>0, <1>7
<1>. QED
  BY <1>0, <1>1, <1>2, <1>3, <1>4, <1>5, <1>6, <1>7, <1>8

-----------------------------------------------------------------------------
(* What the margin of the visibility test covers.                          *)

\* Two corners at squared radii p and q with a leg of squared length d between them:
\* when the foot of the perpendicular is inside the leg, the corners are nearly as far
\* out as each other, and the height is at least the lower one less a quarter of d.
LEMMA Height ==
  ASSUME NEW p \in Int, NEW q \in Int, NEW d \in Nat, NEW s \in Int, NEW P \in Nat,
         p >= P, q >= P, s = (p + q - d) \div 2, s < p, s < q, 2 * P >= d
  PROVE  4 * (p * q - s * s) >= 4 * (P * d) - d * d
<1>1. /\ p - q < d /\ q - p < d /\ 2 * s <= p + q - d /\ s >= 0
  OBVIOUS
<1>2. ASSUME NEW x \in Int, NEW y \in Int, P <= x, x <= y, y - x < d,
             s = (x + y - d) \div 2
      PROVE  4 * (x * y - s * s) >= 4 * (P * d) - d * d
  <2> DEFINE w == x + y - d  z == y - x
  <2>1. w \in Nat /\ 2 * s <= w /\ z \in Nat /\ z < d
    BY <1>1, <1>2
  <2>2. (2 * s) * (2 * s) <= w * w
    <3>1. \A i, j \in Nat : i <= j => i * i <= j * j
      OBVIOUS
    <3> HIDE DEF w
    <3>. QED
      BY <3>1, <2>1, <1>1
  <2>3. 4 * (x * y) - w * w = 4 * (x * d) + (2 * (z * d) - z * z) - d * d
    BY <1>2
  <2>4. x * d >= P * d
    BY <1>2
  <2>5. z * d >= z * z /\ z * d >= 0
    <3> HIDE DEF z
    <3>. QED
      BY <2>1
  <2>6. /\ s * s \in Int /\ x * y \in Int /\ w * w \in Int /\ x * d \in Int /\ P * d \in Int
        /\ z * d \in Int /\ z * z \in Int /\ d * d \in Int
    BY <1>2, <2>1
  <2>7. (2 * s) * (2 * s) = 4 * (s * s)
    OBVIOUS
  <2> HIDE DEF w, z
  <2>. QED
    BY <2>2, <2>3, <2>4, <2>5, <2>6, <2>7
<1>3. CASE p <= q
  BY <1>1, <1>2, <1>3
<1>4. CASE q <= p
  BY <1>1, <1>2, <1>4
<1>. QED
  BY <1>3, <1>4

LEMMA LegMisses ==
  ASSUME NEW t \in 0..39, NEW u \in Point, NEW v \in Point,
         Norm2(u) > VisR2(t), Norm2(v) > VisR2(t), Norm2(Sub(v, u)) \div 1000 \in {145, 55, 21}
  PROVE  ~Crosses(u, v, t)
<1> DEFINE p == Norm2(u) \div 1000  q == Norm2(v) \div 1000
           d == Norm2(Sub(v, u)) \div 1000  s == (p + q - d) \div 2
           P == VisR2(t) \div 1000  R == Shrink[t] \div 10
<1>1. Shrink[t] \in Nat /\ Shrink[t] >= 3890
  BY ShrinkBounds
<1>2. VisR2(t) \in Nat /\ VisR2(t) = (441 * Shrink[t]) \div 4
  BY <1>1 DEF VisR2
<1>3. /\ p \in Int /\ q \in Int /\ d \in Nat /\ s \in Int /\ P \in Nat /\ R \in Nat
      /\ p >= P /\ q >= P
  <2>1. Norm2(u) \in Int /\ Norm2(v) \in Int
    BY NormInt
  <2>2. p \in Int /\ q \in Int /\ p >= P /\ q >= P /\ P \in Nat /\ R \in Nat
    BY <1>1, <1>2, <2>1
  <2>3. d \in Nat
    OBVIOUS
  <2> HIDE DEF p, q, d, P, R
  <2>. QED
    BY <2>2, <2>3
<1>4. d \in {145, 55, 21}
  OBVIOUS
<1>5. P - R >= 37
  BY <1>1, <1>2
<1>6. R >= 389
  BY <1>1
<1>7. Crosses(u, v, t) <=> s < p /\ s < q /\ p * q - s * s < R * d
  BY DEF Crosses
<1>8. s = (p + q - d) \div 2
  OBVIOUS
<1> HIDE DEF p, q, d, s, P, R
<1>9. SUFFICES ASSUME s < p, s < q PROVE p * q - s * s >= R * d
  <2>1. p * q \in Int /\ s * s \in Int /\ R * d \in Int
    BY <1>3
  <2>. QED
    BY <1>7, <2>1
<1>10. 4 * (p * q - s * s) >= 4 * (P * d) - d * d
  BY <1>3, <1>4, <1>5, <1>6, <1>8, <1>9, Height
<1>11. 4 * (P * d) - d * d >= 4 * (R * d)
  BY <1>3, <1>4, <1>5
<1>12. p * q - s * s \in Int /\ R * d \in Int /\ P * d \in Int /\ d * d \in Int
  BY <1>3
<1>. QED
  BY <1>10, <1>11, <1>12

-----------------------------------------------------------------------------
(* The inductive invariant.                                                *)

\* Every generation consists of half-rhombs, one power of the golden ratio smaller from
\* each to the next.
Shape ==
  /\ tau \in 0..Steps - 1
  /\ Generation(coarse, 5, -3) /\ Generation(fine, 13, -8) /\ Generation(nextFine, 34, -21)

\* The invariant holds initially and is kept by every frame, whatever is culled.
THEOREM ShapeInductive == Spec => []Shape
<1>1. ASSUME NEW tris, Generation(tris, 5, -3)
      PROVE  /\ Generation(Cull(Subdivide(tris)), 13, -8)
             /\ Generation(Cull(Subdivide(Cull(Subdivide(tris)))), 34, -21)
  <2>1. Generation(Cull(Subdivide(tris)), 13, -8)
    BY <1>1, SubdivideShape
  <2>. QED
    BY <2>1, SubdivideShape
<1>2. Init => Shape
  <2> SUFFICES ASSUME Init PROVE Shape
    OBVIOUS
  <2>1. Generation(Subdivide(Seed), 2, -1)
    BY SeedShape, SubdivideShape
  <2>2. Generation(coarse, 5, -3)
    BY <2>1, SubdivideShape DEF Init
  <2>. QED
    BY <1>1, <2>2 DEF Init, Shape, Steps
<1>3. Shape /\ [Next]_vars => Shape'
  <2> SUFFICES ASSUME Shape, [Next]_vars PROVE Shape'
    OBVIOUS
  <2>1. CASE UNCHANGED vars
    BY <2>1 DEF Shape, vars
  <2>2. ASSUME NEW pace \in Paces, Advance(pace) PROVE Shape'
    <3> DEFINE t == tau + (IF pace > 20 THEN 20 ELSE pace)
    <3>1. t \in 0..59
      BY PenroseAssumption DEF Shape, Steps
    <3>2. CASE t >= 40
      <4>1. tau' = t - 40 /\ Refine(Promoted)
        BY <2>2, <3>2 DEF Advance, Steps
      <4>2. Generation(Promoted, 5, -3)
        <5>1. Generation(Cull(ScaleTiles(fine)), 13 + (-8), 13 + 2 * (-8))
          BY ScaleShape DEF Shape
        <5>. QED
          BY <5>1 DEF Promoted
      <4>. QED
        BY <1>1, <3>1, <3>2, <4>1, <4>2 DEF Refine, Shape, Steps
    <3>3. CASE t < 40
      <4>1. tau' = t /\ UNCHANGED <<coarse, fine, nextFine>>
        BY <2>2, <3>1, <3>3 DEF Advance, Steps
      <4>. QED
        BY <3>1, <3>3, <4>1 DEF Shape, Steps
    <3>. QED
      BY <3>1, <3>2, <3>3
  <2>. QED
    BY <2>1, <2>2 DEF Next
<1>. QED
  BY <1>2, <1>3, PTL DEF Spec

\* The phase stays within the cycle, and the corners in the ring.
THEOREM TilesAreTyped == Spec => []TypeOK
<1>1. Shape => TypeOK
  <2> SUFFICES ASSUME Shape PROVE TypeOK
    OBVIOUS
  <2>1. coarse \subseteq Tile /\ fine \subseteq Tile /\ nextFine \subseteq Tile
    BY DEF Shape, Generation, HalfRhomb
  <2>. QED
    BY <2>1 DEF TypeOK, Shape, Tile
<1>. QED
  BY <1>1, ShapeInductive, PTL

LEMMA ShapeGivesNoneMissing == Shape => NoneMissing
<1> SUFFICES ASSUME Shape PROVE NoneMissing
  OBVIOUS
<1> SUFFICES ASSUME NEW m, NEW n, <<m, n>> \in {<<5, -3>>, <<13, -8>>, <<34, -21>>},
                    NEW t, HalfRhomb(t, m, n), R2(t) > VisR2(tau)
             PROVE  ~Crosses(t.c, t.a, tau) /\ ~Crosses(t.a, t.b, tau)
  <2>1. /\ \A x \in coarse : HalfRhomb(x, 5, -3)
        /\ \A x \in fine : HalfRhomb(x, 13, -8)
        /\ \A x \in nextFine : HalfRhomb(x, 34, -21)
    BY DEF Shape, Generation
  <2>. QED
    BY <2>1 DEF NoneMissing
<1>1. t.a \in Point /\ t.b \in Point /\ t.c \in Point
  BY DEF HalfRhomb, Tile
<1>2. Size(Sub(t.b, t.a), m, n) /\ Size(Sub(t.c, t.a), m, n)
  BY DEF HalfRhomb, Legs
<1>3. Size(Sub(t.a, t.c), m, n)
  BY <1>1, <1>2, Differences, TurnSize
<1>4. \A v : Size(v, m, n) => Norm2(v) \div 1000 \in {145, 55, 21}
  <2>1. \A v : Size(v, m, n) => Norm2(v) = 1000000 * m + 1618033 * n
    BY NormInt DEF Size
  <2>2. (1000000 * m + 1618033 * n) \div 1000 \in {145, 55, 21}
    OBVIOUS
  <2>. QED
    BY <2>1, <2>2
<1>5. Norm2(t.a) > VisR2(tau) /\ Norm2(t.b) > VisR2(tau) /\ Norm2(t.c) > VisR2(tau)
  <2>1. Norm2(t.a) \in Int /\ Norm2(t.b) \in Int /\ Norm2(t.c) \in Int
    BY <1>1, NormInt
  <2>2. VisR2(tau) \in Int
    BY ShrinkBounds DEF VisR2, Shape, Steps
  <2>. QED
    BY <2>1, <2>2 DEF R2
<1>6. tau \in 0..39
  BY DEF Shape, Steps
<1>. QED
  BY <1>1, <1>2, <1>3, <1>4, <1>5, <1>6, LegMisses

\* No line that crosses the screen is left out because the corners of its tile are off
\* it: for every culling radius and every sequence of frames.
THEOREM NoLineIsMissing == Spec => []NoneMissing
BY ShapeInductive, ShapeGivesNoneMissing, PTL

-----------------------------------------------------------------------------
(* Promotions.                                                             *)

\* What CULL_R has to be at least, a radius of 1.82, for nothing that comes into view
\* to have been culled.
WideEnough == CullR2 >= 3307500

Scaled(t) == Tri(t.kind, TimesPhi(t.a), TimesPhi(t.b), TimesPhi(t.c))

LEMMA R2Facts ==
  ASSUME NEW t \in Tile
  PROVE  /\ R2(t) \in Int
         /\ \E v \in Corners(t) : R2(t) = Norm2(v)
         /\ \A v \in Corners(t) : R2(t) <= Norm2(v) /\ v \in Point
<1>1. t.a \in Point /\ t.b \in Point /\ t.c \in Point
  BY DEF Tile
<1>2. Norm2(t.a) \in Int /\ Norm2(t.b) \in Int /\ Norm2(t.c) \in Int
  BY <1>1, NormInt
<1>. QED
  BY <1>1, <1>2 DEF R2, Corners

\* Scaling commutes with splitting.
LEMMA HalvesScale ==
  ASSUME NEW t \in Tile
  PROVE  /\ \A y \in Halves(t) : Scaled(y) \in Halves(Scaled(t))
         /\ \A x \in Halves(Scaled(t)) : \E y \in Halves(t) : x = Scaled(y)
<1> DEFINE a == t.a  b == t.b  c == t.c
           p == Toward(a, b)  q == Toward(b, a)  r == Toward(b, c)
<1>1. a \in Point /\ b \in Point /\ c \in Point /\ t.kind \in {0, 1}
  BY DEF Tile
<1>2. ASSUME NEW u \in Point, NEW v \in Point
      PROVE  Toward(TimesPhi(u), TimesPhi(v)) = TimesPhi(Toward(u, v))
  <2>1. \A x, y \in Point : /\ Sub(TimesPhi(x), TimesPhi(y)) = TimesPhi(Sub(x, y))
                            /\ Add(TimesPhi(x), TimesPhi(y)) = TimesPhi(Add(x, y))
    BY DEF Sub, Add, TimesPhi, Point
  <2> DEFINE d == Sub(v, u)
  <2>2. /\ d \in Point /\ TimesPhi(d) \in Point /\ Sub(TimesPhi(d), d) \in Point
        /\ TimesPhi(u) \in Point /\ TimesPhi(v) \in Point
    BY Closed
  <2>3. Sub(TimesPhi(v), TimesPhi(u)) = TimesPhi(d)
    BY <2>1
  <2>4. Toward(TimesPhi(u), TimesPhi(v))
          = Add(TimesPhi(u), Sub(TimesPhi(TimesPhi(d)), TimesPhi(d)))
    BY <2>3 DEF Toward
  <2> HIDE DEF d
  <2>5. Sub(TimesPhi(TimesPhi(d)), TimesPhi(d)) = TimesPhi(Sub(TimesPhi(d), d))
    BY <2>1, <2>2
  <2>6. Toward(u, v) = Add(u, Sub(TimesPhi(d), d))
    BY DEF Toward, d
  <2>. QED
    BY <2>1, <2>2, <2>4, <2>5, <2>6
<1>3. /\ Toward(TimesPhi(a), TimesPhi(b)) = TimesPhi(p)
      /\ Toward(TimesPhi(b), TimesPhi(a)) = TimesPhi(q)
      /\ Toward(TimesPhi(b), TimesPhi(c)) = TimesPhi(r)
  BY <1>1, <1>2
<1>4. /\ Scaled(t).kind = t.kind /\ Scaled(t).a = TimesPhi(a) /\ Scaled(t).b = TimesPhi(b)
      /\ Scaled(t).c = TimesPhi(c)
  BY DEF Scaled, Tri
<1>5. \A k, u, v, w : Scaled(Tri(k, u, v, w)) = Tri(k, TimesPhi(u), TimesPhi(v), TimesPhi(w))
  BY DEF Scaled, Tri
<1>6. CASE t.kind = 0
  <2>1. Halves(t) = {Tri(0, c, p, b), Tri(1, p, c, a)}
    BY <1>6 DEF Halves
  <2>2. Halves(Scaled(t)) = {Tri(0, TimesPhi(c), TimesPhi(p), TimesPhi(b)),
                             Tri(1, TimesPhi(p), TimesPhi(c), TimesPhi(a))}
    BY <1>3, <1>4, <1>6 DEF Halves
  <2> HIDE DEF a, b, c, p
  <2>. QED
    BY <2>1, <2>2, <1>5
<1>7. CASE t.kind = 1
  <2>1. Halves(t) = {Tri(1, r, c, a), Tri(1, q, r, b), Tri(0, r, q, a)}
    BY <1>7 DEF Halves
  <2>2. Halves(Scaled(t)) = {Tri(1, TimesPhi(r), TimesPhi(c), TimesPhi(a)),
                             Tri(1, TimesPhi(q), TimesPhi(r), TimesPhi(b)),
                             Tri(0, TimesPhi(r), TimesPhi(q), TimesPhi(a))}
    BY <1>3, <1>4, <1>7 DEF Halves
  <2> HIDE DEF a, b, c, q, r
  <2>. QED
    BY <2>1, <2>2, <1>5
<1>. QED
  BY <1>1, <1>6, <1>7

\* A corner of a half is at most a leg of the half away from a corner of the whole.
LEMMA HalvesNear ==
  ASSUME NEW m, NEW n, NEW t, HalfRhomb(t, m, n), NEW x \in Halves(t), NEW v \in Corners(x)
  PROVE  \E w \in Corners(t) : w = v \/ Size(Sub(w, v), 2 * m - n, n - m)
<1> DEFINE a == t.a  b == t.b  c == t.c
           p == Toward(a, b)  q == Toward(b, a)  r == Toward(b, c)
<1>1. /\ t \in Tile /\ Legs(t.kind, a, b, c, m, n)
      /\ a \in Point /\ b \in Point /\ c \in Point /\ t.kind \in {0, 1}
  BY DEF HalfRhomb, Tile
<1>2. Corners(t) = {a, b, c}
  BY DEF Corners
<1>3. \A k, u, w, y : Corners(Tri(k, u, w, y)) = {u, w, y}
  BY DEF Corners, Tri
<1>4. CASE t.kind = 0
  <2>1. x \in {Tri(0, c, p, b), Tri(1, p, c, a)}
    BY <1>4 DEF Halves
  <2>2. p \in Point /\ Legs(1, p, c, a, 2 * m - n, n - m)
    BY <1>1, <1>4, ThinHalves
  <2>3. Size(Sub(c, p), 2 * m - n, n - m)
    BY <2>2 DEF Legs
  <2> HIDE DEF a, b, c, p
  <2>. QED
    BY <2>1, <2>3, <1>2, <1>3
<1>5. CASE t.kind = 1
  <2>1. x \in {Tri(1, r, c, a), Tri(1, q, r, b), Tri(0, r, q, a)}
    BY <1>5 DEF Halves
  <2>2. Legs(1, r, c, a, 2 * m - n, n - m) /\ Legs(1, q, r, b, 2 * m - n, n - m)
    BY <1>1, <1>5, ThickHalves
  <2>3. Size(Sub(c, r), 2 * m - n, n - m) /\ Size(Sub(b, q), 2 * m - n, n - m)
    BY <2>2 DEF Legs
  <2> HIDE DEF a, b, c, q, r
  <2>. QED
    BY <2>1, <2>3, <1>2, <1>3
<1>. QED
  BY <1>1, <1>4, <1>5

\* What comes into view after a promotion has not been culled, nor has what it is split
\* from.
LEMMA NothingCulled ==
  ASSUME WideEnough, NEW t, HalfRhomb(t, 13, -8), NEW y \in Halves(t),
         R2(Scaled(y)) <= 1102500
  PROVE  R2(y) <= CullR2 /\ R2(Scaled(t)) <= CullR2
<1>1. HalfRhomb(Scaled(t), 5, -3) /\ HalfRhomb(y, 34, -21) /\ HalfRhomb(Scaled(y), 13, -8)
  <2>1. Generation({t}, 13, -8)
    BY DEF Generation
  <2>2. HalfRhomb(Scaled(t), 5, -3)
    <3>1. Generation(ScaleTiles({t}), 13 + (-8), 13 + 2 * (-8))
      BY <2>1, ScaleShape
    <3>. QED
      BY <3>1 DEF Generation, ScaleTiles, Scaled
  <2>3. HalfRhomb(y, 34, -21)
    <3>1. Generation(Subdivide({t}), 2 * 13 - (-8), -8 - 13)
      BY <2>1, SubdivideShape
    <3>. QED
      BY <3>1 DEF Generation, Subdivide
  <2>4. HalfRhomb(Scaled(y), 13, -8)
    <3>1. Generation({y}, 34, -21)
      BY <2>3 DEF Generation
    <3>2. Generation(ScaleTiles({y}), 34 + (-21), 34 + 2 * (-21))
      BY <3>1, ScaleShape
    <3>. QED
      BY <3>2 DEF Generation, ScaleTiles, Scaled
  <2>. QED
    BY <2>2, <2>3, <2>4
<1>2. y \in Tile /\ t \in Tile /\ Scaled(y) \in Tile /\ Scaled(t) \in Tile
  BY <1>1 DEF HalfRhomb
<1>3. CullR2 \in Int /\ CullR2 >= 3307500
  BY PenroseAssumption DEF WideEnough
<1>4. PICK v \in Corners(Scaled(y)) : Norm2(v) <= 1102500 /\ Norm2(v) \in Int /\ v \in Point
  BY <1>2, R2Facts, NormInt
<1>5. R2(y) <= CullR2
  <2>1. PICK u \in Corners(y) : v = TimesPhi(u)
    BY DEF Corners, Scaled, Tri
  <2>2. u \in Point /\ R2(y) <= Norm2(u) /\ R2(y) \in Int
    BY <1>2, R2Facts
  <2>3. Norm2(u) <= 3 * Norm2(v) /\ Norm2(u) \in Int
    BY <2>1, <2>2, NormOfPhi, NormInt
  <2>. QED
    BY <1>3, <1>4, <2>2, <2>3
<1>6. R2(Scaled(t)) <= CullR2
  <2>1. Scaled(y) \in Halves(Scaled(t))
    BY <1>2, HalvesScale
  <2>2. PICK w \in Corners(Scaled(t)) : w = v \/ Size(Sub(w, v), 13, -8)
    <3>1. \E w \in Corners(Scaled(t)) : w = v \/ Size(Sub(w, v), 2 * 5 - (-3), -3 - 5)
      BY <1>1, <1>4, <2>1, HalvesNear
    <3>. QED
      BY <3>1
  <2>3. w \in Point /\ R2(Scaled(t)) <= Norm2(w) /\ R2(Scaled(t)) \in Int
    BY <1>2, R2Facts
  <2>4. Norm2(w) <= 2400000 /\ Norm2(w) \in Int
    <3>1. CASE w = v
      BY <1>4, <3>1
    <3>2. CASE Size(Sub(w, v), 13, -8)
      <4>1. Norm2(Sub(w, v)) = 55736
        BY <3>2, NormInt DEF Size
      <4>2. Norm2(w) <= 2 * Norm2(v) + 2 * Norm2(Sub(w, v)) /\ Norm2(w) \in Int
        BY <1>4, <2>3, Triangle, NormInt
      <4>. QED
        BY <1>4, <4>1, <4>2
    <3>. QED
      BY <2>2, <3>1, <3>2
  <2>. QED
    BY <1>3, <2>3, <2>4
<1>. QED
  BY <1>5, <1>6

\* Each finer generation is made of the one before.
Derived == fine = Cull(Subdivide(coarse)) /\ nextFine = Cull(Subdivide(fine))

LEMMA DerivedInductive == Spec => []Derived
<1>1. Init => Derived
  BY DEF Init, Derived
<1>2. Derived /\ [Next]_vars => Derived'
  BY DEF Derived, Next, Advance, Refine, vars
<1>. QED
  BY <1>1, <1>2, PTL DEF Spec

\* Squared radius of the screen's circle.
LEMMA VisBound == \A t \in 0..39 : VisR2(t) \in Nat /\ VisR2(t) <= 1102500
<1>1. \A t \in 0..39 : Shrink[t] \in Nat /\ Shrink[t] <= 10000
  BY ShrinkBounds
<1>. QED
  BY <1>1 DEF VisR2

LEMMA SameTiles ==
  ASSUME WideEnough, Shape, Derived, Refine(Promoted), NEW k \in 0..39
  PROVE  /\ Visible(coarse', k) = Visible(ScaleTiles(fine), k)
         /\ Visible(fine', k) = Visible(ScaleTiles(nextFine), k)
<1>1. coarse' = Cull(ScaleTiles(fine)) /\ fine' = Cull(Subdivide(Cull(ScaleTiles(fine))))
  BY DEF Refine, Promoted
<1>2. VisR2(k) \in Nat /\ VisR2(k) <= 1102500 /\ CullR2 \in Int /\ VisR2(k) <= CullR2
  BY VisBound, PenroseAssumption DEF WideEnough
<1>3. Generation(fine, 13, -8) /\ Generation(ScaleTiles(fine), 5, -3)
  <2>1. Generation(fine, 13, -8)
    BY DEF Shape
  <2>2. Generation(ScaleTiles(fine), 13 + (-8), 13 + 2 * (-8))
    BY <2>1, ScaleShape
  <2>. QED
    BY <2>1, <2>2
<1>4. \A tris : ScaleTiles(tris) = {Scaled(t) : t \in tris}
  BY DEF ScaleTiles, Scaled
<1>5. \A t \in Tile : R2(t) \in Int
  BY R2Facts
<1>6. Visible(coarse', k) = Visible(ScaleTiles(fine), k)
  <2>1. \A t \in ScaleTiles(fine) : R2(t) \in Int
    BY <1>3, <1>5 DEF Generation, HalfRhomb
  <2>. QED
    BY <1>1, <1>2, <2>1 DEF Visible, Cull
<1>7. ASSUME NEW x \in Visible(fine', k)
      PROVE  x \in Visible(ScaleTiles(nextFine), k)
  <2>1. PICK s \in Cull(ScaleTiles(fine)) : x \in Halves(s)
    BY <1>1, <1>7 DEF Visible, Cull, Subdivide
  <2>2. PICK t \in fine : s = Scaled(t)
    BY <2>1, <1>4 DEF Cull
  <2>3. HalfRhomb(t, 13, -8) /\ t \in Tile
    BY <1>3 DEF Generation, HalfRhomb
  <2>4. PICK y \in Halves(t) : x = Scaled(y)
    BY <2>1, <2>2, <2>3, HalvesScale
  <2>5. R2(x) <= VisR2(k) /\ R2(x) \in Int
    <3>1. Generation(Subdivide({t}), 2 * 13 - (-8), -8 - 13)
      BY <2>3, SubdivideShape DEF Generation
    <3>2. y \in Tile
      BY <2>4, <3>1 DEF Generation, Subdivide, HalfRhomb
    <3>3. Scaled(y) \in Tile
      BY <3>2, Closed DEF Scaled, Tri, Tile
    <3>. QED
      BY <1>5, <1>7, <2>4, <3>3 DEF Visible
  <2>6. R2(Scaled(y)) <= 1102500
    BY <1>2, <2>4, <2>5
  <2>7. R2(y) <= CullR2
    BY <2>3, <2>6, NothingCulled
  <2>8. y \in nextFine
    BY <2>4, <2>7 DEF Derived, Cull, Subdivide
  <2>. QED
    BY <1>4, <2>4, <2>5, <2>8 DEF Visible
<1>8. ASSUME NEW x \in Visible(ScaleTiles(nextFine), k)
      PROVE  x \in Visible(fine', k)
  <2>1. PICK y \in nextFine : x = Scaled(y)
    BY <1>4, <1>8 DEF Visible
  <2>2. PICK t \in fine : y \in Halves(t)
    BY <2>1 DEF Derived, Cull, Subdivide
  <2>3. HalfRhomb(t, 13, -8) /\ t \in Tile
    BY <1>3 DEF Generation, HalfRhomb
  <2>4. R2(x) <= VisR2(k) /\ R2(x) \in Int
    <3>1. y \in Tile
      BY <2>1 DEF Shape, Generation, HalfRhomb
    <3>2. Scaled(y) \in Tile
      BY <3>1, Closed DEF Scaled, Tri, Tile
    <3>. QED
      BY <1>5, <1>8, <2>1, <3>2 DEF Visible
  <2>5. R2(Scaled(y)) <= 1102500
    BY <1>2, <2>1, <2>4
  <2>6. R2(Scaled(t)) <= CullR2
    BY <2>2, <2>3, <2>5, NothingCulled
  <2>7. Scaled(t) \in Cull(ScaleTiles(fine))
    BY <1>4, <2>2, <2>6 DEF Cull
  <2>8. x \in Halves(Scaled(t))
    BY <2>1, <2>2, <2>3, HalvesScale
  <2>9. x \in fine'
    BY <1>1, <1>2, <2>4, <2>7, <2>8 DEF Cull, Subdivide
  <2>. QED
    BY <2>4, <2>9 DEF Visible
<1>. QED
  BY <1>6, <1>7, <1>8 DEF Visible

\* The fades at the last and the first moment of a cycle.
LEMMA LightAtTheSeam ==
  /\ CoarseFadeOut(39) <= 15 /\ CoarseFadeOut(0) = 1000
  /\ FadingAlpha(RevealW(39)) = 1000 /\ EndpointTrim(RevealW(39)) = 0
  /\ ~Revealed(0)
<1>1. RevealW(39) = 1000 /\ RevealW(0) = 0
  BY DEF RevealW, Ease, Clamp, RevealDone, Steps
<1>2. CoarseFadeOut(39) <= 15 /\ CoarseFadeOut(0) = 1000
  BY DEF CoarseFadeOut, CoarseFadeStart, Ease, Steps
<1>3. FadingAlpha(1000) = 1000 /\ EndpointTrim(1000) = 0
  BY DEF FadingAlpha, Clamp, EndpointTrim
<1>. QED
  BY <1>1, <1>2, <1>3 DEF Revealed

\* A promotion does not show: the tiles on the screen are the same before and after it,
\* and in the same light, if the culling radius is at least 1.82.
THEOREM PromotionsDoNotShow == ASSUME WideEnough PROVE Spec => Seamless
<1> DEFINE Same ==
      tau' < tau =>
        /\ Visible(coarse', tau') = Visible(ScaleTiles(fine), tau')
        /\ Visible(fine', tau') = Visible(ScaleTiles(nextFine), tau')
        /\ tau' + Steps - tau = 1 =>
             /\ CoarseFadeOut(tau) <= 15 /\ CoarseFadeOut(tau') = 1000
             /\ FadingAlpha(RevealW(tau)) = 1000 /\ EndpointTrim(RevealW(tau)) = 0
             /\ ~Revealed(tau')
<1>1. Shape /\ Shape' /\ Derived /\ [Next]_vars => [Same]_vars
  <2> SUFFICES ASSUME Shape, Shape', Derived, Next, tau' < tau
               PROVE  Same
    OBVIOUS
  <2>1. tau \in 0..39 /\ tau' \in 0..39
    BY DEF Shape, Steps
  <2>2. Refine(Promoted)
    <3>1. PICK pace \in Paces : Advance(pace)
      BY DEF Next
    <3>2. pace \in Nat
      BY PenroseAssumption
    <3>. QED
      BY <2>1, <3>1, <3>2 DEF Advance, Steps
  <2>3. /\ Visible(coarse', tau') = Visible(ScaleTiles(fine), tau')
        /\ Visible(fine', tau') = Visible(ScaleTiles(nextFine), tau')
    BY <2>1, <2>2, SameTiles
  <2>4. tau' + Steps - tau = 1 => tau = 39 /\ tau' = 0
    <3>1. \A i, j \in 0..39 : i + 40 - j = 1 => j = 39 /\ i = 0
      OBVIOUS
    <3>. QED
      BY <2>1, <3>1 DEF Steps
  <2>. QED
    BY <2>3, <2>4, LightAtTheSeam
<1>2. Seamless <=> [][Same]_vars
  BY DEF Seamless
<1>. QED
  BY <1>1, <1>2, ShapeInductive, DerivedInductive, PTL DEF Spec

-----------------------------------------------------------------------------
(* Handedness: which way the legs of a tile open.                          *)

\* v over z; and one or three tenths of a turn either way.
Back(v)     == <<v[1] + v[2], v[3] - v[1], v[1] + v[4], 0 - v[1]>>
Spin(o, v)  == IF o = 1 THEN Turn(v) ELSE Back(v)
Spin3(o, v) == Spin(o, Spin(o, Spin(o, v)))

LEMMA SpinClosed ==
  ASSUME NEW v \in Point, NEW o \in {1, -1}
  PROVE  Spin(o, v) \in Point /\ Spin3(o, v) \in Point
<1>1. ASSUME NEW p \in Int, NEW q \in Int, NEW r \in Int, NEW x \in Int
      PROVE  <<p, q, r, x>> \in Point
  BY DEF Point
<1>2. /\ \A w \in Point : \A i \in 1..4 : w[i] \in Int
      /\ 1 \in 1..4 /\ 2 \in 1..4 /\ 3 \in 1..4 /\ 4 \in 1..4
  BY DEF Point
<1>3. \A w \in Point : Back(w) \in Point
  BY <1>1, <1>2 DEF Back
<1>4. \A w \in Point : Spin(o, w) \in Point
  BY <1>3, Closed DEF Spin
<1>. QED
  BY <1>4 DEF Spin3

LEMMA SpinRing ==
  ASSUME NEW v \in Point, NEW o \in {1, -1}
  PROVE  LET s == Shrunk(v)  w == Spin3(o, s)
         IN  /\ Sub(Spin(o, v), v) = w
             /\ Sub(Shrunk(Add(Spin3(0 - o, Minus(v)), v)), v) = w
             /\ Minus(w) = Spin(o, Sub(Sub(s, v), w))
             /\ Minus(s) = Spin3(o, Add(Sub(v, s), w))
             /\ Minus(w) = Spin3(0 - o, Sub(Spin3(0 - o, Minus(v)), w))
             /\ s = Spin(0 - o, Shrunk(Spin(o, v)))
             /\ Spin3(0 - o, Shrunk(Minus(v))) = Spin(0 - o, Shrunk(Spin3(o, v)))
             /\ Add(Spin(o, s), Spin(0 - o, s)) = v
             /\ Add(w, Spin3(0 - o, s)) = Sub(s, v)
<1>1. PICK p \in Int, q \in Int, r \in Int, x \in Int : v = <<p, q, r, x>>
  BY DEF Point
<1> DEFINE s == Shrunk(v)
           w == Spin3(o, s)
           m == Minus(v)
           k == Spin3(0 - o, m)
           g == Sub(Sub(s, v), w)
           h == Add(Sub(v, s), w)
           j == Sub(k, w)
           y == Shrunk(m)
           l == Add(k, v)
<1> HIDE DEF s, w, m, k, g, h, j, y, l
<1>2. CASE o = 1
  <2>1. Spin(1, v) = <<0 - x, p + x, q - x, r + x>>
    BY <1>1 DEF Spin, Turn
  <2>2. Sub(Spin(1, v), v) = <<0 - p - x, p - q + x, q - r - x, r>>
    BY <2>1, <1>1 DEF Sub
  <2>3. s = <<q - x, 0 - q + r + x, p + q - r, 0 - p + r>>
    BY <1>1 DEF Shrunk, TimesPhi, Sub, s
  <2>4. Spin(1, s) = <<p - r, 0 - p + q + r - x, p - q + x, q>>
    BY <2>3 DEF Spin, Turn
  <2>5. Spin(1, Spin(1, s)) = <<0 - q, p + q - r, 0 - p + r - x, p + x>>
    BY <2>4 DEF Spin, Turn
  <2>6. Spin(1, Spin(1, Spin(1, s))) = <<0 - p - x, p - q + x, q - r - x, r>>
    BY <2>5 DEF Spin, Turn
  <2>7. w = <<0 - p - x, p - q + x, q - r - x, r>>
    BY <2>6, <1>2 DEF Spin3, w
  <2>8. m = <<0 - p, 0 - q, 0 - r, 0 - x>>
    BY <1>1 DEF Minus, Origin, Sub, m
  <2>9. Spin(-1, m) = <<0 - p - q, p - r, 0 - p - x, p>>
    BY <2>8 DEF Spin, Back
  <2>10. Spin(-1, Spin(-1, m)) = <<0 - q - r, q - x, 0 - q, p + q>>
    BY <2>9 DEF Spin, Back
  <2>11. Spin(-1, Spin(-1, Spin(-1, m))) = <<0 - r - x, r, p - r, q + r>>
    BY <2>10 DEF Spin, Back
  <2>12. k = <<0 - r - x, r, p - r, q + r>>
    BY <2>11, <1>2 DEF Spin3, k
  <2>13. l = <<p - r - x, q + r, p, q + r + x>>
    BY <2>12, <1>1 DEF Add, l
  <2>14. Shrunk(l) = <<0 - x, p + x, q - x, r + x>>
    BY <2>13 DEF Shrunk, TimesPhi, Sub
  <2>15. Sub(Shrunk(l), v) = <<0 - p - x, p - q + x, q - r - x, r>>
    BY <2>14, <1>1 DEF Sub
  <2>16. Minus(w) = <<p + x, 0 - p + q - x, 0 - q + r + x, 0 - r>>
    BY <2>7 DEF Minus, Origin, Sub
  <2>17. Sub(s, v) = <<0 - p + q - x, 0 - 2 * q + r + x, p + q - 2 * r, 0 - p + r - x>>
    BY <2>3, <1>1 DEF Sub
  <2>18. g = <<q, 0 - p - q + r, p - r + x, 0 - p - x>>
    BY <2>17, <2>7 DEF Sub, g
  <2>19. Spin(1, g) = <<p + x, 0 - p + q - x, 0 - q + r + x, 0 - r>>
    BY <2>18 DEF Spin, Turn
  <2>20. Minus(s) = <<0 - q + x, q - r - x, 0 - p - q + r, p - r>>
    BY <2>3 DEF Minus, Origin, Sub
  <2>21. Sub(v, s) = <<p - q + x, 2 * q - r - x, 0 - p - q + 2 * r, p - r + x>>
    BY <1>1, <2>3 DEF Sub
  <2>22. h = <<0 - q, p + q - r, 0 - p + r - x, p + x>>
    BY <2>21, <2>7 DEF Add, h
  <2>23. Spin(1, h) = <<0 - p - x, p - q + x, q - r - x, r>>
    BY <2>22 DEF Spin, Turn
  <2>24. Spin(1, Spin(1, h)) = <<0 - r, 0 - p + r - x, p - q - r + x, q - x>>
    BY <2>23 DEF Spin, Turn
  <2>25. Spin(1, Spin(1, Spin(1, h))) = <<0 - q + x, q - r - x, 0 - p - q + r, p - r>>
    BY <2>24 DEF Spin, Turn
  <2>26. Spin3(1, h) = <<0 - q + x, q - r - x, 0 - p - q + r, p - r>>
    BY <2>25 DEF Spin3
  <2>27. j = <<p - r, 0 - p + q + r - x, p - q + x, q>>
    BY <2>12, <2>7 DEF Sub, j
  <2>28. Spin(-1, j) = <<q - x, 0 - q + r + x, p + q - r, 0 - p + r>>
    BY <2>27 DEF Spin, Back
  <2>29. Spin(-1, Spin(-1, j)) = <<r, p - r + x, 0 - p + q + r - x, 0 - q + x>>
    BY <2>28 DEF Spin, Back
  <2>30. Spin(-1, Spin(-1, Spin(-1, j))) = <<p + x, 0 - p + q - x, 0 - q + r + x, 0 - r>>
    BY <2>29 DEF Spin, Back
  <2>31. Spin3(-1, j) = <<p + x, 0 - p + q - x, 0 - q + r + x, 0 - r>>
    BY <2>30 DEF Spin3
  <2>32. Shrunk(Spin(1, v)) = <<p - r, 0 - p + q + r - x, p - q + x, q>>
    BY <2>1 DEF Shrunk, TimesPhi, Sub
  <2>33. Spin(-1, Shrunk(Spin(1, v))) = <<q - x, 0 - q + r + x, p + q - r, 0 - p + r>>
    BY <2>32 DEF Spin, Back
  <2>34. y = <<0 - q + x, q - r - x, 0 - p - q + r, p - r>>
    BY <2>8 DEF Shrunk, TimesPhi, Sub, y
  <2>35. Spin(-1, y) = <<0 - r, 0 - p + r - x, p - q - r + x, q - x>>
    BY <2>34 DEF Spin, Back
  <2>36. Spin(-1, Spin(-1, y)) = <<0 - p - x, p - q + x, q - r - x, r>>
    BY <2>35 DEF Spin, Back
  <2>37. Spin(-1, Spin(-1, Spin(-1, y))) = <<0 - q, p + q - r, 0 - p + r - x, p + x>>
    BY <2>36 DEF Spin, Back
  <2>38. Spin3(-1, y) = <<0 - q, p + q - r, 0 - p + r - x, p + x>>
    BY <2>37 DEF Spin3
  <2>39. Spin(1, Spin(1, v)) = <<0 - r - x, r, p - r, q + r>>
    BY <2>1 DEF Spin, Turn
  <2>40. Spin(1, Spin(1, Spin(1, v))) = <<0 - q - r, q - x, 0 - q, p + q>>
    BY <2>39 DEF Spin, Turn
  <2>41. Spin3(1, v) = <<0 - q - r, q - x, 0 - q, p + q>>
    BY <2>40 DEF Spin3
  <2>42. Shrunk(Spin3(1, v)) = <<0 - p - x, p - q + x, q - r - x, r>>
    BY <2>41 DEF Shrunk, TimesPhi, Sub
  <2>43. Spin(-1, Shrunk(Spin3(1, v))) = <<0 - q, p + q - r, 0 - p + r - x, p + x>>
    BY <2>42 DEF Spin, Back
  <2>44. Spin(-1, s) = <<r, p - r + x, 0 - p + q + r - x, 0 - q + x>>
    BY <2>3 DEF Spin, Back
  <2>45. Add(Spin(1, s), Spin(-1, s)) = <<p, q, r, x>>
    BY <2>4, <2>44 DEF Add
  <2>46. Spin(-1, Spin(-1, s)) = <<p + x, 0 - p + q - x, 0 - q + r + x, 0 - r>>
    BY <2>44 DEF Spin, Back
  <2>47. Spin(-1, Spin(-1, Spin(-1, s))) = <<q, 0 - p - q + r, p - r + x, 0 - p - x>>
    BY <2>46 DEF Spin, Back
  <2>48. Spin3(-1, s) = <<q, 0 - p - q + r, p - r + x, 0 - p - x>>
    BY <2>47 DEF Spin3
  <2>49. Add(w, Spin3(-1, s)) = <<0 - p + q - x, 0 - 2 * q + r + x, p + q - 2 * r, 0 - p + r - x>>
    BY <2>7, <2>48 DEF Add
  <2>. QED
    BY <1>2, <2>2, <2>7, <2>15, <2>16, <2>19, <2>20, <2>26, <2>31, <2>3, <2>33,
       <2>38, <2>43, <2>45, <1>1, <2>49, <2>17 DEF s, w, m, k, g, h, j, y, l
<1>3. CASE o = -1
  <2>1. Spin(-1, v) = <<p + q, 0 - p + r, p + x, 0 - p>>
    BY <1>1 DEF Spin, Back
  <2>2. Sub(Spin(-1, v), v) = <<q, 0 - p - q + r, p - r + x, 0 - p - x>>
    BY <2>1, <1>1 DEF Sub
  <2>3. s = <<q - x, 0 - q + r + x, p + q - r, 0 - p + r>>
    BY <1>1 DEF Shrunk, TimesPhi, Sub, s
  <2>4. Spin(-1, s) = <<r, p - r + x, 0 - p + q + r - x, 0 - q + x>>
    BY <2>3 DEF Spin, Back
  <2>5. Spin(-1, Spin(-1, s)) = <<p + x, 0 - p + q - x, 0 - q + r + x, 0 - r>>
    BY <2>4 DEF Spin, Back
  <2>6. Spin(-1, Spin(-1, Spin(-1, s))) = <<q, 0 - p - q + r, p - r + x, 0 - p - x>>
    BY <2>5 DEF Spin, Back
  <2>7. w = <<q, 0 - p - q + r, p - r + x, 0 - p - x>>
    BY <2>6, <1>3 DEF Spin3, w
  <2>8. m = <<0 - p, 0 - q, 0 - r, 0 - x>>
    BY <1>1 DEF Minus, Origin, Sub, m
  <2>9. Spin(1, m) = <<x, 0 - p - x, 0 - q + x, 0 - r - x>>
    BY <2>8 DEF Spin, Turn
  <2>10. Spin(1, Spin(1, m)) = <<r + x, 0 - r, 0 - p + r, 0 - q - r>>
    BY <2>9 DEF Spin, Turn
  <2>11. Spin(1, Spin(1, Spin(1, m))) = <<q + r, 0 - q + x, q, 0 - p - q>>
    BY <2>10 DEF Spin, Turn
  <2>12. k = <<q + r, 0 - q + x, q, 0 - p - q>>
    BY <2>11, <1>3 DEF Spin3, k
  <2>13. l = <<p + q + r, x, q + r, 0 - p - q + x>>
    BY <2>12, <1>1 DEF Add, l
  <2>14. Shrunk(l) = <<p + q, 0 - p + r, p + x, 0 - p>>
    BY <2>13 DEF Shrunk, TimesPhi, Sub
  <2>15. Sub(Shrunk(l), v) = <<q, 0 - p - q + r, p - r + x, 0 - p - x>>
    BY <2>14, <1>1 DEF Sub
  <2>16. Minus(w) = <<0 - q, p + q - r, 0 - p + r - x, p + x>>
    BY <2>7 DEF Minus, Origin, Sub
  <2>17. Sub(s, v) = <<0 - p + q - x, 0 - 2 * q + r + x, p + q - 2 * r, 0 - p + r - x>>
    BY <2>3, <1>1 DEF Sub
  <2>18. g = <<0 - p - x, p - q + x, q - r - x, r>>
    BY <2>17, <2>7 DEF Sub, g
  <2>19. Spin(-1, g) = <<0 - q, p + q - r, 0 - p + r - x, p + x>>
    BY <2>18 DEF Spin, Back
  <2>20. Minus(s) = <<0 - q + x, q - r - x, 0 - p - q + r, p - r>>
    BY <2>3 DEF Minus, Origin, Sub
  <2>21. Sub(v, s) = <<p - q + x, 2 * q - r - x, 0 - p - q + 2 * r, p - r + x>>
    BY <1>1, <2>3 DEF Sub
  <2>22. h = <<p + x, 0 - p + q - x, 0 - q + r + x, 0 - r>>
    BY <2>21, <2>7 DEF Add, h
  <2>23. Spin(-1, h) = <<q, 0 - p - q + r, p - r + x, 0 - p - x>>
    BY <2>22 DEF Spin, Back
  <2>24. Spin(-1, Spin(-1, h)) = <<0 - p + r, p - q - r + x, 0 - p + q - x, 0 - q>>
    BY <2>23 DEF Spin, Back
  <2>25. Spin(-1, Spin(-1, Spin(-1, h))) = <<0 - q + x, q - r - x, 0 - p - q + r, p - r>>
    BY <2>24 DEF Spin, Back
  <2>26. Spin3(-1, h) = <<0 - q + x, q - r - x, 0 - p - q + r, p - r>>
    BY <2>25 DEF Spin3
  <2>27. j = <<r, p - r + x, 0 - p + q + r - x, 0 - q + x>>
    BY <2>12, <2>7 DEF Sub, j
  <2>28. Spin(1, j) = <<q - x, 0 - q + r + x, p + q - r, 0 - p + r>>
    BY <2>27 DEF Spin, Turn
  <2>29. Spin(1, Spin(1, j)) = <<p - r, 0 - p + q + r - x, p - q + x, q>>
    BY <2>28 DEF Spin, Turn
  <2>30. Spin(1, Spin(1, Spin(1, j))) = <<0 - q, p + q - r, 0 - p + r - x, p + x>>
    BY <2>29 DEF Spin, Turn
  <2>31. Spin3(1, j) = <<0 - q, p + q - r, 0 - p + r - x, p + x>>
    BY <2>30 DEF Spin3
  <2>32. Shrunk(Spin(-1, v)) = <<r, p - r + x, 0 - p + q + r - x, 0 - q + x>>
    BY <2>1 DEF Shrunk, TimesPhi, Sub
  <2>33. Spin(1, Shrunk(Spin(-1, v))) = <<q - x, 0 - q + r + x, p + q - r, 0 - p + r>>
    BY <2>32 DEF Spin, Turn
  <2>34. y = <<0 - q + x, q - r - x, 0 - p - q + r, p - r>>
    BY <2>8 DEF Shrunk, TimesPhi, Sub, y
  <2>35. Spin(1, y) = <<0 - p + r, p - q - r + x, 0 - p + q - x, 0 - q>>
    BY <2>34 DEF Spin, Turn
  <2>36. Spin(1, Spin(1, y)) = <<q, 0 - p - q + r, p - r + x, 0 - p - x>>
    BY <2>35 DEF Spin, Turn
  <2>37. Spin(1, Spin(1, Spin(1, y))) = <<p + x, 0 - p + q - x, 0 - q + r + x, 0 - r>>
    BY <2>36 DEF Spin, Turn
  <2>38. Spin3(1, y) = <<p + x, 0 - p + q - x, 0 - q + r + x, 0 - r>>
    BY <2>37 DEF Spin3
  <2>39. Spin(-1, Spin(-1, v)) = <<q + r, 0 - q + x, q, 0 - p - q>>
    BY <2>1 DEF Spin, Back
  <2>40. Spin(-1, Spin(-1, Spin(-1, v))) = <<r + x, 0 - r, 0 - p + r, 0 - q - r>>
    BY <2>39 DEF Spin, Back
  <2>41. Spin3(-1, v) = <<r + x, 0 - r, 0 - p + r, 0 - q - r>>
    BY <2>40 DEF Spin3
  <2>42. Shrunk(Spin3(-1, v)) = <<q, 0 - p - q + r, p - r + x, 0 - p - x>>
    BY <2>41 DEF Shrunk, TimesPhi, Sub
  <2>43. Spin(1, Shrunk(Spin3(-1, v))) = <<p + x, 0 - p + q - x, 0 - q + r + x, 0 - r>>
    BY <2>42 DEF Spin, Turn
  <2>44. Spin(1, s) = <<p - r, 0 - p + q + r - x, p - q + x, q>>
    BY <2>3 DEF Spin, Turn
  <2>45. Add(Spin(-1, s), Spin(1, s)) = <<p, q, r, x>>
    BY <2>4, <2>44 DEF Add
  <2>46. Spin(1, Spin(1, s)) = <<0 - q, p + q - r, 0 - p + r - x, p + x>>
    BY <2>44 DEF Spin, Turn
  <2>47. Spin(1, Spin(1, Spin(1, s))) = <<0 - p - x, p - q + x, q - r - x, r>>
    BY <2>46 DEF Spin, Turn
  <2>48. Spin3(1, s) = <<0 - p - x, p - q + x, q - r - x, r>>
    BY <2>47 DEF Spin3
  <2>49. Add(w, Spin3(1, s)) = <<0 - p + q - x, 0 - 2 * q + r + x, p + q - 2 * r, 0 - p + r - x>>
    BY <2>7, <2>48 DEF Add
  <2>. QED
    BY <1>3, <2>2, <2>7, <2>15, <2>16, <2>19, <2>20, <2>26, <2>31, <2>3, <2>33,
       <2>38, <2>43, <2>45, <1>1, <2>49, <2>17 DEF s, w, m, k, g, h, j, y, l
<1>. QED
  BY <1>2, <1>3

\* A tile opens one way or the other: its third corner is a turn from its second.
Opens(t, o) ==
  Sub(t.c, t.a) = IF t.kind = 0 THEN Spin(o, Sub(t.b, t.a)) ELSE Spin3(o, Sub(t.b, t.a))

\* The corners of the halves, alike for both kinds: Mid splits the side from Root to Tip,
\* and what is left of it is seen from Roof.
Root(t) == IF t.kind = 0 THEN t.a ELSE t.b
Tip(t)  == IF t.kind = 0 THEN t.b ELSE t.a
Mid(t)  == Toward(Root(t), Tip(t))
Roof(t) == IF t.kind = 0 THEN t.c ELSE Toward(t.b, t.c)
Peak(t) == IF t.kind = 0 THEN Mid(t) ELSE Roof(t)
Hand(t, o) == IF t.kind = 0 THEN o ELSE 0 - o

Small(t) == Tri(0, Roof(t), Mid(t), Tip(t))
Big(t)   == Tri(1, Mid(t), Roof(t), Root(t))
Face(t)  == Tri(1, Peak(t), t.c, t.a)

LEMMA HalvesAre ==
  ASSUME NEW t \in Tile
  PROVE  /\ Halves(t) = {Small(t), Big(t), Face(t)}
         /\ t.kind = 0 => Face(t) = Big(t)
         /\ Root(t) \in Point /\ Tip(t) \in Point /\ Mid(t) \in Point /\ Roof(t) \in Point
         /\ Peak(t) \in Point
         /\ Small(t) \in Tile /\ Big(t) \in Tile /\ Face(t) \in Tile
<1>1. t.a \in Point /\ t.b \in Point /\ t.c \in Point /\ t.kind \in {0, 1}
  BY DEF Tile
<1>2. /\ Root(t) \in Point /\ Tip(t) \in Point /\ Mid(t) \in Point /\ Roof(t) \in Point
      /\ Peak(t) \in Point
  BY <1>1, Closed DEF Root, Tip, Mid, Roof, Peak
<1>3. Small(t) \in Tile /\ Big(t) \in Tile /\ Face(t) \in Tile
  BY <1>1, <1>2 DEF Small, Big, Face, Tile, Tri
<1>4. CASE t.kind = 0
  <2>1. /\ Root(t) = t.a /\ Tip(t) = t.b /\ Mid(t) = Toward(t.a, t.b) /\ Roof(t) = t.c
        /\ Peak(t) = Mid(t)
    BY <1>4 DEF Root, Tip, Mid, Roof, Peak
  <2>2. Halves(t) = {Tri(0, t.c, Mid(t), t.b), Tri(1, Mid(t), t.c, t.a)}
    BY <1>4, <2>1 DEF Halves
  <2>. QED
    BY <1>2, <1>3, <2>1, <2>2 DEF Small, Big, Face
<1>5. CASE t.kind = 1
  <2>1. /\ Root(t) = t.b /\ Tip(t) = t.a /\ Mid(t) = Toward(t.b, t.a)
        /\ Roof(t) = Toward(t.b, t.c) /\ Peak(t) = Roof(t)
    BY <1>5 DEF Root, Tip, Mid, Roof, Peak
  <2>2. Halves(t) = {Tri(1, Roof(t), t.c, t.a), Tri(1, Mid(t), Roof(t), t.b),
                     Tri(0, Roof(t), Mid(t), t.a)}
    BY <1>5, <2>1 DEF Halves
  <2>. QED
    BY <1>2, <1>3, <1>5, <2>1, <2>2 DEF Small, Big, Face
<1>. QED
  BY <1>1, <1>4, <1>5

LEMMA Vectors ==
  /\ \A a, b \in Point : /\ Add(a, Sub(b, a)) = b /\ Sub(a, b) = Minus(Sub(b, a))
                         /\ Sub(a, Add(a, b)) = Minus(b)
                         /\ Sub(Add(a, b), a) = b /\ Sub(Add(a, b), b) = a
  /\ \A a, b, w \in Point : /\ Add(a, w) = Add(b, Sub(w, Sub(b, a)))
                            /\ Sub(w, b) = Add(Sub(w, a), Sub(a, b))
                            /\ Sub(b, Add(a, w)) = Sub(Sub(b, a), w)
                            /\ Sub(Add(b, a), Add(a, w)) = Add(a, Sub(Sub(b, a), w))
  /\ \A a, b, s, w \in Point :
       /\ Sub(Add(a, s), Add(b, w)) = Sub(Sub(s, Sub(b, a)), w)
       /\ Sub(Add(b, w), Add(a, s)) = Add(Sub(Sub(b, a), s), w)
       /\ Sub(Add(Add(a, s), b), Add(b, w)) = Add(b, Sub(Sub(s, Sub(b, a)), w))
<1>1. \A a, b \in Point : Add(a, Sub(b, a)) = b /\ Sub(a, b) = Minus(Sub(b, a))
  BY DEF Add, Sub, Minus, Origin, Point
<1>2. \A a, b \in Point : Sub(a, Add(a, b)) = Minus(b)
  BY DEF Add, Sub, Minus, Origin, Point
<1>3. \A a, b \in Point : Sub(Add(a, b), a) = b /\ Sub(Add(a, b), b) = a
  BY DEF Add, Sub, Point
<1>4. \A a, b, w \in Point : Add(a, w) = Add(b, Sub(w, Sub(b, a)))
  BY DEF Add, Sub, Point
<1>5. \A a, b, w \in Point : Sub(w, b) = Add(Sub(w, a), Sub(a, b))
  BY DEF Add, Sub, Point
<1>6. \A a, b, w \in Point : Sub(b, Add(a, w)) = Sub(Sub(b, a), w)
  BY DEF Add, Sub, Point
<1>7. \A a, b, w \in Point : Sub(Add(b, a), Add(a, w)) = Add(a, Sub(Sub(b, a), w))
  BY DEF Add, Sub, Point
<1>8. \A a, b, s, w \in Point : Sub(Add(a, s), Add(b, w)) = Sub(Sub(s, Sub(b, a)), w)
  BY DEF Add, Sub, Point
<1>9. \A a, b, s, w \in Point : Sub(Add(b, w), Add(a, s)) = Add(Sub(Sub(b, a), s), w)
  BY DEF Add, Sub, Point
<1>10. \A a, b, s, w \in Point :
         Sub(Add(Add(a, s), b), Add(b, w)) = Add(b, Sub(Sub(s, Sub(b, a)), w))
  BY DEF Add, Sub, Point
<1>. QED
  BY <1>1, <1>2, <1>3, <1>4, <1>5, <1>6, <1>7, <1>8, <1>9, <1>10

\* Where the corners of the halves are.
LEMMA Places ==
  ASSUME NEW t \in Tile, NEW o \in {1, -1}, Opens(t, o)
  PROVE  LET d == Sub(Tip(t), Root(t))  s == Shrunk(d)  h == Hand(t, o)
         IN  /\ h \in {1, -1} /\ d \in Point /\ s \in Point
             /\ Mid(t) = Add(Root(t), s)
             /\ Roof(t) = Add(Tip(t), Spin3(h, s))
             /\ Peak(t) = Add(t.a, Spin(0 - o, Shrunk(Sub(t.c, t.a))))
<1> DEFINE a == t.a  b == t.b  c == t.c  d == Sub(Tip(t), Root(t))  s == Shrunk(d)
           h == Hand(t, o)  f == Sub(c, a)  e == Sub(b, a)
<1>1. a \in Point /\ b \in Point /\ c \in Point /\ t.kind \in {0, 1}
  BY DEF Tile
<1>2. /\ h \in {1, -1} /\ 0 - o \in {1, -1} /\ 0 - (0 - o) = o
      /\ Root(t) \in Point /\ Tip(t) \in Point
  BY HalvesAre DEF Hand
<1>3. d \in Point /\ e \in Point /\ f \in Point /\ s \in Point
  BY <1>1, <1>2, Closed
<1>4. Mid(t) = Add(Root(t), s)
  BY DEF Mid, Toward, Shrunk
<1>5. CASE t.kind = 0
  <2>1. Root(t) = a /\ Tip(t) = b /\ Roof(t) = c /\ Peak(t) = Mid(t) /\ h = o /\ d = e
    BY <1>5 DEF Root, Tip, Roof, Peak, Hand
  <2>2. f = Spin(o, d)
    BY <1>5, <2>1 DEF Opens
  <2> HIDE DEF a, b, c, d, e, f, s, h
  <2>3. Spin(o, d) \in Point
    BY <1>3, SpinClosed
  <2>4. c = Add(b, Sub(Spin(o, d), e))
    BY <1>1, <2>2, <2>3, Vectors DEF f, e
  <2>5. Sub(Spin(o, d), d) = Spin3(o, s) /\ s = Spin(0 - o, Shrunk(Spin(o, d)))
    BY <1>3, SpinRing DEF s
  <2>. QED
    BY <1>2, <1>3, <1>4, <2>1, <2>2, <2>4, <2>5 DEF a, b, c, d, e, f, s, h
<1>6. CASE t.kind = 1
  <2>1. /\ Root(t) = b /\ Tip(t) = a /\ Roof(t) = Toward(b, c) /\ Peak(t) = Roof(t)
        /\ h = 0 - o /\ o = 0 - h
    BY <1>6 DEF Root, Tip, Roof, Peak, Hand
  <2>2. f = Spin3(o, e)
    BY <1>6 DEF Opens
  <2>3. d = Sub(a, b)
    BY <2>1
  <2>4. Roof(t) = Add(b, Shrunk(Sub(c, b)))
    BY <2>1 DEF Toward, Shrunk
  <2> HIDE DEF a, b, c, d, e, f, s, h
  <2>5. e = Minus(d) /\ d = Minus(e) /\ Sub(c, b) = Add(f, d)
    BY <1>1, <2>3, Vectors DEF e, f
  <2>6. Roof(t) = Add(a, Sub(Shrunk(Sub(c, b)), d))
    <3>1. Shrunk(Sub(c, b)) \in Point
      BY <1>1, Closed
    <3>. QED
      BY <1>1, <2>3, <2>4, <3>1, Vectors
  <2>7. Sub(Shrunk(Add(Spin3(0 - h, Minus(d)), d)), d) = Spin3(h, s)
    BY <1>2, <1>3, SpinRing DEF s
  <2>8. Roof(t) = Add(a, Spin3(h, s))
    BY <2>1, <2>2, <2>5, <2>6, <2>7
  <2>9. Spin3(0 - o, Shrunk(Minus(e))) = Spin(0 - o, Shrunk(Spin3(o, e)))
    BY <1>3, SpinRing
  <2>. QED
    BY <1>2, <1>3, <1>4, <2>1, <2>2, <2>5, <2>8, <2>9 DEF a, b, c, d, e, f, s, h
<1>. QED
  BY <1>1, <1>5, <1>6

\* The halves open as the side they are on asks.
LEMMA HalvesOpen ==
  ASSUME NEW t \in Tile, NEW o \in {1, -1}, Opens(t, o)
  PROVE  /\ Opens(Small(t), Hand(t, o)) /\ Opens(Big(t), Hand(t, o)) /\ Opens(Face(t), o)
<1> DEFINE d == Sub(Tip(t), Root(t))  s == Shrunk(d)  h == Hand(t, o)  w == Spin3(h, s)
           m == Mid(t)  r == Roof(t)  root == Root(t)  tip == Tip(t)
           f == Sub(t.c, t.a)
<1>1. /\ h \in {1, -1} /\ d \in Point /\ s \in Point /\ m = Add(root, s) /\ r = Add(tip, w)
      /\ root \in Point /\ tip \in Point /\ m \in Point /\ r \in Point
  BY Places, HalvesAre
<1>2. w \in Point
  BY <1>1, SpinClosed
<1>3. t.a \in Point /\ t.b \in Point /\ t.c \in Point /\ t.kind \in {0, 1}
  BY DEF Tile
<1>4. /\ Small(t).kind = 0 /\ Small(t).a = r /\ Small(t).b = m /\ Small(t).c = tip
      /\ Big(t).kind = 1 /\ Big(t).a = m /\ Big(t).b = r /\ Big(t).c = root
  BY DEF Small, Big, Tri
<1>5. t.kind = 1 => /\ root = t.b /\ tip = t.a /\ h = 0 - o /\ o = 0 - h /\ Face(t).kind = 1
                    /\ Face(t).a = r /\ Face(t).b = t.c /\ Face(t).c = t.a
                    /\ f = Spin3(o, Sub(t.b, t.a))
  BY DEF Root, Tip, Hand, Face, Peak, Tri, Opens
<1> DEFINE k == Sub(t.b, t.a)
<1>6. d = Sub(tip, root) /\ f = Sub(t.c, t.a) /\ k = Sub(t.b, t.a)
  OBVIOUS
<1>7. /\ Minus(w) = Spin(h, Sub(Sub(s, d), w))
      /\ Minus(s) = Spin3(h, Add(Sub(d, s), w))
      /\ Minus(w) = Spin3(0 - h, Sub(Spin3(0 - h, Minus(d)), w))
  BY <1>1, SpinRing
<1> HIDE DEF d, s, h, w, m, r, root, tip, f, k
<1>8. Opens(Small(t), h)
  <2>1. Sub(tip, r) = Minus(w) /\ Sub(m, r) = Sub(Sub(s, d), w)
    BY <1>1, <1>2, <1>6, Vectors
  <2>. QED
    BY <1>4, <1>7, <2>1 DEF Opens
<1>9. Opens(Big(t), h)
  <2>1. Sub(root, m) = Minus(s) /\ Sub(r, m) = Add(Sub(d, s), w)
    BY <1>1, <1>2, <1>6, Vectors
  <2>. QED
    BY <1>4, <1>7, <2>1 DEF Opens
<1>10. CASE t.kind = 1
  <2>1. k = Minus(d)
    BY <1>3, <1>5, <1>6, <1>10, Vectors
  <2>2. Sub(t.a, r) = Minus(w) /\ Sub(t.c, r) = Sub(f, w)
    <3>1. r = Add(t.a, w)
      BY <1>1, <1>5, <1>10
    <3>2. Sub(t.a, Add(t.a, w)) = Minus(w) /\ Sub(t.c, Add(t.a, w)) = Sub(Sub(t.c, t.a), w)
      BY <1>2, <1>3, Vectors
    <3>. QED
      BY <3>1, <3>2, <1>6
  <2>3. f = Spin3(0 - h, Minus(d))
    BY <1>5, <1>6, <1>10, <2>1
  <2>4. Opens(Face(t), o)
    BY <1>5, <1>7, <1>10, <2>2, <2>3 DEF Opens
  <2>. QED
    BY <1>8, <1>9, <2>4 DEF h
<1>11. CASE t.kind = 0
  BY <1>8, <1>9, <1>11, HalvesAre DEF h, Hand
<1>. QED
  BY <1>3, <1>10, <1>11

-----------------------------------------------------------------------------
(* Neighbours: the tile on the other side of each edge.                    *)

OnBC(t, u, o) ==
  /\ u.kind = t.kind /\ u.b = t.b /\ u.c = t.c /\ u.a = Sub(Add(t.b, t.c), t.a)
  /\ Opens(u, 0 - o)
OnAC(t, u, o) == u.a = t.a /\ u.c = t.c /\ Opens(u, 0 - o)
OnAB(t, u, o) ==
  Root(u) = Root(t) /\ Tip(u) = Tip(t) /\ Opens(u, IF u.kind = t.kind THEN 0 - o ELSE o)

\* The halves of one tile are neighbours of each other,
LEMMA Siblings ==
  ASSUME NEW t \in Tile, NEW o \in {1, -1}, Opens(t, o)
  PROVE  /\ OnAB(Small(t), Big(t), Hand(t, o)) /\ OnAB(Big(t), Small(t), Hand(t, o))
         /\ t.kind = 1 => OnAC(Small(t), Face(t), Hand(t, o)) /\ OnAC(Face(t), Small(t), o)
<1>1. Opens(Small(t), Hand(t, o)) /\ Opens(Big(t), Hand(t, o)) /\ Opens(Face(t), o)
  BY HalvesOpen
<1>2. t.kind = 1 => /\ Hand(t, o) = 0 - o /\ 0 - Hand(t, o) = o
                    /\ Peak(t) = Roof(t) /\ Tip(t) = t.a
  BY DEF Hand, Peak, Tip
<1>. QED
  BY <1>1, <1>2 DEF OnAB, OnAC, Root, Tip, Small, Big, Face, Tri

\* and those of tiles that meet are neighbours along the common side.
LEMMA AcrossAB ==
  ASSUME NEW t \in Tile, NEW u \in Tile, NEW o \in {1, -1}, Opens(t, o), OnAB(t, u, o)
  PROVE  OnBC(Small(t), Small(u), Hand(t, o)) /\ OnAC(Big(t), Big(u), Hand(t, o))
<1> DEFINE i == IF u.kind = t.kind THEN 0 - o ELSE o
           d == Sub(Tip(t), Root(t))  s == Shrunk(d)  h == Hand(t, o)
           root == Root(t)  tip == Tip(t)
<1>1. /\ i \in {1, -1} /\ Opens(u, i) /\ Root(u) = root /\ Tip(u) = tip /\ Mid(u) = Mid(t)
      /\ Hand(u, i) = 0 - h /\ h \in {1, -1}
  BY DEF OnAB, Mid, Hand, Tile
<1>2. /\ root \in Point /\ tip \in Point /\ d \in Point /\ s \in Point
      /\ Mid(t) = Add(root, s) /\ Roof(t) = Add(tip, Spin3(h, s))
      /\ Spin3(h, s) \in Point
  BY Places, HalvesAre, SpinClosed
<1>3. Roof(u) = Add(tip, Spin3(0 - h, s))
  BY <1>1, Places
<1>4. Add(Spin3(h, s), Spin3(0 - h, s)) = Sub(s, d)
  BY <1>1, <1>2, SpinRing
<1>5. Opens(Small(u), 0 - h) /\ Opens(Big(u), 0 - h)
  BY <1>1, HalvesOpen
<1>6. d = Sub(tip, root) /\ 0 - h \in {1, -1}
  BY <1>1
<1>7. Spin3(0 - h, s) \in Point
  BY <1>2, <1>6, SpinClosed
<1>8. Roof(u) = Sub(Add(Mid(t), tip), Roof(t))
  <2>1. \A x, y \in Point : Sub(Add(x, y), x) = y
    BY Vectors
  <2> HIDE DEF d, s, h, root, tip
  <2>2. Spin3(0 - h, s) = Sub(Sub(s, d), Spin3(h, s))
    BY <1>2, <1>4, <1>7, <2>1
  <2>3. Sub(Add(Add(root, s), tip), Add(tip, Spin3(h, s)))
          = Add(tip, Sub(Sub(s, Sub(tip, root)), Spin3(h, s)))
    BY <1>2, Vectors
  <2>. QED
    BY <1>2, <1>3, <1>6, <2>2, <2>3
<1>. QED
  BY <1>1, <1>5, <1>8 DEF OnBC, OnAC, Small, Big, Tri

LEMMA AcrossAC ==
  ASSUME NEW t \in Tile, NEW u \in Tile, NEW o \in {1, -1}, Opens(t, o), OnAC(t, u, o)
  PROVE  OnBC(Face(t), Face(u), o)
<1> DEFINE f == Sub(t.c, t.a)  s == Shrunk(f)
<1>1. t.a \in Point /\ t.c \in Point
  BY DEF Tile
<1>2. 0 - o \in {1, -1} /\ 0 - (0 - o) = o /\ Opens(u, 0 - o) /\ u.a = t.a /\ u.c = t.c
  BY DEF OnAC
<1>3. Peak(t) = Add(t.a, Spin(0 - o, s))
  BY Places
<1>4. Peak(u) = Add(t.a, Spin(o, s))
  BY <1>2, Places
<1>5. f \in Point /\ s \in Point
  BY <1>1, Closed
<1>6. Spin(o, s) \in Point /\ Spin(0 - o, s) \in Point
  BY <1>2, <1>5, SpinClosed
<1>7. Add(Spin(o, s), Spin(0 - o, s)) = f
  BY <1>5, SpinRing
<1>8. Peak(u) = Sub(Add(t.c, t.a), Peak(t))
  <2>1. Spin(o, s) = Sub(f, Spin(0 - o, s))
    <3>1. \A x, y \in Point : Sub(Add(x, y), y) = x
      BY Vectors
    <3>. QED
      BY <1>6, <1>7, <3>1
  <2>2. Sub(Add(t.c, t.a), Add(t.a, Spin(0 - o, s)))
          = Add(t.a, Sub(Sub(t.c, t.a), Spin(0 - o, s)))
    BY <1>1, <1>6, Vectors
  <2>. QED
    BY <1>3, <1>4, <2>1, <2>2
<1>9. Opens(Face(u), 0 - o)
  BY <1>2, HalvesOpen
<1>. QED
  BY <1>2, <1>8, <1>9 DEF OnBC, Face, Tri

LEMMA AcrossBC ==
  ASSUME NEW t \in Tile, NEW u \in Tile, NEW o \in {1, -1}, Opens(t, o), OnBC(t, u, o)
  PROVE  /\ t.kind = 0 => OnAC(Small(t), Small(u), Hand(t, o))
         /\ t.kind = 1 => /\ OnBC(Big(t), Big(u), Hand(t, o))
                          /\ OnAB(Face(t), Face(u), o)
<1>1. /\ 0 - o \in {1, -1} /\ Opens(u, 0 - o) /\ u.kind = t.kind /\ u.b = t.b /\ u.c = t.c
      /\ u.a = Sub(Add(t.b, t.c), t.a) /\ Hand(u, 0 - o) = 0 - Hand(t, o)
  BY DEF OnBC, Hand
<1>2. Opens(Small(u), 0 - Hand(t, o)) /\ Opens(Big(u), 0 - Hand(t, o)) /\ Opens(Face(u), 0 - o)
  BY <1>1, HalvesOpen
<1>3. CASE t.kind = 0
  BY <1>1, <1>2, <1>3 DEF OnAC, Small, Roof, Tip, Tri
<1>4. CASE t.kind = 1
  <2> DEFINE a == t.a  b == t.b  c == t.c
  <2>1. a \in Point /\ b \in Point /\ c \in Point
    BY DEF Tile
  <2>2. /\ Root(t) = b /\ Mid(t) = Toward(b, a) /\ Roof(t) = Toward(b, c)
        /\ Root(u) = b /\ Mid(u) = Toward(b, u.a) /\ Roof(u) = Toward(b, c)
        /\ Peak(t) = Roof(t) /\ Peak(u) = Roof(u)
    BY <1>1, <1>4 DEF Root, Tip, Mid, Roof, Peak
  <2>3. Toward(b, Sub(Add(b, c), a)) = Sub(Add(Toward(b, c), b), Toward(b, a))
    <3>1. \A x, y \in Point : Shrunk(Sub(x, y)) = Sub(Shrunk(x), Shrunk(y))
      BY DEF Shrunk, TimesPhi, Sub, Point
    <3>2. \A x, y, z \in Point : Sub(Sub(Add(x, y), z), x) = Sub(Sub(y, x), Sub(z, x))
      BY DEF Add, Sub, Point
    <3>3. \A x, y, z \in Point : Sub(Add(Add(x, y), x), Add(x, z)) = Add(x, Sub(y, z))
      BY DEF Add, Sub, Point
    <3>4. /\ Sub(c, b) \in Point /\ Sub(a, b) \in Point
          /\ Shrunk(Sub(c, b)) \in Point /\ Shrunk(Sub(a, b)) \in Point
      BY <2>1, Closed
    <3>5. \A x, y : Toward(x, y) = Add(x, Shrunk(Sub(y, x)))
      BY DEF Toward, Shrunk
    <3> HIDE DEF a, b, c
    <3>6. Sub(Add(Toward(b, c), b), Toward(b, a))
            = Add(b, Sub(Shrunk(Sub(c, b)), Shrunk(Sub(a, b))))
      BY <2>1, <3>3, <3>4, <3>5
    <3>. QED
      BY <2>1, <3>1, <3>2, <3>4, <3>5, <3>6
  <2>4. OnBC(Big(t), Big(u), Hand(t, o))
    BY <1>1, <1>2, <2>2, <2>3 DEF OnBC, Big, Tri
  <2>5. OnAB(Face(t), Face(u), o)
    BY <1>1, <1>2, <2>2 DEF OnAB, Face, Root, Tip, Tri
  <2>. QED
    BY <1>4, <2>4, <2>5
<1>. QED
  BY <1>3, <1>4 DEF Tile

-----------------------------------------------------------------------------
(* A generation without gaps: what is not next to another tile is on a rim.  *)

\* A rim is given by the sets of points it is made of: an edge is on it when both its
\* ends are in the same one.
Beside(Rim, x, y) == \E L \in Rim : x \in L /\ y \in L

JoinedAt(tris, Rim, t, o) ==
  /\ Opens(t, o)
  /\ Beside(Rim, t.b, t.c) \/ \E u \in tris : OnBC(t, u, o)
  /\ Beside(Rim, t.a, t.c) \/ \E u \in tris : OnAC(t, u, o)
  /\ Beside(Rim, t.a, t.b) \/ \E u \in tris : OnAB(t, u, o)

Joined(tris, Rim) == \A t \in tris : \E o \in {1, -1} : JoinedAt(tris, Rim, t, o)

\* K has what L has, and the points where edges between them are split into halves
\* with legs of size m + n phi.
Closes(L, K, m, n) ==
  /\ L \subseteq K
  /\ \A x, y \in L : LET z == Toward(x, y)
                     IN  Size(Sub(x, z), m, n) \/ Size(Sub(y, z), m, n) => z \in K

LEMMA Splits ==
  ASSUME NEW t, NEW m, NEW n, HalfRhomb(t, m, n)
  PROVE  /\ Size(Sub(Root(t), Mid(t)), 2 * m - n, n - m)
         /\ t.kind = 1 => Size(Sub(t.c, Roof(t)), 2 * m - n, n - m)
<1>1. /\ t.a \in Point /\ t.b \in Point /\ t.c \in Point /\ t.kind \in {0, 1}
      /\ Legs(t.kind, t.a, t.b, t.c, m, n)
  BY DEF HalfRhomb, Tile
<1>2. CASE t.kind = 0
  <2>1. Legs(1, Toward(t.a, t.b), t.c, t.a, 2 * m - n, n - m)
    BY <1>1, <1>2, ThinHalves
  <2>. QED
    BY <1>2, <2>1 DEF Root, Tip, Mid, Legs
<1>3. CASE t.kind = 1
  <2>1. /\ Legs(1, Toward(t.b, t.c), t.c, t.a, 2 * m - n, n - m)
        /\ Legs(1, Toward(t.b, t.a), Toward(t.b, t.c), t.b, 2 * m - n, n - m)
    BY <1>1, <1>3, ThickHalves
  <2>. QED
    BY <1>3, <2>1 DEF Root, Tip, Mid, Roof, Legs
<1>. QED
  BY <1>1, <1>2, <1>3

\* Splitting opens no gap.
LEMMA SubdivideJoined ==
  ASSUME NEW tris, NEW m, NEW n, Generation(tris, m, n), NEW Rim, Joined(tris, Rim), NEW Rim2,
         \A L \in Rim : \E K \in Rim2 : Closes(L, K, 2 * m - n, n - m)
  PROVE  Joined(Subdivide(tris), Rim2)
<1> SUFFICES ASSUME NEW t \in tris, NEW x \in Halves(t)
             PROVE  \E i \in {1, -1} : JoinedAt(Subdivide(tris), Rim2, x, i)
  BY DEF Joined, Subdivide
<1>1. PICK o \in {1, -1} : JoinedAt(tris, Rim, t, o)
  BY DEF Joined
<1> DEFINE h == Hand(t, o)
           all == Subdivide(tris)
<1>2. /\ \A u \in tris : u \in Tile /\ HalfRhomb(u, m, n)
      /\ \A u \in tris : Small(u) \in all /\ Big(u) \in all /\ Face(u) \in all
  BY HalvesAre DEF Generation, HalfRhomb, Subdivide
<1>3. t \in Tile /\ Opens(t, o) /\ h \in {1, -1}
  BY <1>1, <1>2, Places DEF JoinedAt
<1>4. /\ Opens(Small(t), h) /\ Opens(Big(t), h) /\ Opens(Face(t), o)
  BY <1>3, HalvesOpen
<1>5. \/ Beside(Rim2, Mid(t), Tip(t)) /\ Beside(Rim2, Mid(t), Root(t))
      \/ \E u \in tris : OnAB(t, u, o)
  <2>1. CASE Beside(Rim, t.a, t.b)
    <3>1. PICK L \in Rim : Root(t) \in L /\ Tip(t) \in L
      BY <2>1 DEF Beside, Root, Tip
    <3>2. PICK K \in Rim2 : Closes(L, K, 2 * m - n, n - m)
      OBVIOUS
    <3>3. Size(Sub(Root(t), Toward(Root(t), Tip(t))), 2 * m - n, n - m)
      BY <1>2, Splits DEF Mid
    <3>4. Mid(t) \in K /\ Root(t) \in K /\ Tip(t) \in K
      BY <3>1, <3>2, <3>3 DEF Closes, Mid
    <3>. QED
      BY <3>2, <3>4 DEF Beside
  <2>. QED
    BY <1>1, <2>1 DEF JoinedAt
<1>6. \/ /\ Beside(Rim2, t.c, t.b)
         /\ t.kind = 1 => Beside(Rim2, Roof(t), t.b) /\ Beside(Rim2, Roof(t), t.c)
      \/ \E u \in tris : OnBC(t, u, o)
  <2>1. CASE Beside(Rim, t.b, t.c)
    <3>1. PICK L \in Rim : t.b \in L /\ t.c \in L
      BY <2>1 DEF Beside
    <3>2. PICK K \in Rim2 : Closes(L, K, 2 * m - n, n - m)
      OBVIOUS
    <3>3. t.kind = 1 => /\ Size(Sub(t.c, Toward(t.b, t.c)), 2 * m - n, n - m)
                        /\ Roof(t) = Toward(t.b, t.c)
      BY <1>2, Splits DEF Roof
    <3>4. t.b \in K /\ t.c \in K /\ (t.kind = 1 => Roof(t) \in K)
      BY <3>1, <3>2, <3>3 DEF Closes
    <3>. QED
      BY <3>2, <3>4 DEF Beside
  <2>. QED
    BY <1>1, <2>1 DEF JoinedAt
<1>7. Beside(Rim2, t.c, t.a) \/ \E u \in tris : OnAC(t, u, o)
  BY <1>1 DEF JoinedAt, Beside, Closes
<1>8. /\ Small(t).a = Roof(t) /\ Small(t).b = Mid(t) /\ Small(t).c = Tip(t)
      /\ Big(t).a = Mid(t) /\ Big(t).b = Roof(t) /\ Big(t).c = Root(t)
      /\ Face(t).a = Peak(t) /\ Face(t).b = t.c /\ Face(t).c = t.a
  BY DEF Small, Big, Face, Tri
<1>9. \A u, v : Beside(Rim2, u, v) => Beside(Rim2, v, u)
  BY DEF Beside
<1>10. /\ t.kind = 0 => Root(t) = t.a /\ Tip(t) = t.b /\ Roof(t) = t.c
       /\ t.kind = 1 => Root(t) = t.b /\ Tip(t) = t.a /\ Peak(t) = Roof(t)
       /\ t.kind \in {0, 1}
  BY <1>3 DEF Root, Tip, Roof, Peak, Tile
<1>11. OnAB(Small(t), Big(t), h) /\ OnAB(Big(t), Small(t), h)
  BY <1>3, Siblings
<1>12. t.kind = 1 => OnAC(Small(t), Face(t), h) /\ OnAC(Face(t), Small(t), o)
  BY <1>3, Siblings
<1>13. \A u \in tris : OnAB(t, u, o) =>
         OnBC(Small(t), Small(u), h) /\ OnAC(Big(t), Big(u), h)
  BY <1>2, <1>3, AcrossAB
<1>14. \A u \in tris : OnAC(t, u, o) => OnBC(Face(t), Face(u), o)
  BY <1>2, <1>3, AcrossAC
<1>15. \A u \in tris : OnBC(t, u, o) =>
         /\ t.kind = 0 => OnAC(Small(t), Small(u), h)
         /\ t.kind = 1 => OnBC(Big(t), Big(u), h) /\ OnAB(Face(t), Face(u), o)
  BY <1>2, <1>3, AcrossBC
<1> HIDE DEF h, all
<1>16. JoinedAt(all, Rim2, Small(t), h)
  <2>1. Beside(Rim2, Mid(t), Tip(t)) \/ \E u \in all : OnBC(Small(t), u, h)
    BY <1>2, <1>5, <1>13
  <2>2. Beside(Rim2, Roof(t), Tip(t)) \/ \E u \in all : OnAC(Small(t), u, h)
    BY <1>2, <1>6, <1>10, <1>12, <1>15
  <2>. QED
    BY <1>2, <1>4, <1>8, <1>11, <2>1, <2>2 DEF JoinedAt
<1>17. t.kind = 1 => JoinedAt(all, Rim2, Face(t), o)
  <2>1. Beside(Rim2, t.c, t.a) \/ \E u \in all : OnBC(Face(t), u, o)
    BY <1>2, <1>7, <1>14
  <2>2. t.kind = 1 => Beside(Rim2, Peak(t), t.c) \/ \E u \in all : OnAB(Face(t), u, o)
    BY <1>2, <1>6, <1>10, <1>15
  <2>. QED
    BY <1>2, <1>4, <1>8, <1>12, <2>1, <2>2 DEF JoinedAt
<1>18. JoinedAt(all, Rim2, Big(t), h)
  <2>1. Beside(Rim2, Mid(t), Root(t)) \/ \E u \in all : OnAC(Big(t), u, h)
    BY <1>2, <1>5, <1>13
  <2>2. CASE t.kind = 0
    <3>1. Face(t) = Big(t) /\ h = o
      BY <1>3, <2>2, HalvesAre DEF h, Hand
    <3>2. Beside(Rim2, Roof(t), Root(t)) \/ \E u \in all : OnBC(Big(t), u, h)
      BY <1>2, <1>7, <1>10, <1>14, <2>2, <3>1
    <3>. QED
      BY <1>2, <1>4, <1>8, <1>11, <2>1, <3>2 DEF JoinedAt
  <2>3. CASE t.kind = 1
    <3>1. Beside(Rim2, Roof(t), Root(t)) \/ \E u \in all : OnBC(Big(t), u, h)
      BY <1>2, <1>6, <1>10, <1>15, <2>3
    <3>. QED
      BY <1>2, <1>4, <1>8, <1>11, <2>1, <3>1 DEF JoinedAt
  <2>. QED
    BY <1>10, <2>2, <2>3
<1>. QED
  BY <1>3, <1>10, <1>16, <1>17, <1>18, HalvesAre DEF all

Far(r) == {v \in Point : Norm2(v) >= r}

\* Culling opens gaps outside its radius only.
LEMMA CullJoined ==
  ASSUME NEW tris \in SUBSET Tile, NEW Rim, Joined(tris, Rim),
         \E K \in Rim : Far(CullR2) \subseteq K
  PROVE  Joined(Cull(tris), Rim)
<1> SUFFICES ASSUME NEW t \in Cull(tris)
             PROVE  \E o \in {1, -1} : JoinedAt(Cull(tris), Rim, t, o)
  BY DEF Joined
<1>1. PICK o \in {1, -1} : JoinedAt(tris, Rim, t, o)
  BY DEF Joined, Cull
<1>2. \A u \in tris : u \in Cull(tris) \/ \A v \in Corners(u) : v \in Far(CullR2)
  <2> SUFFICES ASSUME NEW u \in tris, u \notin Cull(tris), NEW v \in Corners(u)
               PROVE  v \in Far(CullR2)
    OBVIOUS
  <2>1. R2(u) \in Int /\ R2(u) <= Norm2(v) /\ v \in Point
    BY R2Facts
  <2>2. ~(R2(u) <= CullR2)
    BY DEF Cull
  <2>. QED
    BY <2>1, <2>2, NormInt, PenroseAssumption DEF Far
<1>3. \A u \in tris : \A v, w \in Corners(u) : u \in Cull(tris) \/ Beside(Rim, v, w)
  BY <1>2 DEF Beside
<1>4. \A u \in tris : OnBC(t, u, o) => t.b \in Corners(u) /\ t.c \in Corners(u)
  BY DEF OnBC, Corners
<1>5. \A u \in tris : OnAC(t, u, o) => t.a \in Corners(u) /\ t.c \in Corners(u)
  BY DEF OnAC, Corners
<1>6. \A u \in tris : OnAB(t, u, o) => t.a \in Corners(u) /\ t.b \in Corners(u)
  BY DEF OnAB, Corners, Root, Tip
<1>. QED
  BY <1>1, <1>3, <1>4, <1>5, <1>6 DEF JoinedAt

LEMMA SpinPhi ==
  ASSUME NEW v \in Point, NEW o \in {1, -1}
  PROVE  /\ Spin(o, TimesPhi(v)) = TimesPhi(Spin(o, v))
         /\ Spin3(o, TimesPhi(v)) = TimesPhi(Spin3(o, v))
<1>1. \A w \in Point : Turn(TimesPhi(w)) = TimesPhi(Turn(w))
  BY Unit
<1>2. \A w \in Point : Back(TimesPhi(w)) = TimesPhi(Back(w))
  BY DEF Back, TimesPhi, Point
<1>3. \A w \in Point : Spin(o, TimesPhi(w)) = TimesPhi(Spin(o, w)) /\ Spin(o, w) \in Point
  BY <1>1, <1>2, SpinClosed DEF Spin
<1>. QED
  BY <1>3 DEF Spin3

\* Scaling keeps neighbours together; a rim has to follow it only where there are corners.
LEMMA ScaleJoined ==
  ASSUME NEW tris \in SUBSET Tile, NEW Rim, Joined(tris, Rim), NEW Rim2,
         \A L \in Rim : \E K \in Rim2 :
           \A t \in tris : \A v \in Corners(t) \cap L : TimesPhi(v) \in K
  PROVE  Joined(ScaleTiles(tris), Rim2)
<1> SUFFICES ASSUME NEW t \in tris
             PROVE  \E o \in {1, -1} : JoinedAt(ScaleTiles(tris), Rim2, Scaled(t), o)
  BY DEF Joined, ScaleTiles, Scaled
<1>1. PICK o \in {1, -1} : JoinedAt(tris, Rim, t, o)
  BY DEF Joined
<1>2. \A u \in tris : /\ Scaled(u) \in ScaleTiles(tris) /\ u \in Tile
                      /\ u.a \in Point /\ u.b \in Point /\ u.c \in Point /\ u.kind \in {0, 1}
  BY DEF ScaleTiles, Scaled, Tile
<1>3. \A u : /\ Scaled(u).kind = u.kind /\ Scaled(u).a = TimesPhi(u.a)
             /\ Scaled(u).b = TimesPhi(u.b) /\ Scaled(u).c = TimesPhi(u.c)
             /\ Root(Scaled(u)) = TimesPhi(Root(u)) /\ Tip(Scaled(u)) = TimesPhi(Tip(u))
  BY DEF Scaled, Tri, Root, Tip
<1>4. /\ \A u, v \in Point : Sub(TimesPhi(u), TimesPhi(v)) = TimesPhi(Sub(u, v))
      /\ \A u, v \in Point : Add(TimesPhi(u), TimesPhi(v)) = TimesPhi(Add(u, v))
  BY DEF Sub, Add, TimesPhi, Point
<1>5. ASSUME NEW u \in tris, NEW i \in {1, -1}, Opens(u, i)
      PROVE  Opens(Scaled(u), i)
  <2>1. Sub(u.b, u.a) \in Point
    BY <1>2, Closed
  <2>2. /\ Sub(Scaled(u).c, Scaled(u).a) = TimesPhi(Sub(u.c, u.a))
        /\ Sub(Scaled(u).b, Scaled(u).a) = TimesPhi(Sub(u.b, u.a))
    BY <1>2, <1>3, <1>4
  <2>3. /\ Spin(i, TimesPhi(Sub(u.b, u.a))) = TimesPhi(Spin(i, Sub(u.b, u.a)))
        /\ Spin3(i, TimesPhi(Sub(u.b, u.a))) = TimesPhi(Spin3(i, Sub(u.b, u.a)))
    BY <2>1, SpinPhi
  <2>. QED
    BY <1>3, <1>5, <2>2, <2>3 DEF Opens
<1>6. 0 - o \in {1, -1}
  OBVIOUS
<1>7. \A u \in tris : OnBC(t, u, o) => OnBC(Scaled(t), Scaled(u), o)
  <2> SUFFICES ASSUME NEW u \in tris, OnBC(t, u, o) PROVE OnBC(Scaled(t), Scaled(u), o)
    OBVIOUS
  <2>1. Opens(Scaled(u), 0 - o)
    BY <1>5, <1>6 DEF OnBC
  <2>2. Add(t.b, t.c) \in Point
    BY <1>2, Closed
  <2>3. TimesPhi(Sub(Add(t.b, t.c), t.a)) = Sub(Add(TimesPhi(t.b), TimesPhi(t.c)), TimesPhi(t.a))
    BY <1>2, <1>4, <2>2
  <2>. QED
    BY <1>3, <2>1, <2>3 DEF OnBC
<1>8. \A u \in tris : OnAC(t, u, o) => OnAC(Scaled(t), Scaled(u), o)
  BY <1>3, <1>5, <1>6 DEF OnAC
<1>9. \A u \in tris : OnAB(t, u, o) => OnAB(Scaled(t), Scaled(u), o)
  BY <1>3, <1>5, <1>6 DEF OnAB
<1>10. \A v, w \in Corners(t) : Beside(Rim, v, w) => Beside(Rim2, TimesPhi(v), TimesPhi(w))
  BY DEF Beside
<1>11. t.a \in Corners(t) /\ t.b \in Corners(t) /\ t.c \in Corners(t)
  BY DEF Corners
<1>12. Opens(Scaled(t), o)
  BY <1>1, <1>5 DEF JoinedAt
<1>13. /\ Beside(Rim2, Scaled(t).b, Scaled(t).c)
            \/ \E u \in ScaleTiles(tris) : OnBC(Scaled(t), u, o)
       /\ Beside(Rim2, Scaled(t).a, Scaled(t).c)
            \/ \E u \in ScaleTiles(tris) : OnAC(Scaled(t), u, o)
       /\ Beside(Rim2, Scaled(t).a, Scaled(t).b)
            \/ \E u \in ScaleTiles(tris) : OnAB(Scaled(t), u, o)
  BY <1>1, <1>2, <1>3, <1>7, <1>8, <1>9, <1>10, <1>11 DEF JoinedAt
<1>. QED
  BY <1>12, <1>13 DEF JoinedAt

\* In the middle of the screen, nothing is on a rim that keeps clear of it.
LEMMA JoinedIsGlued ==
  ASSUME NEW tris \in SUBSET Tile, NEW Rim, Joined(tris, Rim), NEW t \in tris, NEW r \in Int,
         \A L \in Rim : L \subseteq Far(r),
         \A v \in Corners(t) : Norm2(v) < r
  PROVE  Tri(t.kind, Sub(Add(t.b, t.c), t.a), t.b, t.c) \in tris
<1>1. PICK o \in {1, -1} : JoinedAt(tris, Rim, t, o)
  BY DEF Joined
<1>2. t.b \in Point /\ Norm2(t.b) < r /\ Norm2(t.b) \in Int
  BY NormInt DEF Corners, Tile
<1>3. ~Beside(Rim, t.b, t.c)
  BY <1>2 DEF Beside, Far
<1>4. PICK u \in tris : OnBC(t, u, o)
  BY <1>1, <1>3 DEF JoinedAt
<1>5. u = Tri(u.kind, u.a, u.b, u.c)
  BY DEF Tile, Tri
<1>. QED
  BY <1>4, <1>5 DEF OnBC

-----------------------------------------------------------------------------
(* The rim of the first wheel: the chords between the points on it.        *)

\* Sets of points that keep clear of the middle of the screen however edges between them
\* are split.
Clear == {L \in SUBSET Far(904000) : \A x, y \in L : Toward(x, y) \in L}

LEMMA ChordIsClear ==
  \E L \in Clear : Wheel(0) \in L /\ Wheel(1) \in L
<1> DEFINE L == {v \in Point : v[3] = 0 /\ v[1] + v[2] = 1}
<1>1. ASSUME NEW v \in L PROVE v \in Far(904000)
  <2>1. PICK p \in Int, j \in Int, r \in Int, k \in Int : v = <<p, j, r, k>>
    BY DEF Point
  <2>2. r = 0 /\ p = 1 - j
    BY <2>1
  <2> DEFINE n == Norm2(v)
             l == 2000000 * k + 1236066 * j - 618033
  <2>3. n = 1000000 - 381967 * j + 381967 * (j * j) + 1000000 * (k * k) + 1236066 * (j * k)
            - 618033 * k
    BY <2>1, <2>2 DEF Norm2
  <2>4. 4000000 * n = l * l + 8843644 * (j * j - j) + 3618035210911
    BY <2>3
  <2>5. l \in Int /\ n \in Int
    BY <2>3
  <2>6. l * l >= 0 /\ j * j - j >= 0 /\ l * l \in Int /\ j * j \in Int
    <3>1. \A i \in Int : i * i >= 0 /\ i * i \in Int /\ i * i >= i
      OBVIOUS
    <3> HIDE DEF l
    <3>. QED
      BY <2>5, <3>1
  <2> HIDE DEF l, n
  <2>7. n >= 904000
    BY <2>4, <2>5, <2>6
  <2>. QED
    BY <2>7 DEF Far, n
<1>2. ASSUME NEW x \in L, NEW y \in L PROVE Toward(x, y) \in L
  <2>1. PICK p \in Int, q \in Int, r \in Int, k \in Int : x = <<p, q, r, k>>
    BY DEF Point
  <2>2. PICK i \in Int, j \in Int, l \in Int, m \in Int : y = <<i, j, l, m>>
    BY DEF Point
  <2>3. r = 0 /\ l = 0 /\ p = 1 - q /\ i = 1 - j
    BY <2>1, <2>2
  <2> DEFINE d == Sub(y, x)
  <2>4. d = <<q - j, j - q, 0, m - k>>
    BY <2>1, <2>2, <2>3 DEF Sub
  <2>5. Toward(x, y) = Add(x, Sub(TimesPhi(d), d)) /\ Toward(x, y) \in Point
    BY Closed DEF Toward
  <2> HIDE DEF d
  <2>6. TimesPhi(d) = <<k - m, m - k, 0, m - k - q + j>>
    BY <2>4 DEF TimesPhi
  <2>7. Sub(TimesPhi(d), d) = <<k - m - q + j, m - k - j + q, 0, j - q>>
    BY <2>4, <2>6 DEF Sub
  <2>8. Toward(x, y) = <<1 + k - m - 2 * q + j, m - k - j + 2 * q, 0, k + j - q>>
    BY <2>1, <2>3, <2>5, <2>7 DEF Add
  <2>. QED
    BY <2>5, <2>8
<1>3. Wheel(0) = <<1, 0, 0, 0>> /\ Wheel(1) = <<0, 1, 0, 0>>
  BY DEF Wheel
<1>4. Wheel(0) \in L /\ Wheel(1) \in L
  BY <1>3 DEF Point
<1>5. L \in Clear
  BY <1>1, <1>2 DEF Clear
<1>. QED
  BY <1>4, <1>5

LEMMA TurnedIsClear ==
  ASSUME NEW L \in Clear
  PROVE  {v \in Point : Turn(v) \in L} \in Clear
<1>1. ASSUME NEW v \in Point, Turn(v) \in L PROVE v \in Far(904000)
  <2>1. Norm2(Turn(v)) = Norm2(v)
    <3>1. Size(v, A(v), B(v))
      BY DEF Size
    <3>2. A(Turn(v)) = A(v) /\ B(Turn(v)) = B(v) /\ Turn(v) \in Point
      BY <3>1, TurnSize DEF Size
    <3>. QED
      BY <3>2, NormInt
  <2>. QED
    BY <1>1, <2>1 DEF Clear, Far
<1>2. ASSUME NEW x \in Point, NEW y \in Point
      PROVE  Turn(Toward(x, y)) = Toward(Turn(x), Turn(y))
  <2>1. /\ \A u, v \in Point : Turn(Sub(u, v)) = Sub(Turn(u), Turn(v))
        /\ \A u, v \in Point : Turn(Add(u, v)) = Add(Turn(u), Turn(v))
    BY DEF Turn, Add, Sub, Point
  <2>2. Sub(y, x) \in Point /\ TimesPhi(Sub(y, x)) \in Point
        /\ Sub(TimesPhi(Sub(y, x)), Sub(y, x)) \in Point
    BY Closed
  <2>3. Turn(TimesPhi(Sub(y, x))) = TimesPhi(Turn(Sub(y, x)))
    BY <2>2, Unit
  <2>. QED
    BY <2>1, <2>2, <2>3 DEF Toward
<1>3. \A x, y \in {v \in Point : Turn(v) \in L} : Toward(x, y) \in {v \in Point : Turn(v) \in L}
  BY <1>2, Closed DEF Clear
<1>. QED
  BY <1>1, <1>3 DEF Clear

LEMMA WheelTurns ==
  /\ \A i \in 0..11 : Wheel(i) \in Point
  /\ \A i \in 0..10 : Sub(Wheel(i), Origin) = Wheel(i) /\ Turn(Wheel(i)) = Wheel(i + 1)
                      /\ Back(Wheel(i + 1)) = Wheel(i)
  /\ Wheel(10) = Wheel(0) /\ Wheel(11) = Wheel(1)
<1> DEFINE W(p, q, r, x) == <<p, q, r, x>>
<1>1. /\ Wheel(0) = W(1, 0, 0, 0) /\ Wheel(1) = W(0, 1, 0, 0) /\ Wheel(2) = W(0, 0, 1, 0)
      /\ Wheel(3) = W(0, 0, 0, 1) /\ Wheel(4) = W(-1, 1, -1, 1)
  BY DEF Wheel
<1>2. /\ Wheel(5) = W(-1, 0, 0, 0) /\ Wheel(6) = W(0, -1, 0, 0) /\ Wheel(7) = W(0, 0, -1, 0)
      /\ Wheel(8) = W(0, 0, 0, -1) /\ Wheel(9) = W(1, -1, 1, -1) /\ Wheel(10) = W(1, 0, 0, 0)
      /\ Wheel(11) = W(0, 1, 0, 0)
  BY DEF Wheel, Sub, Origin
<1>3. \A i \in 0..11 : Wheel(i) \in Point
  BY <1>1, <1>2 DEF Point
<1>4. \A i \in 0..10 : Sub(Wheel(i), Origin) = Wheel(i)
  BY <1>1, <1>2 DEF Sub, Origin
<1>5. \A i \in 0..10 : Turn(Wheel(i)) = Wheel(i + 1)
  BY <1>1, <1>2 DEF Turn
<1>6. \A i \in 0..10 : Back(Wheel(i + 1)) = Wheel(i)
  BY <1>1, <1>2 DEF Back
<1>. QED
  BY <1>1, <1>2, <1>3, <1>4, <1>5, <1>6

LEMMA RimIsClear == \A i \in 0..9 : Beside(Clear, Wheel(i), Wheel(i + 1))
<1> DEFINE E(v) == Beside(Clear, v, Turn(v))
<1>1. ASSUME NEW v \in Point, E(Turn(v)) PROVE E(v)
  <2>1. PICK L \in Clear : Turn(v) \in L /\ Turn(Turn(v)) \in L
    BY <1>1 DEF Beside
  <2>. QED
    BY <2>1, Closed, TurnedIsClear DEF Beside
<1>2. /\ Turn(Wheel(9)) = Wheel(0) /\ Turn(Wheel(8)) = Wheel(9) /\ Turn(Wheel(7)) = Wheel(8)
      /\ Turn(Wheel(6)) = Wheel(7) /\ Turn(Wheel(5)) = Wheel(6) /\ Turn(Wheel(4)) = Wheel(5)
      /\ Turn(Wheel(3)) = Wheel(4) /\ Turn(Wheel(2)) = Wheel(3) /\ Turn(Wheel(1)) = Wheel(2)
      /\ Turn(Wheel(0)) = Wheel(1)
  BY WheelTurns
<1>3. E(Wheel(0))
  BY <1>2, ChordIsClear DEF Beside
<1>4. \A i \in 0..9 : Wheel(i) \in Point
  BY WheelTurns
<1> HIDE DEF E
<1>5. E(Wheel(9)) /\ E(Wheel(8)) /\ E(Wheel(7))
  BY <1>1, <1>2, <1>3, <1>4
<1>6. E(Wheel(6)) /\ E(Wheel(5)) /\ E(Wheel(4))
  BY <1>1, <1>2, <1>4, <1>5
<1>7. E(Wheel(3)) /\ E(Wheel(2)) /\ E(Wheel(1))
  BY <1>1, <1>2, <1>4, <1>6
<1>8. \A i \in 0..9 : E(Wheel(i))
  BY <1>3, <1>5, <1>6, <1>7
<1>. QED
  BY <1>8, WheelTurns DEF E

\* The wheel has no gap but its rim.
LEMMA SeedJoined == Joined(Seed, Clear)
<1> DEFINE T(i) == IF i % 2 = 0 THEN Tri(0, Origin, Wheel(i + 1), Wheel(i))
                                ELSE Tri(0, Origin, Wheel(i), Wheel(i + 1))
           sense(i) == IF i % 2 = 0 THEN -1 ELSE 1
<1>1. /\ Seed = {T(i) : i \in 0..9}
      /\ \A i \in 0..9 : /\ sense(i) \in {1, -1} /\ T(i) \in Seed
                         /\ T(i).kind = 0 /\ T(i).a = Origin
                         /\ i % 2 = 0 => T(i).b = Wheel(i + 1) /\ T(i).c = Wheel(i)
                         /\ i % 2 # 0 => T(i).b = Wheel(i) /\ T(i).c = Wheel(i + 1)
                         /\ i % 2 = 0 => sense(i) = -1
                         /\ i % 2 # 0 => sense(i) = 1
  BY DEF Seed, Tri
<1> HIDE DEF T, sense
<1>2. \A i \in 0..9 : Opens(T(i), sense(i))
  BY <1>1, WheelTurns DEF Opens, Spin
<1>3. \A i \in 0..9 : \E j \in 0..9 : (j % 2 = 0 <=> i % 2 # 0)
                       /\ Wheel(j) = Wheel(i + 1) /\ Wheel(j + 1) = Wheel(i + 2)
  <2> SUFFICES ASSUME NEW i \in 0..9
               PROVE  \E j \in 0..9 : (j % 2 = 0 <=> i % 2 # 0)
                        /\ Wheel(j) = Wheel(i + 1) /\ Wheel(j + 1) = Wheel(i + 2)
    OBVIOUS
  <2>1. CASE i = 9
    BY <2>1, WheelTurns
  <2>2. CASE i < 9
    <3>1. i + 1 \in 0..9 /\ ((i + 1) % 2 = 0 <=> i % 2 # 0) /\ (i + 1) + 1 = i + 2
      BY <2>2
    <3>. QED
      BY <3>1
  <2>. QED
    BY <2>1, <2>2
<1>4. \A i \in 0..9 : \E j \in 0..9 : (j % 2 = 0 <=> i % 2 # 0) /\ Wheel(j + 1) = Wheel(i)
  <2> SUFFICES ASSUME NEW i \in 0..9
               PROVE  \E j \in 0..9 : (j % 2 = 0 <=> i % 2 # 0) /\ Wheel(j + 1) = Wheel(i)
    OBVIOUS
  <2>1. CASE i = 0
    BY <2>1, WheelTurns
  <2>2. CASE i > 0
    <3>1. i - 1 \in 0..9 /\ ((i - 1) % 2 = 0 <=> i % 2 # 0) /\ (i - 1) + 1 = i
      BY <2>2
    <3>. QED
      BY <3>1
  <2>. QED
    BY <2>1, <2>2
<1>5. ASSUME NEW i \in 0..9 PROVE JoinedAt(Seed, Clear, T(i), sense(i))
  <2>1. Beside(Clear, T(i).b, T(i).c)
    BY <1>1, RimIsClear DEF Beside
  <2>2. PICK j \in 0..9 : (j % 2 = 0 <=> i % 2 # 0) /\ Wheel(j) = Wheel(i + 1)
    BY <1>3
  <2>3. PICK k \in 0..9 : (k % 2 = 0 <=> i % 2 # 0) /\ Wheel(k + 1) = Wheel(i)
    BY <1>4
  <2>4. sense(j) = 0 - sense(i) /\ sense(k) = 0 - sense(i)
    BY <1>1, <2>2, <2>3
  <2>5. Opens(T(j), 0 - sense(i)) /\ Opens(T(k), 0 - sense(i))
    BY <1>2, <2>4
  <2>6. CASE i % 2 = 0
    <3>1. OnAC(T(i), T(k), sense(i)) /\ OnAB(T(i), T(j), sense(i))
      BY <1>1, <2>2, <2>3, <2>5, <2>6 DEF OnAC, OnAB, Root, Tip
    <3>. QED
      BY <1>1, <1>2, <2>1, <3>1 DEF JoinedAt
  <2>7. CASE i % 2 # 0
    <3>1. OnAC(T(i), T(j), sense(i)) /\ OnAB(T(i), T(k), sense(i))
      BY <1>1, <2>2, <2>3, <2>5, <2>7 DEF OnAC, OnAB, Root, Tip
    <3>. QED
      BY <1>1, <1>2, <2>1, <3>1 DEF JoinedAt
  <2>. QED
    BY <2>6, <2>7
<1>. QED
  BY <1>1, <1>5 DEF Joined

-----------------------------------------------------------------------------
(* Conjugates.  The norm used for radii grows with the golden ratio only where the *)
(* conjugate of a point is short: that of a corner is, as zooming in divides it by  *)
(* the golden ratio.                                                        *)

C(v) == 1000000 * A(v) - 618033 * B(v)

LEMMA ConjugatePositive ==
  ASSUME NEW v \in Point
  PROVE  C(v) \in Int /\ C(v) >= 0
<1>1. PICK p \in Int, q \in Int, r \in Int, x \in Int : v = <<p, q, r, x>>
  BY DEF Point
<1> DEFINE s1 == C(v)
           l1 == 2000000 * p - 618033 * q - 1618033 * r + 1618033 * x
           l2 == 3618035210911 * q - 2236063789089 * r - 2236068210911 * x
           l3 == 7236066 * r + 1381967 * x
           s2 == 3618035210911 * (q * q) - 4472127578178 * (q * r) - 4472136421822 * (q * x)
                 + 1381969210911 * (r * r) + 2763929578178 * (r * x) + 1381969210911 * (x * x)
           s3 == 3618033 * (r * r) + 1381967 * (r * x) + 1381967 * (x * x)
<1>2. 14472132 * s3 = l3 * l3 + 18090176054555 * (x * x)
  OBVIOUS
<1>3. 3618035210911 * s2 = l2 * l2 + 8843644000000 * s3
  OBVIOUS
<1>4. 4000000 * s1 = l1 * l1 + s2
  BY <1>1 DEF C, A, B, Mixed
<1>5. /\ l1 * l1 >= 0 /\ l2 * l2 >= 0 /\ l3 * l3 >= 0 /\ x * x >= 0
      /\ l1 * l1 \in Int /\ l2 * l2 \in Int /\ l3 * l3 \in Int /\ x * x \in Int
  <2>1. \A n \in Int : n * n >= 0 /\ n * n \in Int
    OBVIOUS
  <2>2. l1 \in Int /\ l2 \in Int /\ l3 \in Int
    OBVIOUS
  <2> HIDE DEF l1, l2, l3
  <2>. QED
    BY <2>1, <2>2
<1>6. s1 \in Int /\ s2 \in Int /\ s3 \in Int
  BY <1>1 DEF C, A, B, Mixed
<1> HIDE DEF s1, s2, s3, l1, l2, l3
<1>7. s3 >= 0
  BY <1>2, <1>5, <1>6
<1>8. s2 >= 0
  BY <1>3, <1>5, <1>6, <1>7
<1>9. s1 >= 0
  BY <1>4, <1>5, <1>6, <1>8
<1>. QED
  BY <1>6, <1>9 DEF s1

\* How much longer a point can be than one near it, and its conjugate.
LEMMA Weighted ==
  ASSUME NEW u \in Point, NEW v \in Point
  PROVE  /\ 2 * Norm2(u) <= 3 * Norm2(v) + 6 * Norm2(Sub(u, v))
         /\ 2 * C(u) <= 3 * C(v) + 6 * C(Sub(u, v))
         /\ Norm2(Sub(v, u)) = Norm2(Sub(u, v)) /\ C(Sub(v, u)) = C(Sub(u, v))
<1> DEFINE d == Sub(u, v)  w == Sub(Sub(v, d), d)  e == Sub(v, u)
<1>1. d \in Point /\ w \in Point /\ e \in Point
  BY Closed
<1>2. A(d) = A(e) /\ B(d) = B(e)
  BY SMT DEF A, B, Mixed, Sub, Point
<1>3. A(w) + 2 * A(u) = 3 * A(v) + 6 * A(d)
  <2>1. PICK p \in Int, q \in Int, r \in Int, s \in Int : u = <<p, q, r, s>>
    BY DEF Point
  <2>2. PICK i \in Int, j \in Int, k \in Int, l \in Int : v = <<i, j, k, l>>
    BY DEF Point
  <2>3. /\ d = <<p - i, q - j, r - k, s - l>>
        /\ w = <<3 * i - 2 * p, 3 * j - 2 * q, 3 * k - 2 * r, 3 * l - 2 * s>>
    BY <2>1, <2>2 DEF Sub
  <2>. QED
    BY <2>1, <2>2, <2>3, SMT DEF A, Mixed
<1>4. B(w) + 2 * B(u) = 3 * B(v) + 6 * B(d)
  BY SMT DEF B, Mixed, Sub, Point
<1>5. \A x \in {u, v, d, w} : A(x) \in Int /\ B(x) \in Int
  BY <1>1 DEF A, B, Mixed, Point
<1> HIDE DEF d, w, e
<1>6. Norm2(w) >= 0 /\ C(w) >= 0
  BY <1>1, NormPositive, ConjugatePositive
<1>7. \A x \in {u, v, d, e, w} : Norm2(x) = 1000000 * A(x) + 1618033 * B(x)
  BY <1>1, NormInt
<1>8. /\ 2 * Norm2(u) <= 3 * Norm2(v) + 6 * Norm2(d)
      /\ 2 * C(u) <= 3 * C(v) + 6 * C(d)
  BY <1>3, <1>4, <1>5, <1>6, <1>7, SMT DEF C
<1>9. Norm2(e) = Norm2(d) /\ C(e) = C(d)
  BY <1>2, <1>7 DEF C
<1>. QED
  BY <1>8, <1>9 DEF d, e

\* What is known of a vector is known of its norm and of its conjugate.
LEMMA SizeNorm ==
  ASSUME NEW v \in Point, NEW m \in Int, NEW n \in Int, Size(v, m, n)
  PROVE  Norm2(v) = 1000000 * m + 1618033 * n /\ C(v) = 1000000 * m - 618033 * n
BY NormInt DEF Size, C

\* One promotion, from the corners of the fine generation to those of the coarse one.
LEMMA PhiWindow ==
  ASSUME NEW v \in Point, C(v) <= 150000000 + 3 * Norm2(v)
  PROVE  /\ TimesPhi(v) \in Point
         /\ C(TimesPhi(v)) <= 60000000 + Norm2(TimesPhi(v))
         /\ Norm2(v) >= 904000 => Norm2(TimesPhi(v)) >= 2350000
<1>1. Size(v, A(v), B(v))
  BY DEF Size
<1>2. /\ A(TimesPhi(v)) = A(v) + B(v) /\ B(TimesPhi(v)) = A(v) + 2 * B(v)
      /\ TimesPhi(v) \in Point
  BY <1>1, PhiSize DEF Size
<1>3. A(v) \in Int /\ B(v) \in Int
  BY DEF A, B, Mixed, Point
<1>4. /\ Norm2(v) = 1000000 * A(v) + 1618033 * B(v) /\ Norm2(v) >= 0
      /\ Norm2(TimesPhi(v)) = 1000000 * A(TimesPhi(v)) + 1618033 * B(TimesPhi(v))
  BY <1>2, NormInt, NormPositive
<1>. QED
  BY <1>2, <1>3, <1>4, SMT DEF C

\* A corner of a half is near a corner of the whole.
LEMMA HalfCorner ==
  ASSUME NEW m \in Int, NEW n \in Int, NEW s, HalfRhomb(s, m, n),
         NEW t \in Halves(s), NEW v \in Corners(t)
  PROVE  /\ v \in Point
         /\ \E w \in Corners(s) :
              /\ w \in Point
              /\ \/ w = v
                 \/ /\ 2 * C(v) <= 3 * C(w) + 6 * (1000000 * (2 * m - n) - 618033 * (n - m))
                    /\ 2 * Norm2(w)
                         <= 3 * Norm2(v) + 6 * (1000000 * (2 * m - n) + 1618033 * (n - m))
<1>1. s \in Tile /\ t \in Tile
  BY HalvesAre DEF HalfRhomb
<1>2. PICK w \in Corners(s) : w = v \/ Size(Sub(w, v), 2 * m - n, n - m)
  BY HalvesNear
<1>3. w \in Point /\ v \in Point
  BY <1>1, R2Facts
<1>4. ASSUME NEW i \in Int, NEW j \in Int, Size(Sub(w, v), i, j)
      PROVE  /\ 2 * C(v) <= 3 * C(w) + 6 * (1000000 * i - 618033 * j)
             /\ 2 * Norm2(w) <= 3 * Norm2(v) + 6 * (1000000 * i + 1618033 * j)
  <2>1. Sub(w, v) \in Point
    BY <1>3, Closed
  <2>2. Norm2(Sub(w, v)) = 1000000 * i + 1618033 * j /\ C(Sub(w, v)) = 1000000 * i - 618033 * j
    BY <1>4, <2>1, SizeNorm
  <2>3. /\ 2 * Norm2(w) <= 3 * Norm2(v) + 6 * Norm2(Sub(w, v))
        /\ 2 * C(v) <= 3 * C(w) + 6 * C(Sub(v, w)) /\ C(Sub(v, w)) = C(Sub(w, v))
    BY <1>3, Weighted
  <2>. QED
    BY <2>2, <2>3
<1>5. 2 * m - n \in Int /\ n - m \in Int
  OBVIOUS
<1>. QED
  BY <1>2, <1>3, <1>4, <1>5

\* The conjugates of corners are short,
Window(tris) == \A t \in tris : \A v \in Corners(t) : C(v) <= 60000000 + Norm2(v)

\* as they are in the beginning,
LEMMA FirstWindow == Window(Subdivide(Subdivide(Seed)))
<1>1. \A t \in Seed : \A v \in Corners(t) : C(v) <= 1000000
  <2> SUFFICES ASSUME NEW t \in Seed, NEW v \in Corners(t) PROVE C(v) <= 1000000
    OBVIOUS
  <2>1. t.a = Origin
    BY DEF Seed, Tri
  <2>2. Size(Sub(t.b, t.a), 1, 0) /\ Size(Sub(t.c, t.a), 1, 0) /\ t.b \in Point /\ t.c \in Point
    BY SeedShape DEF Generation, HalfRhomb, Legs, Tile
  <2>3. \A u \in Point : Sub(u, Origin) = u
    BY DEF Sub, Origin, Point
  <2>4. Size(Origin, 0, 0)
    <3>1. Origin \in Point
      BY DEF Origin, Point
    <3>2. A(Origin) = 0 /\ B(Origin) = 0
      BY DEF A, B, Mixed, Origin
    <3>. QED
      BY <3>1, <3>2 DEF Size
  <2>5. v = Origin \/ v = t.b \/ v = t.c
    BY <2>1 DEF Corners
  <2>6. Size(v, 1, 0) \/ Size(v, 0, 0)
    BY <2>1, <2>2, <2>3, <2>4, <2>5
  <2>. QED
    BY <2>6 DEF C, Size
<1>2. Generation(Seed, 1, 0) /\ Generation(Subdivide(Seed), 2, -1)
  BY SeedShape, SubdivideShape
<1>3. \A t \in Subdivide(Seed) : \A v \in Corners(t) : C(v) <= 9400000
  <2> SUFFICES ASSUME NEW s \in Seed, NEW t \in Halves(s), NEW v \in Corners(t)
               PROVE  C(v) <= 9400000
    BY DEF Subdivide
  <2>1. HalfRhomb(s, 1, 0)
    BY <1>2 DEF Generation
  <2>2. PICK w \in Corners(s) :
          w \in Point /\ (w = v \/ 2 * C(v) <= 3 * C(w) + 15708198) /\ v \in Point
    BY <2>1, HalfCorner
  <2>3. C(v) \in Int /\ C(w) \in Int /\ C(w) <= 1000000
    BY <1>1, <2>2, ConjugatePositive
  <2>. QED
    BY <2>2, <2>3
<1>4. \A t \in Subdivide(Subdivide(Seed)) : \A v \in Corners(t) :
        C(v) <= 60000000 + Norm2(v)
  <2> SUFFICES ASSUME NEW s \in Subdivide(Seed), NEW t \in Halves(s), NEW v \in Corners(t)
               PROVE  C(v) <= 60000000 + Norm2(v)
    BY DEF Subdivide
  <2>1. HalfRhomb(s, 2, -1)
    BY <1>2 DEF Generation
  <2>2. PICK w \in Corners(s) :
          w \in Point /\ (w = v \/ 2 * C(v) <= 3 * C(w) + 41124594) /\ v \in Point
    BY <2>1, HalfCorner
  <2>3. /\ C(v) \in Int /\ C(w) \in Int /\ C(w) <= 9400000
        /\ Norm2(v) \in Int /\ Norm2(v) >= 0
    BY <1>3, <2>2, ConjugatePositive, NormPositive
  <2>. QED
    BY <2>2, <2>3
<1>. QED
  BY <1>4 DEF Window

\* and a promotion keeps them: the fine generation is within reach of the coarse one.
LEMMA FineWindow ==
  ASSUME NEW tris, Generation(tris, 5, -3), Window(tris),
         NEW t \in Subdivide(tris), NEW v \in Corners(t)
  PROVE  v \in Point /\ C(v) <= 150000000 + 3 * Norm2(v)
<1>1. PICK s \in tris : t \in Halves(s)
  BY DEF Subdivide
<1>2. HalfRhomb(s, 5, -3)
  BY DEF Generation
<1>3. PICK w \in Corners(s) :
        /\ w \in Point /\ v \in Point
        /\ w = v \/ /\ 2 * C(v) <= 3 * C(w) + 107665584
                    /\ 2 * Norm2(w) <= 3 * Norm2(v) + 334416
  BY <1>1, <1>2, HalfCorner
<1>4. /\ C(v) \in Int /\ C(w) \in Int /\ C(w) <= 60000000 + Norm2(w)
      /\ Norm2(v) \in Int /\ Norm2(v) >= 0 /\ Norm2(w) \in Int
  BY <1>3, ConjugatePositive, NormPositive DEF Window
<1>. QED
  BY <1>3, <1>4

-----------------------------------------------------------------------------
(* The rims of the three generations.                                      *)

LEMMA RimWeaker ==
  ASSUME NEW tris, NEW Rim, Joined(tris, Rim), NEW Rim2, Rim \subseteq Rim2
  PROVE  Joined(tris, Rim2)
<1>1. \A x, y : Beside(Rim, x, y) => Beside(Rim2, x, y)
  BY DEF Beside
<1>. QED
  BY <1>1 DEF Joined, JoinedAt

\* Splitting an edge leads inwards by less than its half.
LEMMA FarCloses ==
  ASSUME NEW m \in Int, NEW n \in Int, NEW r \in Int, NEW s \in Int
  PROVE  s <= r /\ 3 * s <= 2 * r - 6 * (1000000 * m + 1618033 * n)
           => Closes(Far(r), Far(s), m, n)
<1>1. \A x, y \in Point : Toward(x, y) \in Point
  BY Closed
<1>2. \A v \in Point : Norm2(v) \in Int
  BY NormInt
<1>3. ASSUME NEW x \in Point, NEW z \in Point, Size(Sub(x, z), m, n)
      PROVE  2 * Norm2(x) <= 3 * Norm2(z) + 6 * (1000000 * m + 1618033 * n)
  <2>1. Sub(x, z) \in Point
    BY <1>3 DEF Size
  <2>2. Norm2(Sub(x, z)) = 1000000 * m + 1618033 * n
    BY <1>3, <2>1, SizeNorm
  <2>3. 2 * Norm2(x) <= 3 * Norm2(z) + 6 * Norm2(Sub(x, z))
    BY Weighted
  <2>. QED
    BY <2>2, <2>3
<1> HAVE s <= r /\ 3 * s <= 2 * r - 6 * (1000000 * m + 1618033 * n)
<1>4. \A x, z \in Point : Norm2(x) >= r /\ Size(Sub(x, z), m, n) => Norm2(z) >= s
  BY <1>2, <1>3
<1>5. \A x \in Point : Norm2(x) >= r => Norm2(x) >= s
  BY <1>2
<1>. QED
  BY <1>1, <1>4, <1>5 DEF Closes, Far

CoarseRim == Clear \cup {Far(2350000)}
FineRim == Clear \cup {Far(1455000)}
NextRim == Clear \cup {Far(927000)}

LEMMA RimsClose ==
  /\ \A m, n : \A L \in Clear : Closes(L, L, m, n)
  /\ Closes(Far(2350000), Far(1455000), 13, -8)
  /\ Closes(Far(1455000), Far(927000), 34, -21)
  /\ \A L \in CoarseRim \cup FineRim \cup NextRim : L \subseteq Far(904000)
  /\ \A L \in CoarseRim \cup FineRim \cup NextRim : L \subseteq Far(900000)
  /\ WideEnough => \A r \in {2350000, 1455000, 927000} : Far(CullR2) \subseteq Far(r)
<1>1. \A m, n : \A L \in Clear : Closes(L, L, m, n)
  BY DEF Closes, Clear
<1>2. Closes(Far(2350000), Far(1455000), 13, -8)
  BY FarCloses
<1>3. Closes(Far(1455000), Far(927000), 34, -21)
  BY FarCloses
<1>4. \A v \in Point : Norm2(v) \in Int
  BY NormInt
<1>5. /\ \A r \in {2350000, 1455000, 927000, 904000} : Far(r) \subseteq Far(904000)
      /\ Far(904000) \subseteq Far(900000)
  BY <1>4 DEF Far
<1>6. WideEnough => \A r \in {2350000, 1455000, 927000} : Far(CullR2) \subseteq Far(r)
  BY <1>4, PenroseAssumption DEF WideEnough, Far
<1>7. \A L \in CoarseRim \cup FineRim \cup NextRim : L \subseteq Far(904000)
  BY <1>5 DEF CoarseRim, FineRim, NextRim, Clear
<1>. QED
  BY <1>1, <1>2, <1>3, <1>5, <1>6, <1>7

\* From one generation to the next finer one.
LEMMA FinerJoined ==
  ASSUME WideEnough, NEW tris, NEW r, NEW s, NEW m, NEW n, Generation(tris, m, n),
         <<m, n, r, s>> \in {<<5, -3, 2350000, 1455000>>, <<13, -8, 1455000, 927000>>},
         Joined(tris, Clear \cup {Far(r)})
  PROVE  Joined(Cull(Subdivide(tris)), Clear \cup {Far(s)})
<1> DEFINE k == 2 * m - n  j == n - m
<1>1. Closes(Far(r), Far(s), k, j)
  BY RimsClose
<1>2. \A L \in Clear \cup {Far(r)} : \E K \in Clear \cup {Far(s)} : Closes(L, K, k, j)
  BY <1>1, RimsClose
<1>3. Joined(Subdivide(tris), Clear \cup {Far(s)})
  BY <1>2, SubdivideJoined
<1>4. Generation(Subdivide(tris), k, j)
  BY SubdivideShape
<1>5. Subdivide(tris) \in SUBSET Tile
  BY <1>4 DEF Generation, HalfRhomb
<1>6. Far(CullR2) \subseteq Far(s)
  BY RimsClose
<1>. QED
  BY <1>3, <1>5, <1>6, CullJoined

-----------------------------------------------------------------------------
(* The inductive invariant of gluing.                                      *)

\* The coarse generation has no gap but on its rims, which zooming drives outwards.
Gapless == Window(coarse) /\ Joined(coarse, CoarseRim)

LEMMA GaplessFirst ==
  ASSUME WideEnough, Init
  PROVE  Gapless
<1>1. Generation(Seed, 1, 0) /\ Generation(Subdivide(Seed), 2, -1)
      /\ Generation(Subdivide(Subdivide(Seed)), 5, -3)
  <2>1. Generation(Subdivide(Seed), 2, -1)
    BY SeedShape, SubdivideShape
  <2>. QED
    BY <2>1, SeedShape, SubdivideShape
<1>2. \A m, n : \A L \in Clear : \E K \in Clear : Closes(L, K, m, n)
  BY RimsClose
<1>3. Joined(Subdivide(Seed), Clear)
  BY <1>1, <1>2, SeedJoined, SubdivideJoined
<1>4. Joined(Subdivide(Subdivide(Seed)), Clear)
  BY <1>1, <1>2, <1>3, SubdivideJoined
<1>5. Clear \subseteq CoarseRim /\ Far(2350000) \in CoarseRim
  BY DEF CoarseRim
<1>6. Joined(Subdivide(Subdivide(Seed)), CoarseRim)
  BY <1>4, <1>5, RimWeaker
<1>7. Subdivide(Subdivide(Seed)) \in SUBSET Tile
  BY <1>1 DEF Generation, HalfRhomb
<1>8. Far(CullR2) \subseteq Far(2350000)
  BY RimsClose
<1>9. Joined(Cull(Subdivide(Subdivide(Seed))), CoarseRim)
  BY <1>5, <1>6, <1>7, <1>8, CullJoined
<1>. QED
  BY <1>9, FirstWindow DEF Init, Gapless, Window, Cull

LEMMA GaplessPromoted ==
  ASSUME WideEnough, Shape, Derived, Gapless, Refine(Promoted)
  PROVE  Gapless'
<1>1. coarse' = Cull(ScaleTiles(fine)) /\ fine = Cull(Subdivide(coarse))
  BY DEF Refine, Promoted, Derived
<1>2. Joined(fine, FineRim) /\ Generation(coarse, 5, -3) /\ fine \in SUBSET Tile
  BY <1>1, FinerJoined DEF Shape, Gapless, CoarseRim, FineRim, Generation, HalfRhomb
<1>3. \A t \in fine : \A v \in Corners(t) : v \in Point /\ C(v) <= 150000000 + 3 * Norm2(v)
  BY <1>1, <1>2, FineWindow DEF Gapless, Cull
<1>4. \A t \in fine : \A v \in Corners(t) :
        /\ TimesPhi(v) \in Point
        /\ C(TimesPhi(v)) <= 60000000 + Norm2(TimesPhi(v))
        /\ Norm2(v) >= 904000 => TimesPhi(v) \in Far(2350000)
  BY <1>3, PhiWindow DEF Far
<1>5. Window(ScaleTiles(fine))
  BY <1>4 DEF Window, ScaleTiles, Corners, Tri
<1>6. \A L \in FineRim : \E K \in CoarseRim :
        \A t \in fine : \A v \in Corners(t) \cap L : TimesPhi(v) \in K
  <2>1. Far(2350000) \in CoarseRim /\ \A L \in FineRim : \A v \in L : Norm2(v) >= 904000
    BY RimsClose DEF CoarseRim, Far
  <2>. QED
    BY <1>4, <2>1
<1>7. Joined(ScaleTiles(fine), CoarseRim)
  BY <1>2, <1>6, ScaleJoined
<1>8. ScaleTiles(fine) \in SUBSET Tile
  <2>1. Generation(fine, 13, -8)
    BY DEF Shape
  <2>2. Generation(ScaleTiles(fine), 13 + (-8), 13 + 2 * (-8))
    BY <2>1, ScaleShape
  <2>. QED
    BY <2>2 DEF Generation, HalfRhomb
<1>9. Joined(Cull(ScaleTiles(fine)), CoarseRim)
  BY <1>7, <1>8, RimsClose, CullJoined DEF CoarseRim
<1>. QED
  BY <1>1, <1>5, <1>9 DEF Gapless, Window, Cull

LEMMA GaplessGivesGlued == WideEnough /\ Shape /\ Derived /\ Gapless => Glued
<1> SUFFICES ASSUME WideEnough, Shape, Derived, Gapless PROVE Glued
  OBVIOUS
<1>1. Joined(fine, FineRim)
  BY FinerJoined DEF Shape, Derived, Gapless, CoarseRim, FineRim
<1>2. Joined(nextFine, NextRim)
  BY <1>1, FinerJoined DEF Shape, Derived, FineRim, NextRim
<1>3. coarse \in SUBSET Tile /\ fine \in SUBSET Tile /\ nextFine \in SUBSET Tile
  BY DEF Shape, Generation, HalfRhomb
<1>4. ASSUME NEW tris \in SUBSET Tile, NEW Rim, Joined(tris, Rim),
             \A L \in Rim : L \subseteq Far(900000),
             NEW t \in tris, \A v \in Corners(t) : Norm2(v) < 900000
      PROVE  Tri(t.kind, Sub(Add(t.b, t.c), t.a), t.b, t.c) \in tris
  BY <1>4, JoinedIsGlued
<1>5. /\ \A L \in CoarseRim : L \subseteq Far(900000)
      /\ \A L \in FineRim : L \subseteq Far(900000)
      /\ \A L \in NextRim : L \subseteq Far(900000)
  BY RimsClose
<1>6. \A tris \in {coarse, fine, nextFine} : \A t \in tris :
        (\A v \in Corners(t) : Norm2(v) < 900000) =>
          Tri(t.kind, Sub(Add(t.b, t.c), t.a), t.b, t.c) \in tris
  BY <1>1, <1>2, <1>3, <1>4, <1>5 DEF Gapless
<1>. QED
  BY <1>6 DEF Glued

\* Every half-rhomb in the middle of the screen has its other half, in all three
\* generations and however long the zoom has been going on: for every radius of culling
\* that leaves a margin around the screen.
THEOREM TilesAreGlued ==
  ASSUME WideEnough
  PROVE  Spec => []Glued
<1>1. Init => Gapless
  BY GaplessFirst
<1>2. Gapless /\ Shape /\ Derived /\ [Next]_vars => Gapless'
  <2> SUFFICES ASSUME Gapless, Shape, Derived, [Next]_vars PROVE Gapless'
    OBVIOUS
  <2>1. coarse' = coarse \/ Refine(Promoted)
    BY DEF Next, Advance, vars
  <2>. QED
    BY <2>1, GaplessPromoted DEF Gapless, Window
<1>3. Shape /\ Derived /\ Gapless => Glued
  BY GaplessGivesGlued
<1>. QED
  BY <1>1, <1>2, <1>3, ShapeInductive, DerivedInductive, PTL DEF Spec
=============================================================================
