-------------------------- MODULE PenroseAnimator ---------------------------
(***************************************************************************)
(* tui/sprite/penrose.rs: an endless zoom into a Penrose tiling.  Three     *)
(* generations of half-rhombs are kept; while the camera zooms in by the    *)
(* golden ratio, the coarsest fades out and the finest fades in, and when   *)
(* the factor is reached every generation takes the place of the one        *)
(* before it.                                                               *)
(*                                                                         *)
(* The code computes in f32; here a corner is an exact element a + bz + czz *)
(* + dzzz of the ring of z = exp(i pi/5), in which the golden ratio is a    *)
(* unit, so that subdividing and scaling never leave it.  The common        *)
(* rotation SEED_ROT is left out.  Squared radii are in millionths, fades   *)
(* in thousandths.  The dots a line covers are not modelled: a line is      *)
(* looked at as a whole.                                                    *)
(***************************************************************************)
EXTENDS Integers, FiniteSets

CONSTANTS
  Paces,     (* what dt / step_secs may be, in 40ths: bounds the model      *)
  CullR2     (* CULL_R, squared, in millionths                              *)

ASSUME PenroseAssumption == Paces \subseteq Nat /\ CullR2 \in Nat

\* Bound: tau is counted in 40ths of a cycle.
Steps == 40

VARIABLES coarse, fine, nextFine, tau

vars == <<coarse, fine, nextFine, tau>>

-----------------------------------------------------------------------------
(* Points.                                                                 *)

Point == [1..4 -> Int]
Add(u, v) == <<u[1] + v[1], u[2] + v[2], u[3] + v[3], u[4] + v[4]>>
Sub(u, v) == <<u[1] - v[1], u[2] - v[2], u[3] - v[3], u[4] - v[4]>>
TimesPhi(v) == <<v[1] + v[2] - v[4], v[3] + v[4], v[1] + v[2], v[3] + v[4] - v[1]>>

\* lerp(a, b, IPHI); 1/phi is phi - 1.
Toward(a, b) == Add(a, Sub(TimesPhi(Sub(b, a)), Sub(b, a)))

\* |v|^2 = m + n phi, in millionths, with phi from below: so this is a norm.
Norm2(v) ==
  LET d == v[1] * v[3] + v[2] * v[4] - v[1] * v[4]
  IN  1000000 * (v[1] * v[1] + v[2] * v[2] + v[3] * v[3] + v[4] * v[4] - d)
        + 1618033 * (v[1] * v[2] + v[2] * v[3] + v[3] * v[4] + d)

Origin == <<0, 0, 0, 0>>
\* The k-th of the ten points of the unit wheel.
Wheel(k) ==
  LET half == << <<1, 0, 0, 0>>, <<0, 1, 0, 0>>, <<0, 0, 1, 0>>, <<0, 0, 0, 1>>,
                 <<-1, 1, -1, 1>> >>
  IN  IF k % 10 < 5 THEN half[(k % 10) + 1] ELSE Sub(Origin, half[(k % 10) - 4])

-----------------------------------------------------------------------------
(* Tiles: kind 0 is half a thin rhomb, kind 1 half a thick one.            *)

Tri(kind, a, b, c) == [kind |-> kind, a |-> a, b |-> b, c |-> c]
Corners(t) == {t.a, t.b, t.c}
\* Tri.r2: the corner next to the centre.
R2(t) ==
  LET least(x, y) == IF x < y THEN x ELSE y
  IN  least(Norm2(t.a), least(Norm2(t.b), Norm2(t.c)))

\* Mutant: the wedges are not mirrored.
SeedUnmirrored == {Tri(0, Origin, Wheel(i), Wheel(i + 1)) : i \in 0..9}
Seed ==
  {IF i % 2 = 0 THEN Tri(0, Origin, Wheel(i + 1), Wheel(i))
                ELSE Tri(0, Origin, Wheel(i), Wheel(i + 1)) : i \in 0..9}

Halves(t) ==
  IF t.kind = 0
  THEN LET p == Toward(t.a, t.b)
       IN  {Tri(0, t.c, p, t.b), Tri(1, p, t.c, t.a)}
  ELSE LET q == Toward(t.b, t.a)
           r == Toward(t.b, t.c)
       IN  {Tri(1, r, t.c, t.a), Tri(1, q, r, t.b), Tri(0, r, q, t.a)}
Subdivide(tris) == UNION {Halves(t) : t \in tris}

\* Mutant: everything is kept.
KeepAll(tris) == tris
Cull(tris) == {t \in tris : R2(t) <= CullR2}
ScaleTiles(tris) ==
  {Tri(t.kind, TimesPhi(t.a), TimesPhi(t.b), TimesPhi(t.c)) : t \in tris}

\* Mutant: the generation that is about to go is scaled up.
PromotedTooOld == Cull(ScaleTiles(coarse))
Promoted == Cull(ScaleTiles(fine))

Refine(c) ==
  LET f == Cull(Subdivide(c))
  IN  coarse' = c /\ fine' = f /\ nextFine' = Cull(Subdivide(f))

Init ==
  /\ coarse = Cull(Subdivide(Subdivide(Seed)))
  /\ fine = Cull(Subdivide(coarse))
  /\ nextFine = Cull(Subdivide(fine))
  /\ tau = 0

\* advance() and promote_generation(): a frame may zoom by half a cycle at most.
Advance(pace) ==
  LET t == tau + (IF pace > Steps \div 2 THEN Steps \div 2 ELSE pace)
  IN  IF t >= Steps
      THEN tau' = t - Steps /\ Refine(Promoted)
      ELSE tau' = t /\ UNCHANGED <<coarse, fine, nextFine>>

Next == \E pace \in Paces : Advance(pace)

Spec == Init /\ [][Next]_vars

-----------------------------------------------------------------------------
(* What a frame shows (render_edges_dot).                                  *)

\* phi^(-2k/40) in ten-thousandths: what the squared radius of the screen's circle
\* is in the model.
Shrink ==
  LET f[k \in 0..Steps] == IF k = 0 THEN 10000 ELSE (f[k - 1] * 9762) \div 10000
  IN  f

\* Mutant: without the margin of 1.05.
ExactR2(t) == 100 * Shrink[t]
VisR2(t) == (441 * Shrink[t]) \div 4

Visible(tris, t) == {x \in tris : R2(x) <= VisR2(t)}
\* draw_dot_tri_edges: the base B-C is inside a rhomb and is not drawn.
Lines(tris) == UNION {{{t.c, t.a}, {t.a, t.b}} : t \in tris}

\* Smoothstep of x/n, and the fades of the three layers.
Ease(x, n) == (x * x * (3 * n - 2 * x) * 1000) \div (n * n * n)
Clamp(x, lo, hi) == IF x < lo THEN lo ELSE IF x > hi THEN hi ELSE x

RevealDone == (Steps * 17) \div 20
RevealW(t) == Ease(Clamp(t, 0, RevealDone), RevealDone)
Revealed(t) == 3 * RevealW(t) >= 1000
\* fading_alpha: 0 at REVEAL_GATE = 1/3, full at FADE_ALPHA_FULL = 0.62.
FadingAlpha(w) == Clamp(((3 * w - 1000) * 1000) \div 860, 0, 1000)

\* Mutant: the coarse layer is held full until the promotion.
CoarseHeld(t) == 1000
CoarseFadeStart == (Steps * 3) \div 5
CoarseFadeOut(t) ==
  IF t <= CoarseFadeStart THEN 1000
  ELSE 1000 - Ease(t - CoarseFadeStart, Steps - CoarseFadeStart)

\* endpoint_trim_frac: what is cut off at both ends of a fading line.
EndpointTrim(w) ==
  LET w4   == ((w * w) \div 1000) * ((w * w) \div 1000)
      base == (380 * (1000 - w4 \div 1000)) \div 1000
  IN  IF w <= 850 THEN base
      ELSE IF w >= 970 THEN 0
      ELSE (base * (1000 - Ease((w - 850) \div 10, 12))) \div 1000

-----------------------------------------------------------------------------
(* Properties.                                                             *)

\* The phase stays within the cycle, also after a late frame.
TypeOK ==
  /\ tau \in 0..Steps - 1
  /\ \A tris \in {coarse, fine, nextFine} :
       tris \subseteq [kind : {0, 1}, a : Point, b : Point, c : Point]

\* The lists stay as short as the envelope needs, however often generations are
\* subdivided: culling keeps up with the zoom.
ShortLists ==
  Cardinality(coarse) <= 2000 /\ Cardinality(fine) <= 2000 /\ Cardinality(nextFine) <= 2000

\* "An exact identity" (docs/08): at a promotion the coarse and the fine layer show,
\* in the frame that follows, the very tiles that the fine and the next-finer one
\* would have shown, nothing on the screen having been culled; and with frames that
\* follow each other closely in the same light: the layer that is dropped has faded
\* out, the one that was fading in is complete and as bright as a settled one, and
\* the one that comes in does so from nothing.
Seamless ==
  [][tau' < tau =>
       /\ Visible(coarse', tau') = Visible(ScaleTiles(fine), tau')
       /\ Visible(fine', tau') = Visible(ScaleTiles(nextFine), tau')
       /\ tau' + Steps - tau = 1 =>
            /\ CoarseFadeOut(tau) <= 15 /\ CoarseFadeOut(tau') = 1000
            /\ FadingAlpha(RevealW(tau)) = 1000 /\ EndpointTrim(RevealW(tau)) = 0
            /\ ~Revealed(tau')]_vars

\* The triangles of each generation are halves of rhombs: every one in the middle of
\* the screen has its mirror image across the base that is not drawn.
Glued ==
  \A tris \in {coarse, fine, nextFine} : \A t \in tris :
    (\A v \in Corners(t) : Norm2(v) < 900000) =>
      LET apex == Sub(Add(t.b, t.c), t.a)
      IN  Tri(t.kind, apex, t.b, t.c) \in tris \/ Tri(t.kind, apex, t.c, t.b) \in tris

\* A line from u to v has an inner point within the circle of the screen.
Crosses(u, v, t) ==
  LET p == Norm2(u) \div 1000
      q == Norm2(v) \div 1000
      d == Norm2(Sub(v, u)) \div 1000
      s == (p + q - d) \div 2
  IN  s < p /\ s < q /\ p * q - s * s < (Shrink[t] \div 10) * d

\* No line is missing on the screen because the corners of its tile are all off it:
\* the margin of the visibility test makes up for lines that cut across the rim.
NoneMissing ==
  \A tris \in {coarse, fine, nextFine} : \A t \in tris :
    R2(t) > VisR2(tau) => ~Crosses(t.c, t.a, tau) /\ ~Crosses(t.a, t.b, tau)
=============================================================================
