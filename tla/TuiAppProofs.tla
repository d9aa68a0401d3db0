---------------------------- MODULE TuiAppProofs ----------------------------
(***************************************************************************)
(* Keys act on what is on the screen, the selection stays in the snapshot   *)
(* and the marked entry among the rows shown: for every table, length of    *)
(* snapshot, height of a bucket and set of keys.                            *)
(***************************************************************************)
EXTENDS TuiApp, FilterProofs, FiniteSetTheorems

\* What the last frame shows is what the application holds, unless something has
\* asked for another frame.  Whoever changes the one asks for the other, and the
\* loop does not wait for a key before it has drawn.
FrameInv ==
  /\ pc \in {"top", "draw", "poll", "quit"}
  /\ needData \in BOOLEAN /\ dirty \in BOOLEAN /\ focused \in BOOLEAN
  /\ pc = "top" => needData = FALSE
  /\ pc = "poll" => frame # NoFrame /\ dirty = FALSE /\ needData = FALSE
  /\ frame # NoFrame /\ dirty = FALSE /\ needData = FALSE =>
       frame.marked = Marked.id /\ frame.status = Marked.status /\ frame.sprite = sprite
  /\ sprite = SpriteState(entries)

\* What holds when a key arrives.
LEMMA AtPoll ==
  ASSUME FrameInv, pc = "poll"
  PROVE  /\ frame # NoFrame /\ dirty = FALSE /\ needData = FALSE
         /\ frame.marked = Marked.id /\ frame.status = Marked.status /\ frame.sprite = sprite
BY DEF FrameInv

LEMMA InitFrame ==
  ASSUME Init
  PROVE  FrameInv
<1>1. SpriteState(<<>>) = "Idle"
  BY DEF SpriteState, Has
<1>. QED
  BY <1>1 DEF Init, FrameInv

\* A key leaves the snapshot alone and asks for a frame, or changes nothing that
\* is shown.
LEMMA KeyFrame ==
  ASSUME FrameInv, Polled, focused' \in BOOLEAN, UNCHANGED frame,
         dirty' = TRUE \/ (dirty' = FALSE /\ UNCHANGED selected)
  PROVE  FrameInv'
<1>1. /\ pc = "poll" /\ pc' = "top" /\ UNCHANGED <<entries, sprite, needData>>
  BY DEF Polled
<1>2. CASE dirty' = TRUE
  BY <1>1, <1>2, AtPoll DEF FrameInv
<1>3. CASE dirty' = FALSE /\ UNCHANGED selected
  <2>1. Marked' = Marked
    BY <1>1, <1>3 DEF Marked
  <2>. QED
    BY <1>1, <1>3, <2>1, AtPoll DEF FrameInv
<1>. QED
  BY <1>2, <1>3

LEMMA NextFrame ==
  ASSUME FrameInv, Next
  PROVE  FrameInv'
<1>1. CASE Refresh
  <2>1. sprite' = SpriteState(entries')
    BY <1>1 DEF Refresh
  <2>2. pc' = "draw" /\ needData' = TRUE /\ UNCHANGED <<dirty, focused>>
    BY <1>1 DEF Refresh
  <2>. QED
    BY <2>1, <2>2 DEF FrameInv
<1>2. CASE NoRefresh
  <2>1. Marked' = Marked
    BY <1>2 DEF NoRefresh, appVars, Marked
  <2>. QED
    BY <1>2, <2>1 DEF NoRefresh, appVars, FrameInv
<1>3. CASE Draw
  <2>1. /\ pc' = "poll" /\ needData' = FALSE
        /\ UNCHANGED <<entries, selected, sprite, focused>>
    BY <1>3 DEF Draw, appVars
  <2>2. Marked' = Marked
    BY <2>1 DEF Marked
  <2>3. CASE MustDraw
    <3>1. /\ dirty' = FALSE /\ frame'.marked = Marked.id /\ frame'.status = Marked.status
          /\ frame'.sprite = sprite
      BY <1>3, <2>3 DEF Draw
    <3>2. sprite # "none"
      BY DEF FrameInv, SpriteState
    <3>3. frame' # NoFrame
      BY <3>1, <3>2 DEF NoFrame
    <3>. QED
      BY <2>1, <2>2, <3>1, <3>3 DEF FrameInv
  <2>4. CASE ~MustDraw
    <3>1. UNCHANGED <<frame, dirty>> /\ frame # NoFrame /\ needData = FALSE /\ dirty = FALSE
      BY <1>3, <2>4 DEF Draw, MustDraw, FrameInv
    <3>. QED
      BY <2>1, <2>2, <3>1 DEF FrameInv
  <2>. QED
    BY <2>3, <2>4
<1>4. CASE Ignore
  BY <1>4, AtPoll, KeyFrame DEF Ignore, Polled, FrameInv
<1>5. ASSUME NEW b \in BOOLEAN, Focus(b) PROVE FrameInv'
  BY <1>5, KeyFrame DEF Focus
<1>6. ASSUME NEW by, Select(by) PROVE FrameInv'
  BY <1>6, KeyFrame DEF Select, FrameInv
<1>7. CASE ToggleExpanded
  BY <1>7, KeyFrame DEF ToggleExpanded, FrameInv
<1>8. CASE DeleteSelected
  BY <1>8, KeyFrame DEF DeleteSelected, FrameInv
<1>9. CASE AttachSelected
  BY <1>9, KeyFrame DEF AttachSelected, FrameInv
<1>10. CASE Quit
  <2>1. Marked' = Marked
    BY <1>10 DEF Quit, appVars, Marked
  <2>. QED
    BY <1>10, <2>1 DEF Quit, appVars, loopVars, FrameInv
<1>11. CASE Others
  <2>1. Marked' = Marked
    BY <1>11 DEF Others, appVars, Marked
  <2>. QED
    BY <1>11, <2>1 DEF Others, appVars, loopVars, FrameInv
<1>. QED
  BY <1>1, <1>2, <1>3, <1>4, <1>5, <1>6, <1>7, <1>8, <1>9, <1>10, <1>11 DEF Next, Key

LEMMA StutterFrame ==
  ASSUME FrameInv, UNCHANGED vars
  PROVE  FrameInv'
<1>1. Marked' = Marked
  BY DEF vars, appVars, Marked
<1>. QED
  BY <1>1 DEF vars, appVars, loopVars, FrameInv

\* The frame on the screen agrees with the state that keys act on.
THEOREM FrameAgrees == Spec => []FrameInv
BY InitFrame, NextFrame, StutterFrame, PTL DEF Spec

\* A NeedsHelp entry of the snapshot is signalled by the animation while the loop
\* waits for a key (tui/run.rs, compute_sprite_state).
THEOREM HelpIsSignalled == Spec => []HelpSignalled
<1>1. FrameInv => HelpSignalled
  BY DEF FrameInv, HelpSignalled, SpriteState
<1>. QED
  BY <1>1, FrameAgrees, PTL

\* A key acts on the entry that the user sees marked, in the status that the user
\* sees (tui/run.rs, render_loop).
THEOREM KeysActOnFrame == Spec => ActsOnFrame
<1>1. ASSUME FrameInv, Next, act' \notin {act, NoAct}
      PROVE  /\ act'.id = frame.marked
             /\ act'.key = "d" => frame.status = "Queued"
             /\ act'.key = "t" => frame.status = "NeedsHelp"
  <2>1. \/ ToggleExpanded /\ act' = [key |-> " ", id |-> Marked.id]
        \/ DeleteSelected /\ Marked.status = "Queued" /\ act' = [key |-> "d", id |-> Marked.id]
        \/ AttachSelected /\ Marked.status = "NeedsHelp" /\ act' = [key |-> "t", id |-> Marked.id]
    <3>1. CASE ToggleExpanded
      BY <1>1, <3>1 DEF ToggleExpanded
    <3>2. CASE DeleteSelected
      BY <1>1, <3>2 DEF DeleteSelected
    <3>3. CASE AttachSelected
      BY <1>1, <3>3 DEF AttachSelected
    <3>. QED
      BY <1>1, <3>1, <3>2, <3>3 DEF Next, Key, Refresh, NoRefresh, Draw, Ignore, Focus, Select,
                                    Quit, Others
  <2>2. pc = "poll"
    BY <2>1 DEF ToggleExpanded, DeleteSelected, AttachSelected, Polled
  <2>3. frame.marked = Marked.id /\ frame.status = Marked.status
    BY <1>1, <2>2, AtPoll
  <2>4. CASE ToggleExpanded /\ act' = [key |-> " ", id |-> Marked.id]
    BY <2>3, <2>4
  <2>5. CASE Marked.status = "Queued" /\ act' = [key |-> "d", id |-> Marked.id]
    BY <2>3, <2>5
  <2>6. CASE Marked.status = "NeedsHelp" /\ act' = [key |-> "t", id |-> Marked.id]
    BY <2>3, <2>6
  <2>. QED
    BY <2>1, <2>4, <2>5, <2>6
<1>2. FrameInv /\ [Next]_vars =>
        [act' \notin {act, NoAct} => /\ act'.id = frame.marked
                                     /\ act'.key = "d" => frame.status = "Queued"
                                     /\ act'.key = "t" => frame.status = "NeedsHelp"]_vars
  BY <1>1
<1>. QED
  BY <1>2, FrameAgrees, PTL DEF Spec, ActsOnFrame

-----------------------------------------------------------------------------
(* The snapshot.                                                           *)


LEMMA TakeFacts ==
  ASSUME NEW C, NEW s \in Seq(C), NEW n \in Nat
  PROVE  /\ Take(s, n) \in Seq(C)
         /\ Len(Take(s, n)) = IF Len(s) > n THEN n ELSE Len(s)
         /\ \A i \in 1..Len(Take(s, n)) : Take(s, n)[i] = s[i]
<1> DEFINE m == IF Len(s) > n THEN n ELSE Len(s)
<1>1. m \in Nat /\ m <= Len(s) /\ \A i \in 1..m : s[i] \in C
  OBVIOUS
<1>2. /\ SubSeq(s, 1, m) \in Seq(C)
      /\ Len(SubSeq(s, 1, m)) = IF 1 <= m THEN m - 1 + 1 ELSE 0
      /\ \A i \in 1..m-1+1 : SubSeq(s, 1, m)[i] = s[1 + i - 1]
  <2> HIDE DEF m
  <2>. QED
    BY <1>1, SubSeqProperties
<1>3. Take(s, n) = SubSeq(s, 1, m)
  BY DEF Take
<1> HIDE DEF m
<1>4. Len(Take(s, n)) = m /\ \A i \in 1..m : Take(s, n)[i] = s[i]
  BY <1>1, <1>2, <1>3
<1>. QED
  BY <1>2, <1>3, <1>4 DEF m

\* A snapshot has at most as many rows as the list may show, each of an entry that
\* is in the table.
LEMMA SnapshotFacts ==
  Snapshot \in Seq(Rows) /\ Len(Snapshot) <= MaxVisible
<1> DEFINE all == [e \in Entries |-> e]
           cut == Take(Kept(all, Present), MaxVisible)
<1>1. all \in Seq(Entries)
  <2>1. N \in Nat
    BY TuiAssumption
  <2>. QED
    BY <2>1 DEF Entries
<1> HIDE DEF all
<1>2. Kept(all, Present) \in Seq(Entries) /\ ToSet(Kept(all, Present)) \subseteq Present
  BY <1>1, KeptProperties
<1>3. MaxVisible \in Nat
  BY TuiAssumption
<1>4. /\ cut \in Seq(Entries) /\ Len(cut) \in Nat /\ Len(cut) <= MaxVisible
      /\ \A i \in 1..Len(cut) : cut[i] \in Present
  <2> DEFINE k == Kept(all, Present)
  <2> HIDE DEF k
  <2>1. k \in Seq(Entries) /\ ToSet(k) \subseteq Present
    BY <1>2 DEF k
  <2>2. /\ Take(k, MaxVisible) \in Seq(Entries)
        /\ Len(Take(k, MaxVisible)) = IF Len(k) > MaxVisible THEN MaxVisible ELSE Len(k)
        /\ \A i \in 1..Len(Take(k, MaxVisible)) : Take(k, MaxVisible)[i] = k[i]
    BY <1>3, <2>1, TakeFacts
  <2>3. \A i \in 1..Len(k) : k[i] \in Present
    BY <2>1, InToSet
  <2>. QED
    BY <1>3, <2>1, <2>2, <2>3 DEF k
<1> HIDE DEF cut
<1>5. Snapshot = [i \in 1..Len(cut) |-> [id |-> cut[i], status |-> status[cut[i]]]]
  BY <1>4 DEF Snapshot, cut, all
<1>6. \A i \in 1..Len(cut) : [id |-> cut[i], status |-> status[cut[i]]] \in Rows
  BY <1>4 DEF Present, Rows
<1>. QED
  BY <1>4, <1>5, <1>6

-----------------------------------------------------------------------------
(* The rows of a bucket.                                                   *)

\* A sequence has no more different elements than it is long.
LEMMA ToSetBound ==
  ASSUME NEW C, NEW s \in Seq(C)
  PROVE  IsFiniteSet(ToSet(s)) /\ Cardinality(ToSet(s)) <= Len(s)
<1>1. s \in Surjection(1..Len(s), ToSet(s))
  BY DEF Surjection, ToSet
<1>2. IsFiniteSet(1..Len(s)) /\ Cardinality(1..Len(s)) = Len(s)
  <2>1. Len(s) \in Nat
    OBVIOUS
  <2>2. /\ IsFiniteSet(1..Len(s))
        /\ Cardinality(1..Len(s)) = IF 1 > Len(s) THEN 0 ELSE Len(s) - 1 + 1
    BY <2>1, FS_Interval
  <2>. QED
    BY <2>1, <2>2
<1>. QED
  BY <1>1, <1>2, FS_Surjection

LEMMA BucketFacts ==
  ASSUME entries \in Seq(Rows), NEW st
  PROVE  /\ Bucket(st) \in Seq(Entries)
         /\ \A i \in DOMAIN entries : entries[i].status = st => entries[i].id \in ToSet(Bucket(st))
<1> DEFINE k == Kept(entries, {e \in ToSet(entries) : e.status = st})
<1>1. k \in Seq(Rows) /\ ToSet(k) = {e \in ToSet(entries) : e.status = st}
  BY KeptProperties
<1>2. Bucket(st) = Ids(k)
  BY DEF Bucket
<1> HIDE DEF k
<1>3. Ids(k) \in Seq(Entries) /\ \A r \in ToSet(k) : r.id \in ToSet(Ids(k))
  <2>0. DOMAIN k = 1..Len(k) /\ \A i \in 1..Len(k) : k[i] \in Rows
    BY <1>1
  <2>1. Ids(k) = [i \in 1..Len(k) |-> k[i].id] /\ \A i \in 1..Len(k) : k[i].id \in Entries
    BY <2>0 DEF Ids, Rows
  <2>2. Ids(k) \in Seq(Entries)
    BY <1>1, <2>1
  <2>. QED
    BY <1>1, <2>1, <2>2 DEF ToSet
<1>4. \A i \in DOMAIN entries : entries[i] \in ToSet(entries)
  BY DEF ToSet
<1>. QED
  BY <1>1, <1>2, <1>3, <1>4

\* The marked row is among those shown of its bucket, and they are no more than fit.
LEMMA VisibleFacts ==
  ASSUME NEW bucket \in Seq(Entries), NEW marked
  PROVE  /\ VisibleRows(bucket, marked) \subseteq Entries
         /\ marked \in ToSet(bucket) => marked \in VisibleRows(bucket, marked)
         /\ IsFiniteSet(VisibleRows(bucket, marked))
         /\ Cardinality(VisibleRows(bucket, marked)) <= BucketRows
<1> DEFINE top == Take(bucket, BucketRows)
<1>0. BucketRows \in Nat /\ BucketRows >= 1 /\ Len(bucket) \in Nat
  <2>1. BucketRows \in Nat \ {0}
    BY TuiAssumption
  <2>. QED
    BY <2>1
<1>1. /\ top \in Seq(Entries) /\ Len(top) \in Nat
      /\ Len(top) = IF Len(bucket) > BucketRows THEN BucketRows ELSE Len(bucket)
      /\ \A i \in 1..Len(top) : top[i] = bucket[i]
  BY <1>0, TakeFacts
<1>2. VisibleRows(bucket, marked) =
        IF marked \in ToSet(bucket) \ ToSet(top) THEN ToSet(Front(top)) \cup {marked} ELSE ToSet(top)
  BY DEF VisibleRows
<1> HIDE DEF top
<1>3. ToSet(top) \subseteq Entries /\ ToSet(bucket) \subseteq Entries
  BY <1>1, InToSet
<1>4. IsFiniteSet(ToSet(top)) /\ Cardinality(ToSet(top)) \in Nat /\ Cardinality(ToSet(top)) <= Len(top)
  BY <1>1, ToSetBound, FS_CardinalityType
<1>5. CASE marked \in ToSet(bucket) \ ToSet(top)
  <2>1. Len(bucket) > BucketRows
    <3> SUFFICES ASSUME ~(Len(bucket) > BucketRows) PROVE FALSE
      OBVIOUS
    <3>1. PICK i \in 1..Len(bucket) : bucket[i] = marked
      BY <1>5, InToSet
    <3>2. i \in 1..Len(top) /\ top[i] = marked
      BY <1>1, <3>1
    <3>. QED
      BY <1>1, <1>5, <3>2, InToSet
  <2>2. Len(top) = BucketRows
    BY <1>1, <2>1
  <2>3. /\ Front(top) \in Seq(Entries) /\ Len(Front(top)) = BucketRows - 1
    <3>1. \A i \in 1..Len(top)-1 : top[i] \in Entries
      BY <1>1
    <3>2. /\ SubSeq(top, 1, Len(top) - 1) \in Seq(Entries)
          /\ Len(SubSeq(top, 1, Len(top) - 1)) = IF 1 <= Len(top) - 1 THEN Len(top) - 1 - 1 + 1 ELSE 0
      BY <1>1, <3>1, SubSeqProperties
    <3>. QED
      BY <1>0, <2>2, <3>2 DEF Front
  <2>4. /\ IsFiniteSet(ToSet(Front(top))) /\ Cardinality(ToSet(Front(top))) \in Nat
        /\ Cardinality(ToSet(Front(top))) <= BucketRows - 1
        /\ ToSet(Front(top)) \subseteq Entries
    BY <2>3, ToSetBound, FS_CardinalityType, InToSet
  <2>5. /\ IsFiniteSet(ToSet(Front(top)) \cup {marked})
        /\ Cardinality(ToSet(Front(top)) \cup {marked}) <= BucketRows
    <3> DEFINE F == ToSet(Front(top))
    <3> HIDE DEF F
    <3>1. /\ IsFiniteSet(F) /\ Cardinality(F) \in Nat /\ Cardinality(F) <= BucketRows - 1
      BY <2>4 DEF F
    <3>2. /\ IsFiniteSet(F \cup {marked})
          /\ Cardinality(F \cup {marked}) = IF marked \in F THEN Cardinality(F) ELSE Cardinality(F) + 1
      BY <3>1, FS_AddElement
    <3>3. Cardinality(F \cup {marked}) <= BucketRows
      BY <1>0, <3>1, <3>2
    <3>. QED
      BY <3>2, <3>3 DEF F
  <2>. QED
    BY <1>2, <1>3, <1>5, <2>4, <2>5
<1>6. CASE marked \notin ToSet(bucket) \ ToSet(top)
  BY <1>0, <1>1, <1>2, <1>3, <1>4, <1>6
<1>. QED
  BY <1>5, <1>6

LEMMA UnionBound ==
  ASSUME NEW S, NEW T, IsFiniteSet(S), IsFiniteSet(T)
  PROVE  IsFiniteSet(S \cup T) /\ Cardinality(S \cup T) <= Cardinality(S) + Cardinality(T)
<1>1. IsFiniteSet(S \cap T) /\ Cardinality(S \cap T) \in Nat
  BY FS_Intersection, FS_CardinalityType
<1>2. Cardinality(S) \in Nat /\ Cardinality(T) \in Nat
  BY FS_CardinalityType
<1>3. Cardinality(S \cup T) = Cardinality(S) + Cardinality(T) - Cardinality(S \cap T)
  BY FS_Union
<1>. QED
  BY <1>1, <1>2, <1>3, FS_Union

LEMMA AddNew ==
  ASSUME NEW S, NEW x, NEW n \in Nat, IsFiniteSet(S), Cardinality(S) = n, x \notin S
  PROVE  IsFiniteSet(S \cup {x}) /\ Cardinality(S \cup {x}) = n + 1
BY FS_AddElement

LEMMA FourBuckets == Cardinality(Buckets) = 4
<1> DEFINE b1 == {"Queued"}  b2 == b1 \cup {"Working"}  b3 == b2 \cup {"NeedsHelp"}
<1>1. IsFiniteSet(b1) /\ Cardinality(b1) = 1
  BY FS_Singleton
<1>2. "Working" \notin b1
  OBVIOUS
<1>6. "NeedsHelp" \notin b2
  OBVIOUS
<1>7. "Done" \notin b3
  OBVIOUS
<1>3. Buckets = b3 \cup {"Done"}
  BY DEF Buckets
<1> HIDE DEF b1
<1>4. IsFiniteSet(b2) /\ Cardinality(b2) = 1 + 1
  BY ONLY <1>1, <1>2, AddNew
<1> HIDE DEF b2
<1>5. IsFiniteSet(b3) /\ Cardinality(b3) = 2 + 1
  BY ONLY <1>4, <1>6, AddNew
<1> HIDE DEF b3
<1>8. Cardinality(b3 \cup {"Done"}) = 3 + 1
  BY ONLY <1>5, <1>7, AddNew
<1>. QED
  BY <1>3, <1>8

\* All buckets together have no more rows than fit into them.
LEMMA AllBuckets ==
  ASSUME NEW V, \A st \in Buckets : IsFiniteSet(V[st]) /\ Cardinality(V[st]) <= BucketRows
  PROVE  Cardinality(UNION {V[st] : st \in Buckets}) <= BucketRows * Cardinality(Buckets)
<1> DEFINE q == V["Queued"]  w == V["Working"]  h == V["NeedsHelp"]  d == V["Done"]
<1>1. UNION {V[st] : st \in Buckets} = ((q \cup w) \cup h) \cup d
  BY DEF Buckets
<1>2. /\ IsFiniteSet(q) /\ IsFiniteSet(w) /\ IsFiniteSet(h) /\ IsFiniteSet(d)
      /\ Cardinality(q) <= BucketRows /\ Cardinality(w) <= BucketRows
      /\ Cardinality(h) <= BucketRows /\ Cardinality(d) <= BucketRows
  BY DEF Buckets
<1> HIDE DEF q, w, h, d
<1>3. /\ IsFiniteSet(q \cup w)
      /\ Cardinality(q \cup w) <= Cardinality(q) + Cardinality(w)
  BY <1>2, UnionBound
<1>4. /\ IsFiniteSet((q \cup w) \cup h)
      /\ Cardinality((q \cup w) \cup h) <= Cardinality(q \cup w) + Cardinality(h)
  BY <1>2, <1>3, UnionBound
<1>5. /\ IsFiniteSet(((q \cup w) \cup h) \cup d)
      /\ Cardinality(((q \cup w) \cup h) \cup d) <= Cardinality((q \cup w) \cup h) + Cardinality(d)
  BY <1>2, <1>4, UnionBound
<1>6. /\ Cardinality(q) \in Nat /\ Cardinality(w) \in Nat /\ Cardinality(h) \in Nat
      /\ Cardinality(d) \in Nat /\ Cardinality(q \cup w) \in Nat
      /\ Cardinality((q \cup w) \cup h) \in Nat /\ Cardinality(((q \cup w) \cup h) \cup d) \in Nat
  BY <1>2, <1>3, <1>4, <1>5, FS_CardinalityType
<1>7. BucketRows \in Nat
  BY TuiAssumption
<1>8. Cardinality(((q \cup w) \cup h) \cup d) <= BucketRows * 4
  BY <1>2, <1>3, <1>4, <1>5, <1>6, <1>7
<1>. QED
  BY <1>1, <1>8, FourBuckets

-----------------------------------------------------------------------------
(* The selection and the screen.                                           *)

ScreenInv == TypeOK /\ SelectionInRange /\ MarkedIsShown

\* The marked entry is none, or one of the snapshot and in the bucket of its status.
LEMMA MarkedFacts ==
  ASSUME TypeOK
  PROVE  /\ Marked.id \in 0..N /\ Marked.status \in Buckets \cup {"none"}
         /\ Marked.id # 0 => /\ Marked.id \in Entries /\ Marked.status \in Buckets
                             /\ Marked.id \in ToSet(Ids(entries))
                             /\ Marked.id \in ToSet(Bucket(Marked.status))
         /\ Marked.status \in Buckets => Marked.id # 0
<1>1. N \in Nat /\ entries \in Seq(Rows)
  BY TuiAssumption DEF TypeOK, Rows
<1>2. CASE selected \in DOMAIN entries
  <2>1. Marked = entries[selected] /\ entries[selected] \in Rows
    BY <1>1, <1>2 DEF Marked
  <2>2. Marked.id \in Entries /\ Marked.status \in Buckets
    BY <2>1 DEF Rows
  <2>3. Marked.id \in ToSet(Ids(entries))
    BY <1>2, <2>1 DEF Ids, ToSet
  <2>4. Marked.id \in ToSet(Bucket(Marked.status))
    BY <1>1, <1>2, <2>1, BucketFacts
  <2>. QED
    BY <1>1, <2>2, <2>3, <2>4 DEF Entries
<1>3. CASE selected \notin DOMAIN entries
  BY <1>1, <1>3 DEF Marked, Buckets
<1>. QED
  BY <1>2, <1>3

\* A frame shows the marked entry, and no more rows than fit.
LEMMA DrawShows ==
  ASSUME TypeOK
  PROVE  LET rows == UNION {VisibleRows(Bucket(st), Marked.id) : st \in Buckets}
         IN  /\ rows \subseteq Entries
             /\ Marked.id # 0 => Marked.id \in rows
             /\ Cardinality(rows) <= BucketRows * Cardinality(Buckets)
<1> DEFINE V == [st \in Buckets |-> VisibleRows(Bucket(st), Marked.id)]
<1>1. entries \in Seq(Rows)
  BY DEF TypeOK, Rows
<1>2. \A st \in Buckets :
        /\ V[st] \subseteq Entries
        /\ Marked.id \in ToSet(Bucket(st)) => Marked.id \in V[st]
        /\ IsFiniteSet(V[st]) /\ Cardinality(V[st]) <= BucketRows
  BY <1>1, BucketFacts, VisibleFacts
<1>3. UNION {VisibleRows(Bucket(st), Marked.id) : st \in Buckets} = UNION {V[st] : st \in Buckets}
  OBVIOUS
<1> HIDE DEF V
<1>4. Cardinality(UNION {V[st] : st \in Buckets}) <= BucketRows * Cardinality(Buckets)
  BY <1>2, AllBuckets
<1>. QED
  BY <1>2, <1>3, <1>4, MarkedFacts

LEMMA InitScreen ==
  ASSUME Init
  PROVE  ScreenInv
<1>0. N \in Nat /\ MaxVisible \in Nat
  <2>1. MaxVisible \in Nat \ {0}
    BY TuiAssumption
  <2>. QED
    BY <2>1, TuiAssumption
<1>1. entries \in Seq(Rows) /\ Len(entries) <= MaxVisible
  BY <1>0 DEF Init
<1>3. NoFrame \in Frames /\ NoAct \in Acts
  BY DEF Frames, Acts
<1>4. status \in [Entries -> Buckets \cup {"Fresh", "Gone"}]
  BY DEF Init
<1>5. selected \in 0..MaxVisible /\ expanded \subseteq Entries
  BY <1>0 DEF Init
<1>6. /\ frame \in Frames /\ act \in Acts /\ sprite \in {"Idle", "Working", "NeedsHelp"}
      /\ pc \in {"top", "draw", "poll", "quit"}
      /\ needData \in BOOLEAN /\ dirty \in BOOLEAN /\ focused \in BOOLEAN
  BY <1>3 DEF Init
<1>7. TypeOK
  BY <1>1, <1>4, <1>5, <1>6 DEF TypeOK
<1>2. SelectionInRange /\ MarkedIsShown
  BY DEF Init, SelectionInRange, MarkedIsShown
<1>. QED
  BY <1>2, <1>7 DEF ScreenInv

LEMMA RefreshScreen ==
  ASSUME ScreenInv, Refresh
  PROVE  ScreenInv'
<1>1. /\ entries' = Snapshot /\ sprite' = SpriteState(entries') /\ selected' = Clamped(entries')
      /\ expanded' = expanded \cap ToSet(Ids(entries'))
      /\ needData' = TRUE /\ pc' = "draw" /\ act' = NoAct
      /\ UNCHANGED <<status, dirty, focused, frame>>
  BY DEF Refresh
<1>2. entries' \in Seq(Rows) /\ Len(entries') \in Nat /\ Len(entries') <= MaxVisible
  BY <1>1, SnapshotFacts
<1>3. MaxVisible \in Nat /\ selected \in Nat
  <2>1. MaxVisible \in Nat \ {0}
    BY TuiAssumption
  <2>2. selected \in 0..MaxVisible
    BY DEF ScreenInv, TypeOK
  <2>. QED
    BY <2>1, <2>2
<1>4. /\ selected' \in IF entries' = <<>> THEN {0} ELSE 1..Len(entries')
      /\ selected' \in 0..MaxVisible
  BY <1>1, <1>2, <1>3 DEF Clamped
<1>5. sprite' \in {"Idle", "Working", "NeedsHelp"}
  BY <1>1 DEF SpriteState
<1>6. TypeOK'
  <2>1. NoAct \in Acts
    BY DEF Acts
  <2>. QED
    BY <1>1, <1>2, <1>4, <1>5, <2>1 DEF ScreenInv, TypeOK
<1>7. SelectionInRange' /\ MarkedIsShown'
  BY <1>1, <1>4 DEF ScreenInv, SelectionInRange, MarkedIsShown
<1>. QED
  BY <1>6, <1>7 DEF ScreenInv

LEMMA DrawScreen ==
  ASSUME ScreenInv, Draw
  PROVE  ScreenInv'
<1> DEFINE rows == UNION {VisibleRows(Bucket(st), Marked.id) : st \in Buckets}
<1>1. /\ pc' = "poll" /\ needData' = FALSE
      /\ UNCHANGED <<status, entries, selected, expanded, sprite, focused, act>>
  BY DEF Draw, appVars
<1>2. /\ rows \subseteq Entries /\ (Marked.id # 0 => Marked.id \in rows)
      /\ Cardinality(rows) <= BucketRows * Cardinality(Buckets)
      /\ Marked.id \in 0..N /\ Marked.status \in Buckets \cup {"none"}
  BY DrawShows, MarkedFacts DEF ScreenInv
<1>3. \/ UNCHANGED <<frame, dirty>>
      \/ /\ frame' = [marked |-> Marked.id, status |-> Marked.status, sprite |-> sprite, rows |-> rows]
         /\ dirty' = FALSE
  BY DEF Draw
<1> HIDE DEF rows
<1>4. TypeOK'
  <2>1. sprite \in {"Idle", "Working", "NeedsHelp"} /\ frame \in Frames /\ dirty \in BOOLEAN
    BY DEF ScreenInv, TypeOK
  <2>2. [marked |-> Marked.id, status |-> Marked.status, sprite |-> sprite, rows |-> rows] \in Frames
    BY <1>2, <2>1 DEF Frames
  <2>3. frame' \in Frames /\ dirty' \in BOOLEAN
    BY <1>3, <2>1, <2>2
  <2>. QED
    BY <1>1, <2>3 DEF ScreenInv, TypeOK
<1>5. SelectionInRange'
  BY <1>1 DEF ScreenInv, SelectionInRange
<1>6. MarkedIsShown'
  BY <1>2, <1>3 DEF ScreenInv, MarkedIsShown
<1>. QED
  BY <1>4, <1>5, <1>6 DEF ScreenInv

\* A step that draws no frame and fetches no snapshot.
LEMMA OtherScreen ==
  ASSUME ScreenInv, TypeOK', UNCHANGED <<entries, frame>>,
         selected' \in IF entries = <<>> THEN {0} ELSE 1..Len(entries),
         expanded' \subseteq ToSet(Ids(entries))
  PROVE  ScreenInv'
BY DEF ScreenInv, SelectionInRange, MarkedIsShown

LEMMA SelectInRange ==
  ASSUME ScreenInv
  PROVE  entries # <<>> => {Down, Up} \subseteq 1..Len(entries)
<1>1. Len(entries) \in Nat
  <2>1. entries \in Seq(Rows)
    BY DEF ScreenInv, TypeOK
  <2>. QED
    BY <2>1
<1>. QED
  BY <1>1 DEF ScreenInv, SelectionInRange, Down, Up

LEMMA KeyScreen ==
  ASSUME ScreenInv, Ignore \/ Key
  PROVE  ScreenInv'
<1>0. /\ selected \in IF entries = <<>> THEN {0} ELSE 1..Len(entries)
      /\ expanded \subseteq ToSet(Ids(entries)) /\ TypeOK
  BY DEF ScreenInv, SelectionInRange
<1>1. CASE Ignore
  BY <1>0, <1>1, OtherScreen DEF Ignore, Polled, TypeOK
<1>2. ASSUME NEW b \in BOOLEAN, Focus(b) PROVE ScreenInv'
  BY <1>0, <1>2, OtherScreen DEF Focus, Polled, TypeOK
<1>3. ASSUME NEW by, Select(by) PROVE ScreenInv'
  <2>1. selected' \in IF entries = <<>> THEN {0} ELSE 1..Len(entries)
    BY <1>0, <1>3, SelectInRange DEF Select
  <2>2. selected' \in 0..MaxVisible
    <3>1. MaxVisible \in Nat \ {0}
      BY TuiAssumption
    <3>2. entries \in Seq(Rows) /\ Len(entries) <= MaxVisible
      BY <1>0 DEF TypeOK
    <3>3. Len(entries) \in Nat
      BY <3>2
    <3>. QED
      BY <2>1, <3>1, <3>2, <3>3
  <2>. QED
    BY <1>0, <1>3, <2>1, <2>2, OtherScreen DEF Select, Polled, TypeOK
<1>4. CASE ToggleExpanded
  <2>1. /\ Polled /\ dirty' = TRUE /\ UNCHANGED <<status, selected, focused, frame>>
        /\ \/ UNCHANGED <<expanded, act>>
           \/ /\ Marked.id # 0 /\ act' = [key |-> " ", id |-> Marked.id]
              /\ expanded' \subseteq expanded \cup {Marked.id}
    BY <1>4 DEF ToggleExpanded
  <2>2. TypeOK'
    <3>1. Marked.id # 0 => Marked.id \in Entries /\ [key |-> " ", id |-> Marked.id] \in Acts
      BY <1>0, MarkedFacts DEF Acts
    <3>2. expanded' \subseteq Entries /\ act' \in Acts
      BY <1>0, <2>1, <3>1 DEF TypeOK
    <3>. QED
      BY <1>0, <2>1, <3>2 DEF Polled, TypeOK
  <2>3. expanded' \subseteq ToSet(Ids(entries))
    BY <1>0, <2>1, MarkedFacts
  <2>. QED
    BY <1>0, <2>1, <2>2, <2>3, OtherScreen DEF Polled
<1>5. CASE DeleteSelected
  <2>1. /\ Polled /\ dirty' = TRUE /\ UNCHANGED <<selected, expanded, focused, frame>>
        /\ \/ UNCHANGED <<status, act>>
           \/ /\ Marked.status = "Queued" /\ act' = [key |-> "d", id |-> Marked.id]
              /\ status' \in {status, [status EXCEPT ![Marked.id] = "Gone"]}
    BY <1>5 DEF DeleteSelected
  <2>2. Marked.status = "Queued" => Marked.id \in Entries
    BY <1>0, MarkedFacts DEF Buckets
  <2>3. TypeOK'
    <3>1. Marked.status = "Queued" => [key |-> "d", id |-> Marked.id] \in Acts
      BY <2>2 DEF Acts
    <3>2. status' \in [Entries -> Buckets \cup {"Fresh", "Gone"}] /\ act' \in Acts
      BY <1>0, <2>1, <3>1 DEF TypeOK
    <3>. QED
      BY <1>0, <2>1, <3>2 DEF Polled, TypeOK
  <2>. QED
    BY <1>0, <2>1, <2>3, OtherScreen DEF Polled
<1>6. CASE AttachSelected
  <2>1. /\ Polled /\ dirty' = TRUE /\ UNCHANGED <<status, selected, expanded, frame>>
        /\ \/ UNCHANGED <<act, focused>>
           \/ /\ Marked.status = "NeedsHelp" /\ act' = [key |-> "t", id |-> Marked.id]
              /\ focused' = TRUE
    BY <1>6 DEF AttachSelected
  <2>2. Marked.status = "NeedsHelp" => Marked.id \in Entries
    BY <1>0, MarkedFacts DEF Buckets
  <2>3. TypeOK'
    <3>1. Marked.status = "NeedsHelp" => [key |-> "t", id |-> Marked.id] \in Acts
      BY <2>2 DEF Acts
    <3>2. act' \in Acts /\ focused' \in BOOLEAN
      BY <1>0, <2>1, <3>1 DEF TypeOK
    <3>. QED
      BY <1>0, <2>1, <3>2 DEF Polled, TypeOK
  <2>. QED
    BY <1>0, <2>1, <2>3, OtherScreen DEF Polled
<1>7. CASE Quit
  BY <1>0, <1>7, OtherScreen DEF Quit, appVars, loopVars, TypeOK
<1>. QED
  BY <1>1, <1>2, <1>3, <1>4, <1>5, <1>6, <1>7 DEF Key

LEMMA NextScreen ==
  ASSUME ScreenInv, Next
  PROVE  ScreenInv'
<1>0. /\ selected \in IF entries = <<>> THEN {0} ELSE 1..Len(entries)
      /\ expanded \subseteq ToSet(Ids(entries)) /\ TypeOK
  BY DEF ScreenInv, SelectionInRange
<1>1. CASE NoRefresh
  <2>1. NoAct \in Acts
    BY DEF Acts
  <2>. QED
    BY <1>0, <1>1, <2>1, OtherScreen DEF NoRefresh, appVars, TypeOK
<1>2. CASE Others
  <2>1. status' \in [Entries -> Buckets \cup {"Fresh", "Gone"}]
    BY <1>0, <1>2, TuiAssumption DEF Others, TypeOK, Buckets
  <2>. QED
    BY <1>0, <1>2, <2>1, OtherScreen DEF Others, appVars, loopVars, TypeOK
<1>. QED
  BY <1>1, <1>2, RefreshScreen, DrawScreen, KeyScreen DEF Next

LEMMA StutterScreen ==
  ASSUME ScreenInv, UNCHANGED vars
  PROVE  ScreenInv'
BY DEF ScreenInv, vars, appVars, loopVars, TypeOK, SelectionInRange, MarkedIsShown

\* The snapshot, the selection and the screen stay in step.
THEOREM ScreenInductive == Spec => []ScreenInv
BY InitScreen, NextScreen, StutterScreen, PTL DEF Spec

\* The state keeps its types, and the list is never longer than it may be
\* (tui/app.rs: MAX_ENTRIES_VISIBLE).
THEOREM ListIsBounded == Spec => []TypeOK
<1>1. ScreenInv => TypeOK
  BY DEF ScreenInv
<1>. QED
  BY <1>1, ScreenInductive, PTL

\* The selection points into the snapshot whenever there is one, and what is expanded
\* is in it, however rows come and go (tui/app.rs: ingest_entries, move_selection_*).
THEOREM SelectionStaysInRange == Spec => []SelectionInRange
<1>1. ScreenInv => SelectionInRange
  BY DEF ScreenInv
<1>. QED
  BY <1>1, ScreenInductive, PTL

\* The marked entry is among the rows of its bucket that are shown, and no bucket has
\* more of them than fit (tui/ui.rs: visible_bucket_entries).
THEOREM MarkedStaysShown == Spec => []MarkedIsShown
<1>1. ScreenInv => MarkedIsShown
  BY DEF ScreenInv
<1>. QED
  BY <1>1, ScreenInductive, PTL
=============================================================================
