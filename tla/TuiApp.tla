------------------------------- MODULE TuiApp -------------------------------
(***************************************************************************)
(* tui/app.rs and the render loop of tui/run.rs: a snapshot of the queue    *)
(* that is refreshed five times a second and cut off at a maximal length, a *)
(* selection that is an index into it, and keys that act on what the last   *)
(* frame showed.  Workers and CLI commands change the table meanwhile.      *)
(*                                                                         *)
(* Ids are numbered in the order (enqueued_at, id) in which the list is     *)
(* sorted; the clock is assumed not to go back.  Statuses are those the     *)
(* list tells apart.  Demo mode, the help overlay, the status line and rows *)
(* clipped by a small terminal are left out.                                *)
(***************************************************************************)
EXTENDS Naturals, FiniteSets, SequencesExt, Filters

CONSTANTS
  N,          (* entries are 1..N                                           *)
  Stamp,      (* entry -> enqueued_at, in seconds                           *)
  MaxVisible, (* MAX_ENTRIES_VISIBLE                                        *)
  BucketRows, (* rows of a bucket that are shown: the 4 of ui.rs            *)
  Statuses,   (* the statuses that rows take: bounds the model              *)
  Keys        (* the keys the user presses, "focus" for a change of focus:  *)
              (* bounds the model                                           *)

Entries == 1..N
ASSUME TuiAssumption ==
  /\ N \in Nat
  /\ Stamp \in [Entries -> Nat]
  /\ \A d, e \in Entries : d <= e => Stamp[d] <= Stamp[e]
  /\ Statuses \subseteq {"Queued", "Working", "NeedsHelp", "Done"} /\ "Queued" \in Statuses
  /\ Keys \subseteq {"j", "k", " ", "d", "t", "q", "focus"}
  /\ MaxVisible \in Nat \ {0} /\ BucketRows \in Nat \ {0}

VARIABLES
  status,     (* queue_entries.status; "Fresh" and "Gone": no row           *)
  entries,    (* AppState.entries: the snapshot                             *)
  selected,   (* AppState.table.selected(), from 1; 0 is None               *)
  expanded,   (* AppState.expanded_entry_ids                                *)
  sprite,     (* AppState.sprite_state                                      *)
  pc,         (* where the render loop is                                   *)
  needData, dirty, focused,
  frame,      (* what the last draw put on the screen                       *)
  act         (* history: what the last key has acted on                    *)

appVars  == <<entries, selected, expanded, sprite>>
loopVars == <<needData, dirty, focused>>
vars == <<status, appVars, pc, loopVars, frame, act>>

Buckets == {"Queued", "Working", "NeedsHelp", "Done"}
NoFrame == [marked |-> 0, status |-> "none", rows |-> {}, sprite |-> "none"]
NoAct   == [key |-> "none", id |-> 0]

Rows   == [id : Entries, status : Buckets]
Frames == {NoFrame} \cup [marked : 0..N, status : Buckets \cup {"none"},
                          rows : SUBSET Entries, sprite : {"Idle", "Working", "NeedsHelp"}]
Acts   == {NoAct} \cup [key : {"d", "t", " "}, id : Entries]

TypeOK ==
  /\ status \in [Entries -> Buckets \cup {"Fresh", "Gone"}]
  /\ entries \in Seq(Rows) /\ Len(entries) <= MaxVisible
  /\ selected \in 0..MaxVisible
  /\ expanded \subseteq Entries
  /\ sprite \in {"Idle", "Working", "NeedsHelp"}
  /\ pc \in {"top", "draw", "poll", "quit"}
  /\ needData \in BOOLEAN /\ dirty \in BOOLEAN /\ focused \in BOOLEAN
  /\ frame \in Frames /\ act \in Acts

Init ==
  /\ status = [e \in Entries |-> "Fresh"]
  /\ entries = <<>> /\ selected = 0 /\ expanded = {} /\ sprite = "Idle"
  /\ pc = "top" /\ needData = FALSE /\ dirty = FALSE /\ focused = TRUE
  /\ frame = NoFrame /\ act = NoAct

-----------------------------------------------------------------------------
(* The data refresh.                                                       *)

Take(s, n) == SubSeq(s, 1, IF Len(s) > n THEN n ELSE Len(s))
Ids(s) == [i \in DOMAIN s |-> s[i].id]
Present == {e \in Entries : status[e] \in Buckets}

\* list_entries, sorted and truncated: the oldest MaxVisible entries.
Snapshot ==
  LET cut == Take(Kept([e \in Entries |-> e], Present), MaxVisible)
  IN  [i \in DOMAIN cut |-> [id |-> cut[i], status |-> status[cut[i]]]]

Has(s, st) == \E i \in DOMAIN s : s[i].status = st

\* Mutant: work in progress comes first.
WorkingFirst(s) ==
  IF Has(s, "Working") THEN "Working" ELSE IF Has(s, "NeedsHelp") THEN "NeedsHelp" ELSE "Idle"
\* compute_sprite_state
SpriteState(s) ==
  IF Has(s, "NeedsHelp") THEN "NeedsHelp" ELSE IF Has(s, "Working") THEN "Working" ELSE "Idle"

\* Mutant: a selection past the end stays there.
Unclamped(s) == IF s = <<>> THEN 0 ELSE IF selected = 0 THEN 1 ELSE selected
\* ingest_entries: drop, clamp, keep or make the selection.
Clamped(s) ==
  IF s = <<>> THEN 0
  ELSE IF selected = 0 THEN 1
  ELSE IF selected > Len(s) THEN Len(s) ELSE selected

Refresh ==
  /\ pc = "top"
  /\ LET s == Snapshot
     IN  /\ entries' = s
         /\ sprite' = SpriteState(s)
         /\ selected' = Clamped(s)
         /\ expanded' = expanded \cap ToSet(Ids(s))
  /\ needData' = TRUE /\ pc' = "draw" /\ act' = NoAct
  /\ UNCHANGED <<status, dirty, focused, frame>>

\* The last refresh is less than DATA_REFRESH ago.
NoRefresh ==
  /\ pc = "top" /\ frame # NoFrame
  /\ needData' = FALSE /\ pc' = "draw" /\ act' = NoAct
  /\ UNCHANGED <<status, appVars, dirty, focused, frame>>

-----------------------------------------------------------------------------
(* A frame.  need_data is a local of one iteration of the loop.             *)

\* AppState.selected()
Marked == IF selected \in DOMAIN entries THEN entries[selected]
          ELSE [id |-> 0, status |-> "none"]

\* Mutant: the first rows only.
TopRows(bucket, marked) == ToSet(Take(bucket, BucketRows))
\* visible_bucket_entries: the marked row takes the place of the last one.
VisibleRows(bucket, marked) ==
  LET top == Take(bucket, BucketRows)
  IN  IF marked \in ToSet(bucket) \ ToSet(top) THEN ToSet(Front(top)) \cup {marked} ELSE ToSet(top)

\* bucket_lines: one bucket per status, in the order of the snapshot.
Bucket(st) == Ids(Kept(entries, {e \in ToSet(entries) : e.status = st}))

\* Mutant: an unfocused terminal is redrawn after a key only.
MustDrawFocused == frame = NoFrame \/ dirty \/ focused
MustDraw == frame = NoFrame \/ needData \/ dirty \/ focused

Draw ==
  /\ pc = "draw"
  /\ IF MustDraw
     THEN /\ frame' = [marked |-> Marked.id, status |-> Marked.status, sprite |-> sprite,
                       rows |-> UNION {VisibleRows(Bucket(st), Marked.id) : st \in Buckets}]
          /\ dirty' = FALSE
     ELSE UNCHANGED <<frame, dirty>>
  /\ pc' = "poll" /\ needData' = FALSE
  /\ UNCHANGED <<status, appVars, focused, act>>

-----------------------------------------------------------------------------
(* Keys, as map_key and the match of render_loop have them.                *)

Polled == pc = "poll" /\ pc' = "top" /\ UNCHANGED <<entries, sprite, needData>>

\* TICK has passed, or the key is not bound.
Ignore == Polled /\ UNCHANGED <<status, selected, expanded, dirty, focused, frame, act>>

Focus(gained) ==
  /\ Polled /\ focused' = gained /\ dirty' = gained
  /\ UNCHANGED <<status, selected, expanded, frame, act>>

\* Mutant: one step past the last row.
DownPastEnd == IF selected <= Len(entries) THEN selected + 1 ELSE selected
\* move_selection_down, move_selection_up
Down == IF selected < Len(entries) THEN selected + 1 ELSE selected
Up   == IF selected > 1 THEN selected - 1 ELSE 1

Select(by) ==
  /\ Polled /\ dirty' = TRUE
  /\ selected' = IF entries = <<>> THEN selected ELSE IF by = "j" THEN Down ELSE Up
  /\ UNCHANGED <<status, expanded, focused, frame, act>>

ToggleExpanded ==
  /\ Polled /\ dirty' = TRUE
  /\ IF Marked.id = 0 THEN UNCHANGED <<expanded, act>>
     ELSE /\ expanded' = IF Marked.id \in expanded THEN expanded \ {Marked.id}
                         ELSE expanded \cup {Marked.id}
          /\ act' = [key |-> " ", id |-> Marked.id]
  /\ UNCHANGED <<status, selected, focused, frame>>

\* delete_queued: DELETE ... WHERE status = 'Queued'.
DeleteSelected ==
  /\ Polled /\ dirty' = TRUE
  /\ IF Marked.status = "Queued"
     THEN /\ act' = [key |-> "d", id |-> Marked.id]
          /\ status' = IF status[Marked.id] = "Queued" THEN [status EXCEPT ![Marked.id] = "Gone"]
                       ELSE status
     ELSE UNCHANGED <<status, act>>
  /\ UNCHANGED <<selected, expanded, focused, frame>>

\* The agent's window is opened; its effects on the tables are in MergeEngine.
AttachSelected ==
  /\ Polled /\ dirty' = TRUE
  /\ IF Marked.status = "NeedsHelp"
     THEN act' = [key |-> "t", id |-> Marked.id] /\ focused' = TRUE
     ELSE UNCHANGED <<act, focused>>
  /\ UNCHANGED <<status, selected, expanded, frame>>

Quit ==
  /\ pc = "poll" /\ pc' = "quit"
  /\ UNCHANGED <<status, appVars, loopVars, frame, act>>

Key ==
  \/ "focus" \in Keys /\ \E b \in BOOLEAN : Focus(b)
  \/ \E by \in Keys \cap {"j", "k"} : Select(by)
  \/ " " \in Keys /\ ToggleExpanded
  \/ "d" \in Keys /\ DeleteSelected
  \/ "t" \in Keys /\ AttachSelected
  \/ "q" \in Keys /\ Quit

-----------------------------------------------------------------------------
(* Workers and CLI commands.  They write whole rows, some from stale copies, *)
(* so that any status may follow any other; `repos remove` deletes rows.   *)

Others ==
  /\ pc # "quit"
  /\ \E e \in Entries, s \in Statuses \cup {"Gone"} :
       /\ \/ /\ status[e] = "Fresh" /\ s = "Queued"
             /\ \A d \in Entries : status[d] # "Fresh" => Stamp[d] <= Stamp[e]
          \/ status[e] \in Buckets
       /\ status' = [status EXCEPT ![e] = s]
  /\ UNCHANGED <<appVars, pc, loopVars, frame, act>>

Next == Refresh \/ NoRefresh \/ Draw \/ Ignore \/ Key \/ Others

Spec == Init /\ [][Next]_vars

-----------------------------------------------------------------------------
(* Properties.                                                             *)

\* The selection points into the snapshot whenever there is one, and what is
\* expanded is in it, however rows come and go between two refreshes.
SelectionInRange ==
  /\ selected \in IF entries = <<>> THEN {0} ELSE 1..Len(entries)
  /\ expanded \subseteq ToSet(Ids(entries))

\* A key acts on the entry the user sees marked, in the status the user sees: no
\* refresh comes between the frame on the screen and the key, not even in an
\* unfocused terminal, where frames are left out.
ActsOnFrame ==
  [][act' \notin {act, NoAct} =>
       /\ act'.id = frame.marked
       /\ act'.key = "d" => frame.status = "Queued"
       /\ act'.key = "t" => frame.status = "NeedsHelp"]_vars

\* The marked entry is among the few rows of its bucket, wherever the selection
\* has been moved to in the snapshot, and no bucket has more rows than fit.
MarkedIsShown ==
  frame # NoFrame =>
    /\ frame.marked # 0 => frame.marked \in frame.rows
    /\ Cardinality(frame.rows) <= BucketRows * Cardinality(Buckets)

\* While the loop waits for a key, the animation on the screen signals that an
\* entry of the snapshot needs help, whatever else the queue is doing and whether or
\* not the terminal has the focus.
HelpSignalled ==
  pc = "poll" /\ Has(entries, "NeedsHelp") => frame.sprite = "NeedsHelp"
=============================================================================
