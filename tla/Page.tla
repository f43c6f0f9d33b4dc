-------------------------------- MODULE Page --------------------------------
(***************************************************************************)
(* The 3D view of the graph page (vizjs): what is in focus, where the files *)
(* stand, and the handlers that change either.  The files come with a       *)
(* frozen layout; the spread slider scales it, a focus pulls the seeds and  *)
(* their neighbours into a ball over a 450 ms ease, and leaving the focus   *)
(* puts every file back.  Handlers run to their end one at a time; frames   *)
(* come in between.                                                         *)
(*                                                                         *)
(* A place is named by what it was computed from: the spread of a layout,   *)
(* or the ball, whose arguments compactTgt holds.  What is only drawn (ink, *)
(* labels, halos, camera, info card, the function layer itself) is left     *)
(* out; of the filter chips one kind stands for the others, which join the  *)
(* same conjunction in nodeVisible, and of the edge types inst does.        *)
(***************************************************************************)
EXTENDS Naturals, FiniteSets, Sequences

CONSTANTS
  Nodes,        \* files, by index
  Links,        \* records [s, t, inst]: from, to, is it an inst or attach
  ClusterOf,    \* per file its cluster
  Depths, Spreads,   \* what the sliders offer
  DirModes,     \* of "both", "out" and "in"
  CollapseMin,  \* members a cluster needs to collapse (3)
  StackCap,     \* focuses the back-stack keeps (20)
  NONE

ClusterIds == {ClusterOf[n] : n \in Nodes}

\* Every file at the baked position scaled by s.
Whole(s) == [n \in Nodes |-> <<"layout", s>>]

InBall == <<"ball">>     \* where compactTgt puts the file
Easing == <<"easing">>   \* somewhere on the way there
Astray == <<"astray">>   \* where an earlier ball of this focus left it

ASSUME PageAssumption ==
  /\ Nodes \subseteq Nat /\ IsFiniteSet(Nodes)
  /\ Links \subseteq [s : Nodes, t : Nodes, inst : BOOLEAN]
  /\ Depths \subseteq 1..3 /\ 1 \in Depths /\ 1 \in Spreads
  /\ "both" \in DirModes /\ DirModes \subseteq {"both", "out", "in"}
  /\ CollapseMin \in Nat /\ StackCap \in Nat \ {0}
  /\ \A s \in Spreads : Whole(s) # NONE

VARIABLE page

\* The page as it ships.
Boot ==
  [focusSeeds |-> {}, focusWasOn |-> FALSE, focusStack |-> <<>>,
   depth |-> 1, dirMode |-> "both", activeClusters |-> {}, showInst |-> FALSE,
   collapsed |-> FALSE, supMem |-> {}, spread |-> 1,
   pos |-> Whole(1), posSaved |-> NONE,
   compactTgt |-> NONE, compactAnim |-> FALSE]

-----------------------------------------------------------------------------
(***************************************************************************)
(* What a focus reaches.                                                   *)
(***************************************************************************)
\* adj, adjOut or adjIn of the files in S.
Neighbours(S, dirMode) ==
  (IF dirMode # "in" THEN {l.t : l \in {k \in Links : k.s \in S}} ELSE {})
  \cup (IF dirMode # "out" THEN {l.s : l \in {k \in Links : k.t \in S}} ELSE {})

\* computeLevels: the files of level at most k.
Reach(S, dirMode, k) ==
  LET reach[i \in 0..3] ==
        IF i = 0 THEN S ELSE reach[i-1] \cup Neighbours(reach[i-1], dirMode)
  IN  reach[k]

UpTo(p, k) == Reach(p.focusSeeds, p.dirMode, k)

nodeVisible(p) ==
  {n \in Nodes : p.activeClusters = {} \/ ClusterOf[n] \in p.activeClusters}

\* alphaTgt above the ghosts, before the collapse pass.
Shown(p) ==
  nodeVisible(p) \cap (IF p.focusSeeds = {} THEN Nodes ELSE UpTo(p, p.depth))

-----------------------------------------------------------------------------
(***************************************************************************)
(* applyVisibility, in its order.                                          *)
(***************************************************************************)
\* A file most of whose links are instances.
InstDominant(n) ==
  LET mine == {l \in Links : n \in {l.s, l.t}}
  IN  2 * Cardinality({l \in mine : l.inst}) > Cardinality(mine)

\* Mutant of Entering: any focus counts as one being entered.
InFocus(p) == p.focusSeeds # {}

\* The boot-to-focus transition.
Entering(p) == p.focusSeeds # {} /\ ~p.focusWasOn

\* instTierOnFocus
SeedInst(p) ==
  [p EXCEPT !.focusWasOn = p.focusSeeds # {},
            !.showInst = @ \/ (Entering(p) /\ \E n \in p.focusSeeds : InstDominant(n))]

Least(S) == CHOOSE n \in S : \A k \in S : n <= k

\* compactLitSet: the ball of the lit files, with all it was computed from -
\* the saved layout, the spread that sets the radii, the links that must not
\* pierce a sphere, and the collapse set it read.
CompactBall(p, merged) ==
  LET lit == {n \in UpTo(p, 1) \cap nodeVisible(p) : n \notin merged}
  IN  [lit    |-> lit,
       centre |-> IF lit = {} THEN NONE
                  ELSE Least(IF lit \cap p.focusSeeds # {} THEN lit \cap p.focusSeeds
                             ELSE lit),
       base   |-> p.posSaved, spread |-> p.spread,
       inst   |-> p.showInst, merged |-> merged]

Placed(pos, ball) ==
  [n \in Nodes |-> IF n \in ball.lit THEN InBall
                  ELSE IF pos[n] = InBall THEN Astray ELSE pos[n]]

\* The first ball of a focus is eased into.
EaseIn(p) ==
  LET q == [p EXCEPT !.posSaved = p.pos]
      b == CompactBall(q, p.supMem)
  IN  [q EXCEPT !.compactTgt = b, !.compactAnim = b.lit # {}]

\* A later one is taken at once...
Recompute(p) ==
  LET b == CompactBall(p, p.supMem)
  IN  [p EXCEPT !.compactTgt = b, !.pos = Placed(p.pos, b)]

\* Mutant of PutBack: the files stay where the focus put them.
PutBackNot(p) ==
  [p EXCEPT !.posSaved = NONE, !.compactTgt = NONE, !.compactAnim = FALSE]

PutBack(p) ==
  [p EXCEPT !.pos = p.posSaved, !.posSaved = NONE, !.compactTgt = NONE,
            !.compactAnim = FALSE]

\* ...unless an ease is running, which keeps the files until it lands.
Compact(p) ==
  IF p.focusSeeds # {}
    THEN IF p.posSaved = NONE THEN EaseIn(p)
         ELSE IF p.compactAnim THEN p ELSE Recompute(p)
    ELSE IF p.posSaved # NONE THEN PutBack(p) ELSE p

\* refreshCollapse: the members of a cluster with enough of them shown.
refreshCollapse(p) ==
  [p EXCEPT !.supMem =
     IF p.collapsed
       THEN {n \in Shown(p) :
               Cardinality({k \in Shown(p) : ClusterOf[k] = ClusterOf[n]}) >= CollapseMin}
       ELSE {}]

applyVisibility(p) == refreshCollapse(Compact(SeedInst(p)))

\* applySpread: every file to the scaled layout, a focus or not.
applySpread(p, s) ==
  IF s = p.spread THEN p
  ELSE applyVisibility([p EXCEPT !.spread = s, !.pos = Whole(s)])

-----------------------------------------------------------------------------
(***************************************************************************)
(* The handlers.                                                           *)
(***************************************************************************)
\* pushFocusState
Pushed(p) ==
  IF p.focusSeeds = {} THEN p.focusStack
  ELSE LET s == Append(p.focusStack, p.focusSeeds)
       IN  IF Len(s) > StackCap THEN Tail(s) ELSE s

Refocused(p, n) ==
  applyVisibility([p EXCEPT !.focusStack = Pushed(p), !.focusSeeds = {n}])

\* A click on a sphere, on a row of the search or a card, on a label; a
\* header of the map, 220 ms after its click, whatever came in between.
Focus(n) == page' = Refocused(page, n)

\* clearFocus
Cleared(p) ==
  applyVisibility([p EXCEPT !.focusSeeds = {}, !.focusStack = <<>>, !.depth = 1,
                            !.showInst = FALSE])

\* Esc, the crumb, a right-click; a query or an open card lets the last one
\* and Esc clear where there is no focus.
Clear == page' = Cleared(page)

\* Shift-click stacks a root, or drops one; dropping the last is a clear.
StackRoot(n) ==
  /\ page.focusSeeds # {}
  /\ page' = IF n \notin page.focusSeeds
               THEN applyVisibility([page EXCEPT !.focusStack = Pushed(page),
                                                 !.focusSeeds = @ \cup {n}])
             ELSE IF page.focusSeeds = {n} THEN Cleared(page)
             ELSE applyVisibility([page EXCEPT !.focusSeeds = @ \ {n}])

\* Backspace, or the chip: popFocus
Back ==
  /\ page.focusSeeds # {} /\ page.focusStack # <<>>
  /\ LET top == Len(page.focusStack)
     IN  page' = applyVisibility(
                   [page EXCEPT !.focusSeeds = page.focusStack[top],
                                !.focusStack = SubSeq(@, 1, top - 1)])

SetDepth(d)  == page' = applyVisibility([page EXCEPT !.depth = d])
SetDir(m)    == page' = applyVisibility([page EXCEPT !.dirMode = m])
SetSpread(s) == page' = applySpread(page, s)
ToggleInst   == page' = applyVisibility([page EXCEPT !.showInst = ~@])

ToggleCluster(c) ==
  page' = applyVisibility([page EXCEPT !.activeClusters =
                             IF c \in @ THEN @ \ {c} ELSE @ \cup {c}])

\* The other level of the legend drops the selection of this one.
ToggleGroups == page' = applyVisibility([page EXCEPT !.activeClusters = {}])

ToggleCollapse == page' = applyVisibility([page EXCEPT !.collapsed = ~@])

\* resetAll: the spread first, and everything again at the end.
Reset ==
  page' = applyVisibility(applySpread(
            [Boot EXCEPT !.focusWasOn = page.focusWasOn, !.supMem = page.supMem,
                         !.spread = page.spread, !.pos = page.pos,
                         !.posSaved = page.posSaved, !.compactTgt = page.compactTgt,
                         !.compactAnim = page.compactAnim],
            1))

\* A hover in focus, and the zoom threshold out of it, run the pass again.
Reapply == page' = applyVisibility(page)

-----------------------------------------------------------------------------
(***************************************************************************)
(* The frames of the ease (tick).                                          *)
(***************************************************************************)
EaseFrame ==
  /\ page.compactAnim
  /\ page' = [page EXCEPT !.pos =
                [n \in Nodes |-> IF n \in page.compactTgt.lit THEN Easing ELSE page.pos[n]]]

\* Mutant of Landed: nothing looks again at what changed during the ease.
LandedOnly(p) ==
  [p EXCEPT !.compactAnim = FALSE, !.pos = Placed(p.pos, p.compactTgt)]

Landed(p) ==
  applyVisibility([p EXCEPT !.compactAnim = FALSE, !.pos = Placed(p.pos, p.compactTgt)])

EaseEnd == page.compactAnim /\ page' = Landed(page)

-----------------------------------------------------------------------------
PageInit == page = Boot

Handlers ==
  \/ \E n \in Nodes : Focus(n) \/ StackRoot(n)
  \/ Clear \/ Back
  \/ \E d \in Depths : SetDepth(d)
  \/ \E m \in DirModes : SetDir(m)
  \/ \E s \in Spreads : SetSpread(s)
  \/ \E c \in ClusterIds : ToggleCluster(c)
  \/ ToggleInst \/ ToggleGroups \/ ToggleCollapse \/ Reset \/ Reapply

PageNext == Handlers \/ EaseFrame \/ EaseEnd

PageSpec == PageInit /\ [][PageNext]_page

-----------------------------------------------------------------------------
(***************************************************************************)
(* Properties.                                                             *)
(***************************************************************************)
\* applyVisibility and clearFocus: out of focus every file stands in one
\* frozen layout, none is on its way, and nothing of an earlier focus is left
\* to go back to - whichever way the focus was left, mid-ease, by a slider in
\* between, through the back-stack or by a reset.
OverviewClean ==
  page.focusSeeds = {} =>
    /\ \E s \in Spreads : page.pos = Whole(s)
    /\ page.posSaved = NONE /\ ~page.compactAnim /\ page.focusStack = <<>>

\* compactLitSet, its "SAME settled layout": once no ease runs, every lit file
\* stands where the ball of the present seeds, filters, sliders and toggles
\* puts it from a layout that was whole, however the page got there: filters
\* changed during the ease, a focus moved or stacked, the spread changed.
\* (The collapse set is the one the pass before had left.)
SettledExact ==
  page.focusSeeds # {} /\ ~page.compactAnim =>
    LET ball == CompactBall(page, page.compactTgt.merged)
    IN  /\ page.compactTgt = ball
        /\ \A n \in ball.lit : page.pos[n] = InBall
        /\ \E s \in Spreads : ball.base = Whole(s)

\* instTierOnFocus, "never re-forced during the focus (the user's toggles
\* win)": while a focus lasts, moved or stacked or gone back, only its button
\* changes the inst tier.
InstSeededOnce ==
  [][page.focusSeeds # {} /\ page'.focusSeeds # {} /\ page'.showInst # page.showInst
       => ToggleInst]_page

\* resetAll, "one click must return the app to its boot state with nothing
\* half-reset": after a reset every file is where the page shipped it.
ResetReturnsToBoot == [][Reset => page'.pos = Whole(1) /\ page'.spread = 1]_page
=============================================================================
