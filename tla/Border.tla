-------------------------------- MODULE Border --------------------------------
(***************************************************************************)
(* How a frame becomes the border's corners (src/src/vision/acquire.rs)    *)
(* by the tabs on its inner edge (src/src/vision/code.rs): every edge's    *)
(* tabs are looked up in the code, the edges that were read tell how the   *)
(* gun is rolled, the others are labelled by it, and the lines and tabs    *)
(* are solved.  The camera sees true edges and, of one edge, a tab that is *)
(* in doubt, missed, cut off or read wrong; the gun is rolled by quarters; *)
(* the geometry of the solve is left to a choice among its outcomes.       *)
(***************************************************************************)
EXTENDS Integers, Sequences, SequencesExt, FiniteSets, TLC

CONSTANTS
    Lengths,        \* how many tabs of the edge that is looked at are in view
    Glimpses,       \* how many of the edge beside it
    Faults          \* "unsure", "missed", "partial", "misread"

ASSUME BorderAssumption ==
    Lengths \subseteq Nat /\ Glimpses \subseteq 0..6
    /\ Faults \subseteq {"unsure", "missed", "partial", "misread"}

VARIABLES
    glance,     \* how far the frame is: "none", "seen", "decoded", "labelled", "solved"
    rolled,     \* clockwise quarter turns the gun is held at
    inView,     \* the sides whose edge the camera sees
    seen,       \* side -> its tabs as the camera sees them: [read, no], no the true number
    fault,      \* the fault of the edge that is looked at
    decoded,    \* side -> Decoded, of the edges in view
    labels,     \* side -> the side it is taken for, Dropped when another has the name
    answer      \* Quad: how its corners were found, whether they are right

borderVars == <<glance, rolled, inView, seen, fault, decoded, labels, answer>>

\* Side::ALL from 0; the ternary code of each, a symbol for a tab's width.
Sides == 0..3
SEQUENCES == <<<<0, 0, 1, 1, 2, 0, 3, 1, 0>>, <<1, 1, 3, 2, 1, 0>>,
               <<2, 2, 1, 3, 3, 2, 0, 0, 3>>, <<0, 3, 2, 2, 0, 1>>>>
Tabs(s)   == SEQUENCES[s + 1]
Symbols   == 0..3
Unsure    == 9
Partial   == 8
Missed    == 7
Dropped   == 4
Nowhere   == [side |-> Dropped, points |-> {}]
NoQuad    == [by |-> "none", corners |-> "none", tabs |-> 0, sides |-> 0, lines |-> {},
              thin |-> {}]

-----------------------------------------------------------------------------
\* Which way a side's tabs run in the image: 0 to the right, then clockwise.
Heading(s)         == s % 2
Guess(s, r)        == (s + r) % 4
IsReversed(s, r)   == (Heading(s) + r) % 4 \in {2, 3}

\* identify: where a run of three or more stands, if it stands in one place only.
Stands(run, s, i)    == i + Len(run) - 1 <= Len(Tabs(s))
                      /\ SubSeq(Tabs(s), i, i + Len(run) - 1) = run
Placements(run) ==
    {pl \in [side : Sides, index : 1..9, reversed : BOOLEAN] :
        Stands(IF pl.reversed THEN Reverse(run) ELSE run, pl.side, pl.index)}

OnlyOne(S) == {x \in S : S = {x}}

Identify(run) == IF Len(run) < 3 THEN {} ELSE OnlyOne(Placements(run))

\* locate: the same on a side whose name and direction are known, from two symbols on.
Locate(side, reversed, run) ==
    IF Len(run) < 2 THEN {}
    ELSE OnlyOne({pl \in Placements(run) : pl.side = side /\ pl.reversed = reversed})

Place(known, run) ==
    IF known = <<>> THEN Identify(run) ELSE Locate(known[1], known[2], run)

-----------------------------------------------------------------------------
\* decode_tabs.  Split s at the tabs that read as `mark`, which are in no piece.
Pieces(s, mark) ==
    LET ends == {i \in 0 .. Len(s) + 1 : i \in {0, Len(s) + 1} \/ s[i].read = mark}
        next == {e \in ends \X ends : e[1] < e[2] /\ ends \cap (e[1] + 1 .. e[2] - 1) = {}}
    IN  {SubSeq(s, e[1] + 1, e[2] - 1) : e \in next} \ {<<>>}

-----------------------------------------------------------------------------
\* Mistakes the checks must notice.
JoinedRuns(tabs)   == {SelectSeq(tabs, LAMBDA tab : tab.read # Missed)}

-----------------------------------------------------------------------------
\* A missed tab is a gap of two pitches, which ends a run.
Runs(tabs) == Pieces(tabs, Missed)

\* A tab is read against the spacing to a whole neighbour; it is passed over when it is
\* cut off, or has none.
Readable(run) ==
    LET Whole(i) == i \in DOMAIN run /\ run[i].read # Partial
        kept == {i \in DOMAIN run : Whole(i) /\ (Whole(i - 1) \/ Whole(i + 1))}
    IN  [k \in 1 .. Cardinality(kept) |->
            run[CHOOSE i \in kept : Cardinality({j \in kept : j < i}) = k - 1]]

Stretches(tabs, least) ==
    {st \in UNION {Pieces(Readable(run), Unsure) : run \in Runs(tabs)} : Len(st) >= least}

\* Every sub-run that places itself and leaves room on its side for the tabs beside it;
\* of a long stretch, none of fewer than four.
Placed(st, known) ==
    LET n == Len(st)
        Room(w, pl) ==
            LET before == IF pl.reversed THEN n - (w.lo + w.len - 1) ELSE w.lo - 1
                after  == n - w.len - before
            IN  before < pl.index /\ pl.index + w.len - 1 + after <= Len(Tabs(pl.side))
        Subruns == {w \in [lo : 1..n, len : 2..n] :
                       w.lo + w.len - 1 <= n /\ ~(w.len < n /\ w.len < 4 /\ n > 4)}
        Places(w) ==
            {[lo |-> w.lo, len |-> w.len, side |-> pl.side, index |-> pl.index,
              reversed |-> pl.reversed] :
                 pl \in {p \in Place(known, [i \in 1..w.len |-> st[w.lo + i - 1].read]) :
                            Room(w, p)}}
    IN  UNION {Places(w) : w \in Subruns}

\* The longest one, the first of these.
Best(S) == CHOOSE pl \in S : \A q \in S : q.len < pl.len \/ (q.len = pl.len /\ pl.lo <= q.lo)

PointsOf(st, pl) ==
    {[no |-> st[pl.lo + i].no, side |-> pl.side,
      at |-> IF pl.reversed THEN pl.index + pl.len - 1 - i ELSE pl.index + i] :
        i \in 0 .. pl.len - 1}

\* Stretches of one edge that name different sides: neither is trusted.
DecodeTabs(tabs, known) ==
    LET found == {st \in Stretches(tabs, IF known = <<>> THEN 3 ELSE 2) : Placed(st, known) # {}}
        names == {Best(Placed(st, known)).side : st \in found}
    IN  IF OnlyOne(names) = {} THEN Nowhere
        ELSE [side |-> CHOOSE s \in names : TRUE,
              points |-> UNION {PointsOf(st, Best(Placed(st, known))) : st \in found}]

-----------------------------------------------------------------------------
BorderInit ==
    /\ glance = "none" /\ rolled = 0 /\ fault = "none"
    /\ inView = {} /\ seen = [s \in Sides |-> <<>>]
    /\ decoded = [s \in Sides |-> Nowhere] /\ labels = [s \in Sides |-> Dropped]
    /\ answer = NoQuad

\* n tabs from the first on, in the order the camera has them.
TabsFrom(s, first, n, r) ==
    LET own == [i \in 1..n |-> [read |-> Tabs(s)[first + i - 1], no |-> first + i - 1]]
    IN  IF IsReversed(s, r) THEN Reverse(own) ELSE own

NextSide(s)   == (s + 1) % 4
Windows(s, n) == {first \in 1 .. Len(Tabs(s)) : first + n - 1 <= Len(Tabs(s))}

ReadAs(tabs, what) == {[tabs EXCEPT ![i].read = x] : i \in DOMAIN tabs, x \in what} \ {tabs}

Faulty(tabs, f) ==
    CASE f = "none"    -> {tabs}
      [] f = "unsure"  -> ReadAs(tabs, {Unsure})
      [] f = "missed"  -> ReadAs(tabs, {Missed})
      [] f = "partial" -> ReadAs(tabs, {Partial})
      [] f = "misread" -> ReadAs(tabs, Symbols)

\* classify_sides and find_tabs: one edge is looked at, the next one shows m
\* tabs from a corner on, and the rest are in view without any, or out of view.
SeeBorder ==
    /\ glance = "none"
    /\ rolled' \in 0..3
    /\ fault' \in {"none"} \cup Faults
    /\ \E a \in Sides, n \in Lengths, m \in Glimpses, rest \in BOOLEAN :
         \E first \in Windows(a, n), second \in {1, Len(Tabs(NextSide(a))) + 1 - m} :
           \E tabs \in Faulty(TabsFrom(a, first, n, rolled'), fault') :
             /\ inView' = IF rest THEN Sides ELSE {a, NextSide(a)}
             /\ seen' = [s \in Sides |-> IF s = a THEN tabs
                                         ELSE IF s = NextSide(a) THEN TabsFrom(s, second, m, rolled')
                                         ELSE <<>>]
    /\ glance' = "seen"
    /\ UNCHANGED <<decoded, labels, answer>>

DecodeEdges ==
    /\ glance = "seen"
    /\ decoded' = [s \in Sides |-> DecodeTabs(seen[s], <<>>)]
    /\ glance' = "decoded"
    /\ UNCHANGED <<rolled, inView, seen, fault, labels, answer>>

-----------------------------------------------------------------------------
Read == {s \in Sides : decoded[s].side # Dropped}

\* The direction of the sum of how far each edge that was read is turned.
Turns ==
    LET Votes(q) == Cardinality({s \in Read : (Guess(s, rolled) - decoded[s].side) % 4 = q})
        Along(q) == Votes(q) - Votes((q + 2) % 4)
    IN  {q \in 0..3 : Read # {} /\ \A p \in 0..3 : Along(q) >= Along(p)}

-----------------------------------------------------------------------------
\* A mistake the checks must notice.
KeepsGuess(s, th) == IF s \in Read THEN decoded[s].side ELSE Guess(s, rolled)

-----------------------------------------------------------------------------
LabelOf(s, th) ==
    IF s \in Read THEN decoded[s].side
    ELSE (Guess(s, rolled) - (IF th = <<>> THEN 0 ELSE th[1])) % 4

\* Undecoded edges are read again, as the side and in the direction that the roll gives.
ReadAgain(s, th) ==
    IF s \in Read \/ th = <<>> THEN decoded[s]
    ELSE DecodeTabs(seen[s], <<LabelOf(s, th), (Heading(Guess(s, rolled)) - th[1]) % 4 \in {2, 3}>>)

\* Two edges that claim one side: the one with more tabs, else the first.
LabelEdges ==
    /\ glance = "decoded"
    /\ \E th \in IF Turns = {} THEN {<<>>} ELSE {<<q>> : q \in Turns} :
         LET again == [s \in Sides |-> IF s \in inView THEN ReadAgain(s, th) ELSE Nowhere]
             Beats(s, t) ==
                 LET n == Cardinality(again[s].points)
                     m == Cardinality(again[t].points)
                 IN  n > m \/ (n = m /\ Guess(s, rolled) < Guess(t, rolled))
         IN  /\ decoded' = again
             /\ labels' = [s \in Sides |->
                    IF s \in inView /\ \A t \in inView \ {s} :
                           LabelOf(t, th) = LabelOf(s, th) => Beats(s, t)
                    THEN LabelOf(s, th) ELSE Dropped]
    /\ glance' = "labelled"
    /\ UNCHANGED <<rolled, inView, seen, fault, answer>>

-----------------------------------------------------------------------------
Kept       == {s \in Sides : labels[s] # Dropped}
PerSide(s) == Cardinality(decoded[s].points)
Points ==
    UNION {{[of |-> s, no |-> pt.no, side |-> pt.side, at |-> pt.at] : pt \in decoded[s].points} :
              s \in Kept}

\* A tab's place in tenths of a percent of its side, and that place on the side the
\* whole screen would be turned to by q quarters.
Centre(s, no) == IF Heading(s) = 0 THEN 50 + 96 * no - 48 ELSE 60 + 150 * no - 75
TurnedTo(s, q, x) == IF IsReversed(s, q) THEN 1000 - x ELSE x

-----------------------------------------------------------------------------
\* A mistake the checks must notice.
TurnedOnly(q) == \A s \in Sides : labels[s] = (s + q) % 4

-----------------------------------------------------------------------------
\* Corners that are the screen's, turned by q, must land every tab within 2 percent.
FitTurned(q) ==
    /\ \A s \in Sides : labels[s] = (s + q) % 4
    /\ \A pt \in Points :
           LET off == TurnedTo(pt.of, q, Centre(pt.of, pt.no)) - Centre(pt.side, pt.at)
           IN  off < 20 /\ off > -20

\* solve_corners_dlt, with the lines of K: constraints enough, and one to spare.  inner
\* are the edges of which only the inner line is in view.
Enough(K, inner) ==
    LET minimum == IF K = Sides THEN 8 ELSE 9
        starved == Cardinality(K) = 2 /\ \E s \in K : PerSide(s) < 2
        plain   == 2 * Cardinality(K) + Cardinality(Points)
        extra   == 4 * Cardinality({s \in K \ inner : PerSide(s) >= 3})
    IN  IF Cardinality(K) = 1 THEN \A s \in K : PerSide(s) >= 3 /\ s \notin inner
        ELSE \/ plain >= minimum /\ ~starved
             \/ (plain < minimum \/ starved) /\ Cardinality(Points) >= 3 /\ plain + extra >= minimum

True(K) == /\ \A s \in K : labels[s] = s
           /\ \A pt \in Points : pt.side = pt.of /\ pt.at = pt.no

\* The answer of the lines K, of which those in thin are false.
Quad(by, K, thin) ==
    [by |-> by, corners |-> IF True(K) /\ K \cap thin = {} THEN "right" ELSE "wrong",
     tabs |-> Cardinality(Points), sides |-> Cardinality(Kept), lines |-> K, thin |-> thin]

\* solve: four outer lines are intersected, as far as the result lands the tabs; else
\* the lines and tabs are fitted, without edges that are thin and have no tab, which are
\* taken for false.  A refused frame has no corners to aim by, at most the blob's hull.
Solve ==
    /\ glance = "labelled"
    /\ \E thin \in SUBSET {s \in Kept : PerSide(s) = 0}, inner \in SUBSET Kept :
         /\ Cardinality(thin) <= 1 /\ thin \cap inner = {} /\ Kept \ thin # {}
         /\ \/ answer' = NoQuad
            \/ /\ Kept = Sides /\ inner = {}
               /\ thin # {} \/ \E q \in 0..3 : FitTurned(q)
               /\ answer' = Quad("lines", Sides, thin)
            \/ /\ Enough(Kept \ thin, inner)
               /\ answer' = Quad("fit", Kept \ thin, thin)
    /\ glance' = "solved"
    /\ UNCHANGED <<rolled, inView, seen, fault, decoded, labels>>

AnotherFrame ==
    /\ glance = "solved"
    /\ glance' = "none" /\ rolled' = 0 /\ fault' = "none"
    /\ inView' = {} /\ seen' = [s \in Sides |-> <<>>]
    /\ decoded' = [s \in Sides |-> Nowhere] /\ labels' = [s \in Sides |-> Dropped]
    /\ answer' = NoQuad

BorderNext == SeeBorder \/ DecodeEdges \/ LabelEdges \/ Solve \/ AnotherFrame

-----------------------------------------------------------------------------
BorderTypeOK ==
    /\ glance \in {"none", "seen", "decoded", "labelled", "solved"}
    /\ rolled \in 0..3 /\ fault \in {"none"} \cup Faults
    /\ inView \subseteq Sides /\ Kept \subseteq inView
    /\ \A s \in Sides : /\ labels[s] \in Sides \cup {Dropped}
                        /\ decoded[s].side \in Sides \cup {Dropped}
                        /\ (decoded[s].side = Dropped) = (decoded[s].points = {})
                        /\ \A pt \in decoded[s].points : pt.at \in DOMAIN Tabs(pt.side)
    /\ answer.by \in {"none", "lines", "fit"}
    /\ answer.corners \in {"none", "right", "wrong"}

\* A tab that is cut off between two others is passed over without ending the run.
CutInside ==
    fault = "partial" /\ \E s \in Sides : \E i \in 2 .. Len(seen[s]) - 1 : seen[s][i].read = Partial

\* Unless a symbol is misread, every tab that is placed is placed where it is, on its
\* own side, at any roll, from runs and stretches of any length: three symbols name the
\* side, the position and the direction, and two do once those are known (code.rs).
TabsAreThemselves ==
    fault # "misread" /\ ~CutInside =>
        \A s \in Sides : \A pt \in decoded[s].points : pt.side = s /\ pt.at = pt.no

\* One edge that is read gives all of them their names, however the gun is rolled, and
\* none in view is lost: a gun held sideways or upside down gets all four sides right.
SidesAreThemselves ==
    glance \in {"labelled", "solved"} /\ fault # "misread" /\ ~CutInside
        /\ (\E s \in Sides : decoded[s].side # Dropped) =>
            \A s \in inView : labels[s] = s

\* Corners that four lines give are the screen's, also when a symbol was misread: no
\* wrong name of the sides lands its tabs within the 2 percent that are allowed.  With
\* fewer lines that is so for symbols read right.  Not so where a false edge is a line.
NoLies ==
    answer.corners = "wrong" /\ answer.tabs > 0 /\ ~CutInside =>
        \/ answer.lines \cap answer.thin # {}
        \/ answer.by = "fit" /\ fault = "misread"

\* What the jump guard and the smoother take a solve to rest on is what it rests on
\* (Support: "its solve rests on less than the last one did").
SupportIsUsed ==
    answer.by \in {"lines", "fit"} => answer.sides = Cardinality(answer.lines)

\* What is read off the border is the border's.
BorderInv == BorderTypeOK /\ TabsAreThemselves /\ SidesAreThemselves /\ NoLies
=============================================================================
