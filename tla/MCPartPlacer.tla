---------------------------- MODULE MCPartPlacer ----------------------------
(* A sheet of five columns in a bitmap of six, and of two rows: parts are   *)
(* placed in the lower one.  A ring covers two pixels and leaves the one    *)
(* between them for a dot; a bar covers two by two.  Dots keep a pixel      *)
(* between them, and one from the left edge.                                *)
EXTENDS Refinement

MCEnd == 6
MCKinds == {"ring", "dot", "bar"}
Mask == [ring |-> {0, 2}, dot |-> {0}, bar |-> {0, 1, 6, 7}]
MCRaster == [k \in MCKinds |-> [o \in 0 .. 5 |-> {o + d : d \in Mask[k]}]]
MCColumns == [ring |-> 3, dot |-> 1, bar |-> 2]
MCInside == [k \in MCKinds |-> {o \in 0 .. 5 : o + MCColumns[k] <= 6}]
MCMaterial == (0 .. 4) \cup (6 .. 10)

MCPixelAt == [px \in (0 .. 5) \X (0 .. 1) |-> px[1] + 6 * px[2]]
MCCore == [k \in MCKinds |-> [o \in 0 .. 5 |->
  LET side == IF k = "bar" THEN 2 ELSE 1
  IN [x |-> o, y |-> 0, width |-> side, height |-> side]]]
MCMaskArea == [ring |-> 3, dot |-> 1, bar |-> 4]
MCOnSheet == [k \in MCKinds |-> IF k = "dot" THEN 1 .. 5 ELSE 0 .. 5]

Near == [ring |-> -2 .. 2, dot |-> -1 .. 1, bar |-> {}]
MCClash == {<<p, q>> \in [kind : MCKinds, at : 0 .. 5] \X [kind : MCKinds, at : 0 .. 5] :
              p.kind = q.kind /\ p.at - q.at \in Near[p.kind]}

\* Dots are moved to the right, the others to the left.
MCRank == [k \in MCKinds |-> [o \in 0 .. 5 |-> IF k = "dot" THEN 5 - o ELSE o]]
MCCorners == [k \in MCKinds |-> {0}]
MCContacts == [j \in MCKinds |-> [k \in MCKinds |->
  CASE j = "ring" /\ k = "ring" -> {-3, 3}
    [] j = "ring" /\ k = "dot" -> {3}
    [] j = "dot" /\ k = "ring" -> {1}
    [] OTHER -> {2}]]
\* The bounds of the hole propose an origin that it does not contain.
MCPocketed == [j \in MCKinds |-> [k \in MCKinds |->
  IF j = "ring" /\ k = "dot"
  THEN {[at |-> 1, contained |-> TRUE], [at |-> 3, contained |-> FALSE]} ELSE {}]]
MCPattern == [k \in MCKinds |-> IF k = "dot" THEN {4, 3, 1} ELSE {}]
MCOrders == {<<"ring", "dot", "dot", "dot">>, <<"dot", "ring", "dot", "ring">>,
             <<"dot", "bar", "dot", "bar">>, <<"dot", "dot", "dot", "ring">>}

(* Four units to a pixel.  The notch of a ring is wider than its pixel.     *)
MCSpot == [k \in MCKinds |-> [o \in 0 .. 5 |-> [kind |-> k, x |-> 4 * o, y |-> 0]]]
MCSize == [k \in MCKinds |->
  [x |-> CASE k = "ring" -> 12 [] k = "dot" -> 4 [] OTHER -> 8,
   y |-> IF k = "bar" THEN 8 ELSE 4]]
MCStock == [x |-> 20, y |-> 8]
Walls(c) == CASE c.kind = "ring" -> {<<c.x, c.x + 2>>, <<c.x + 10, c.x + 12>>}
              [] c.kind = "dot" -> {<<c.x, c.x + 4>>}
              [] OTHER -> {<<c.x, c.x + 8>>}
MCTooClose(c, d) ==
  /\ c.y < d.y + MCSize[d.kind].y /\ d.y < c.y + MCSize[c.kind].y
  /\ \/ c.kind = "ring" /\ d.kind = "ring" /\ c.x - d.x \in -11 .. 11
     \/ c.kind = "dot" /\ d.kind = "dot" /\ c.x - d.x \in -7 .. 7
     \/ \E v \in Walls(c), w \in Walls(d) : v[1] < w[2] /\ w[1] < v[2]
MCOnStock == {c \in [kind : MCKinds, x : 0 .. 20, y : 0 .. 8] :
  /\ c.kind = "dot" => c.x >= 4
  /\ c.x + MCSize[c.kind].x <= 20 /\ c.y + MCSize[c.kind].y <= 8}
MCNotch == [j \in MCKinds |-> [k \in MCKinds |->
  IF j = "ring" /\ k # "ring" THEN {[kind |-> k, x |-> 2, y |-> 0]} ELSE {}]]
MCSpread(c) == c.x + c.y

=============================================================================
