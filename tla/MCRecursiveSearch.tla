-------------------------- MODULE MCRecursiveSearch --------------------------
(* Small parts on sheets of a few pixels: copies that need one another's     *)
(* place, a first choice that has to be taken back, two sheets, a hole, a    *)
(* part that fits nowhere, a mask larger than its part, a lattice of every   *)
(* second pixel, and a border that is kept free.                             *)
EXTENDS RecursiveSearch

Block(w, h) == (0 .. w - 1) \X (0 .. h - 1)
Sheet(w, h, pixels) == [w |-> w, h |-> h, pixels |-> pixels, inner |-> pixels]
Rectangle(w, h) == Sheet(w, h, Block(w, h))
Mask(w, h, pixels, core, halo) ==
  [w |-> w, h |-> h, pixels |-> pixels, core |-> core, halo |-> halo]
Exact(w, h, pixels) == Mask(w, h, pixels, pixels, pixels)
Solid(w, h) == Exact(w, h, Block(w, h))

Domino == <<Solid(2, 1), Solid(1, 2)>>
Bar == <<Solid(3, 1), Solid(1, 3)>>
Pixel == <<Solid(1, 1)>>
Square == <<Solid(2, 2)>>
Corner == <<Exact(2, 2, {<<0, 0>>, <<1, 0>>, <<0, 1>>}),
            Exact(2, 2, {<<0, 1>>, <<1, 0>>, <<1, 1>>})>>
\* A part of one pixel that keeps one pixel away from the others.
Spaced == <<Mask(1, 1, {<<0, 0>>}, {<<0, 0>>}, (0 .. 1) \X (0 .. 1))>>
\* Half of the mask is not needed by the part.
Loose == <<Mask(2, 1, {<<0, 0>>, <<1, 0>>}, {<<0, 0>>}, {<<0, 0>>})>>

Wide == Rectangle(3, 2)
Ring == Sheet(3, 2, Block(3, 2) \ {<<1, 1>>})
Small == Rectangle(2, 2)
Strip == Sheet(4, 1, Block(4, 1) \ {<<2, 0>>})
\* A sheet whose border of one pixel is to be kept free.
Framed(w, h) ==
  [Rectangle(w, h) EXCEPT !.inner = (1 .. w - 2) \X (1 .. h - 2)]

Exhaustive(parts, sheets) ==
  [parts |-> parts, sheets |-> sheets, step |-> 1, spacing |-> 0]

MCProblems ==
  {Exhaustive(<<Loose, Loose>>, <<Wide>>),
   Exhaustive(<<Pixel, Domino>>, <<Strip>>),
   Exhaustive(<<Domino, Domino, Domino>>, <<Wide>>),
   Exhaustive(<<Domino, Domino, Square>>, <<Ring>>),
   Exhaustive(<<Corner, Corner>>, <<Wide>>),
   Exhaustive(<<Domino, Corner, Domino>>, <<Ring>>),
   Exhaustive(<<Spaced, Spaced, Spaced>>, <<Ring>>),
   Exhaustive(<<Bar, Domino, Domino>>, <<Small, Wide>>),
   [parts |-> <<Domino, Pixel, Pixel>>, sheets |-> <<Rectangle(4, 3)>>,
    step |-> 2, spacing |-> 0],
   [parts |-> <<Domino, Pixel>>, sheets |-> <<Framed(2, 2), Framed(4, 4)>>,
    step |-> 1, spacing |-> 1]}

\* No layout is out of the lattices' reach here.
ASSUME MCReached == \A p \in MCProblems : Reached(p) /\ Aligned(p)

LooseProblems == {Exhaustive(<<Loose, Loose>>, <<Wide>>)}

=============================================================================
