--------------------------- MODULE MCPlayerMedia ---------------------------
(* Small graphs, whose loops are longer or shorter than the lookahead.     *)
EXTENDS PlayerMediaProperties

Still(kind, frames, portals) == [kind |-> kind, frames |-> frames, ports |-> [home |-> portals]]

Leave(from, to, event, start) ==
  [from |-> from, to |-> to, trigger |-> OnEvent(event), start |-> start,
   sourcePort |-> "home", targetPort |-> "home", maxWait |-> IF start = "cut" THEN 1 ELSE 3,
   kind |-> "none", unit |-> "", frames |-> 0, direction |-> "",
   reverseOf |-> NoReverseOf, continuity |-> IF start = "cut" THEN "cut" ELSE "exact-authored"]

Playing(edge, kind, unit, frames, direction) ==
  [edge EXCEPT !.kind = kind, !.unit = unit, !.frames = frames, !.direction = direction]

Undoing(edge, base) ==
  [edge EXCEPT !.reverseOf = ReverseOf(base), !.continuity = "exact-reverse"]

(* A loop a with an intro, a finite b that is entered through a locked     *)
(* unit and left at its end or by a cut to a held c, and a reversible pair *)
(* between a and c.                                                        *)
Hover ==
  [initial |-> "a", introFrames |-> 1,
   states |-> [a |-> Still("loop", 4, {0, 2}), b |-> Still("finite", 2, {0}),
               c |-> Still("held", 1, {0})],
   edges |->
     [press |-> Playing(Leave("a", "b", "x", "portal"), "locked", "v", 1, ""),
      lift  |-> Leave("b", "a", "x", "finish"),
      drop  |-> Leave("b", "c", "y", "cut"),
      in    |-> Playing(Leave("a", "c", "y", "portal"), "reversible", "u", 2, "forward"),
      out   |-> Undoing(Playing(Leave("c", "a", "y", "portal"), "reversible", "u", 2, "reverse"), "in")]]

Hovers == {Hover}

(* A loop that is no longer than the frames a candidate keeps ready, and   *)
(* is left through a locked unit.                                          *)
Spinner ==
  [initial |-> "a", introFrames |-> 0,
   states |-> [a |-> Still("loop", 2, {0}), b |-> Still("held", 1, {0})],
   edges |-> [press |-> Playing(Leave("a", "b", "x", "portal"), "locked", "v", 1, "")]]

Spinners == {Spinner}
============================================================================
