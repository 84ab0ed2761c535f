--------------------------- MODULE MCMotionGraph ---------------------------
(* Small authored graphs, and the instances of the engine TLC explores.    *)
EXTENDS MotionGraphProperties

Still(kind, frames) == [kind |-> kind, frames |-> frames, ports |-> [home |-> {0}]]

Leave(from, to, trigger, start, maxWait) ==
  [from |-> from, to |-> to, trigger |-> trigger, start |-> start,
   sourcePort |-> "home", targetPort |-> "home", maxWait |-> maxWait,
   kind |-> "none", unit |-> "", frames |-> 0, direction |-> "",
   reverseOf |-> NoReverseOf, continuity |-> IF start = "cut" THEN "cut" ELSE "exact-authored"]

Playing(edge, kind, unit, frames, direction) ==
  [edge EXCEPT !.kind = kind, !.unit = unit, !.frames = frames, !.direction = direction]

Undoing(edge, base) ==
  [edge EXCEPT !.reverseOf = ReverseOf(base), !.continuity = "exact-reverse"]

(* Hover: an intro, two loops a and b joined by a reversible pair, and a   *)
(* held state that is pressed into through a locked unit, left by a cut    *)
(* or by a finish.                                                         *)
Hover ==
  [initial |-> "a", introFrames |-> 2,
   states |-> [a |-> Still("loop", 2), b |-> Still("loop", 1), c |-> Still("held", 1)],
   edges |->
     [in    |-> Playing(Leave("a", "b", OnEvent("enter"), "portal", 1),
                        "reversible", "u", 2, "forward"),
      out   |-> Undoing(Playing(Leave("b", "a", OnEvent("leave"), "portal", 0),
                                "reversible", "u", 2, "reverse"), "in"),
      down  |-> Playing(Leave("b", "c", NoTrigger, "portal", 0), "locked", "v", 2, ""),
      up    |-> Leave("c", "b", OnEvent("enter"), "cut", 1),
      away  |-> Leave("c", "a", OnEvent("leave"), "finish", 0)]]

(* Once: no intro; a finite state that completes by itself, through a      *)
(* locked unit, into a held one; every start policy departs from it.       *)
Once ==
  [initial |-> "a", introFrames |-> 0,
   states |-> [a |-> Still("loop", 2),
               b |-> [kind |-> "finite", frames |-> 3, ports |-> [home |-> {0, 2}]],
               c |-> Still("held", 1)],
   edges |->
     [go    |-> Leave("a", "b", OnEvent("enter"), "cut", 1),
      ended |-> Playing(Leave("b", "c", Completion, "finish", 2), "locked", "w", 2, ""),
      back  |-> Leave("b", "a", OnEvent("leave"), "portal", 1),
      reset |-> Leave("c", "a", OnEvent("leave"), "portal", 0),
      again |-> Leave("c", "b", Completion, "cut", 1)]]

(* Every valid way to join two small bodies a and b by an edge there and   *)
(* an edge back.                                                           *)
Bodies ==
  {[kind |-> k, frames |-> n, ports |-> [home |-> ports]] :
     k \in {"loop", "finite", "held"}, n \in 1..3, ports \in SUBSET (0..2) \ {{}}}

There == {Leave("a", "b", trigger, start, wait) :
            trigger \in {OnEvent("enter"), Completion},
            start \in {"portal", "finish", "cut"}, wait \in 0..2}

Back == {Leave("b", "a", trigger, "portal", 0) : trigger \in {OnEvent("leave"), Completion}}

Joined(there, back) ==
  {[there |-> there, back |-> back],
   [there |-> Playing(there, "locked", "u", 2, ""), back |-> back],
   [there |-> Playing(there, "reversible", "u", 2, "forward"),
    back  |-> Undoing(Playing(back, "reversible", "u", 2, "reverse"), "there")]}

Pairs ==
  {d \in {[initial |-> "a", introFrames |-> 0,
           states |-> [a |-> bodyA, b |-> Still("held", 1)], edges |-> edges] :
            bodyA \in Bodies,
            edges \in UNION {Joined(there, back) : there \in There, back \in Back}} :
     Valid(d)}

HoverAndOnce == {Hover, Once}
============================================================================
