--------------------------- MODULE MCSupervision ---------------------------
(* Two ledgers, the waves kicked on them, and the board they are frozen from. *)
EXTENDS Supervision

CONSTANTS a, b, c, d, e, f, g, old, wab, wc, wd, wf, wg

Filed(status, deps, verified) == [status |-> status, dependsOn |-> deps, verified |-> verified]

\* a depends on b of its own wave, c on a ticket closed in one of its two files, d on an
\* open one outside its wave, which also lacks a verify command.  The drain selects f,
\* whose plan worker is unknown, and g, whose second file has no verify command; the
\* second file of c does not matter.  a and b need all the launches a kick has.
Board == [t \in Ticket |->
    CASE t = a -> <<Filed("open", {b}, TRUE)>>
      [] t = c -> <<Filed("open", {old}, TRUE), Filed("blocked", {old}, TRUE)>>
      [] t = d -> <<Filed("open", {e}, TRUE)>>
      [] t = e -> <<Filed("open", {}, FALSE)>>
      [] t = g -> <<Filed("open", {}, TRUE), Filed("open", {}, FALSE)>>
      [] t = old -> <<Filed("open", {}, TRUE), Filed("done", {}, TRUE)>>
      [] OTHER -> <<Filed("open", {}, TRUE)>>]
Asks == [w \in Wave |->
    CASE w = wab -> <<a, b>> [] w = wc -> <<c>> [] w = wd -> <<d>> [] w = wf -> <<f>>
      [] w = wg -> <<g>>]
Home == [w \in Wave |-> IF w = wc THEN 2 ELSE 1]
=============================================================================
