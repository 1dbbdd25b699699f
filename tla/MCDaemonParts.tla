----------------------------- MODULE MCDaemonParts -----------------------------
(***************************************************************************)
(* Settings and torrents for TLC.  With a second of three nanoseconds and  *)
(* durations below sixteen, six seconds wrap to a negative time and eleven *)
(* to a little more than nothing; two days of two seconds just fit, and    *)
(* seven nanoseconds are no whole seconds.                                 *)
(***************************************************************************)
EXTENDS DaemonParts

SomeSettings ==
  {[form |-> "empty", n |-> 0], [form |-> "zero", n |-> 0],
   [form |-> "days", n |-> 0], [form |-> "days", n |-> 2],
   [form |-> "seconds", n |-> 3], [form |-> "seconds", n |-> 6], [form |-> "seconds", n |-> 11],
   [form |-> "span", n |-> 7]}

-----------------------------------------------------------------------------
\* Parts of file names, numbered as their texts sort: "01", "1", "10", a number of twenty
\* digits, "2", and letters.
Number(t, n, l) == [text |-> t, upper |-> FALSE, digits |-> TRUE, num |-> n, len |-> l]
Letter(t, u) == [text |-> t, upper |-> u, digits |-> FALSE, num |-> NoNumber, len |-> 1]
OneOh == Number(1, 1, 2)
One == Number(2, 1, 1)
Ten == Number(3, 10, 2)
Big == Number(4, NoNumber, 20)
Two == Number(5, 2, 1)
a == Letter(7, FALSE)
A == Letter(7, TRUE)
x == Letter(9, FALSE)
SomeChunks == {One, OneOh, Ten, Big, Two, a, A, x}

M(p) == [path |-> p, media |-> TRUE, list |-> FALSE, valid |-> TRUE]
L(p) == [path |-> p, media |-> FALSE, list |-> TRUE, valid |-> TRUE]

SomeFiles ==
  {M(<<x, Ten>>), M(<<x, Two>>), M(<<x, Big>>), M(<<x, OneOh>>), M(<<x, a, One>>), M(<<x, A>>),
   L(<<x>>), L(<<x, A>>), [M(<<x>>) EXCEPT !.media = FALSE], [M(<<x, One>>) EXCEPT !.valid = FALSE]}

\* Three files each, of which the last is a media file in one of two directories.
SomeTorrents ==
  {<< >>} \cup {<<f, g, h>> : f, g \in SomeFiles, h \in {M(<<x, Two>>), M(<<x, a, Two>>)}}
=============================================================================
