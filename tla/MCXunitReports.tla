--------------------------- MODULE MCXunitReports ---------------------------
EXTENDS XunitReports

(* Directory a.b and a_b have the same lit name; abb differs from both in  *)
(* its lit name but matches the pattern a?b; x_y is a file name with an    *)
(* underscore that lit does not touch.                                     *)
MCTests ==
    { [dir |-> <<"a", ".", "b">>, file |-> <<"x">>],
      [dir |-> <<"a", "_", "b">>, file |-> <<"x">>],
      [dir |-> <<"a", "b", "b">>, file |-> <<"x">>],
      [dir |-> <<"a">>,           file |-> <<"x", "_", "y">>] }
=============================================================================
