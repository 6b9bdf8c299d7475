---------------------------- MODULE MCSlideShow ----------------------------
(* boot.ini files of three lines, with and without spaces around "=",   *)
(* lines of another key and lines commented out.  With ScreenUnit = 6 three   *)
(* pictures just fit below the frame buffer.                                  *)
EXTENDS SlideShow

Line(comment, key, eq, gap, names) ==
  [comment |-> comment, key |-> key, eq |-> eq, gap |-> gap, names |-> names]
Tight == <<"=">>
Loose == <<" ", "=", " ">>
One == <<" ">>

Lines ==
  {Line(<<>>, "BMP", Tight, One, <<"tian">>),
   Line(<<>>, "BMP", Loose, One, <<"tian", "leaf">>),
   Line(<<>>, "BMP", Loose, <<" ", " ">>, <<"leaf", "tian", "rose">>),
   Line(<<"#">>, "BMP", Tight, One, <<"rose", "leaf">>),
   Line(<<"#", " ">>, "BMP", Loose, One, <<"rose">>),
   Line(<<>>, "OS", Tight, One, <<"song">>),
   Line(<<>>, "WAV", Tight, One, <<"today">>),
   Line(<<>>, "WAV", Loose, One, <<"song", "today">>)}

MCInis == {<<>>} \cup {<<k, l, m>> : k \in Lines, l \in Lines, m \in Lines}
=============================================================================
