---------------------------- MODULE MCSuperboot -----------------------------
(* Small instances of Superboot: pages and packets of two bytes. *)
EXTENDS Superboot, TLC

MCImage == <<[is |-> "EOT", what |-> <<"sent", 1>>], [is |-> "x", what |-> <<"sent", 2>>],
             [is |-> "SOH", what |-> <<"sent", 3>>], [is |-> "EOT", what |-> <<"sent", 4>>]>>

L(key, name) ==
  [comment |-> <<>>, key |-> key, eq |-> <<"=">>, gap |-> <<>>, names |-> <<name>>]
Spaced(line) == [line EXCEPT !.eq = <<" ", "=", " ">>]
Commented(line) == [line EXCEPT !.comment = <<"#">>]
MCInis == {
  <<L("OS", "prog"), L("BMP", "pic")>>,
  <<L("BMP", "pic"), Spaced(L("OS", "prog"))>>,
  <<L("BMP", "prog")>>,
  <<Commented(L("OS", "pic")), L("OS", "prog")>>,
  <<L("BMP", "pic"), L("WAV", "pic"), L("OS", "prog")>>}

MCTails == {<<>>, <<"OS", "=", "prog", "\n">>}

MCKeys == {"k", " ", "\n"}

MCLines == {
  <<"bootm", "\n">>, <<"go", "\n">>, <<"go", " ", "0x20008000", "\n">>,
  <<"loadx", "\n">>, <<"k", "BS", "loadx", " ", "0x20008000", "\n">>,
  <<"loadb", " ", "4", "\n">>, <<"loadb", " ", "3", "\n">>,
  <<"nand", " ", "read", " ", "0x21000000", " ", "0x400000", " ", "3", "\n">>,
  <<"nand", " ", "read", " ", "0x20807800", " ", "0x400001", " ", "3", "\n">>,
  <<"nand", " ", "write", " ", "0x21000000", " ", "0x400000", " ", "3", "\n">>,
  <<"mw", " ", "0x21000000", " ", "3", "\n">>,
  <<"sdload", " ", "prog", " ", "0x21000000", "\n">>, <<"sdload", "\n">>,
  <<"draw", "\n">>, <<"\n">>}

MCAtoi == "3" :> 3 @@ "4" :> 4 @@ "0x20008000" :> 0 @@ "0x20807800" :> 2
          @@ "0x21000000" :> 6 @@ "0x400000" :> 2 @@ "0x400001" :> 3
=============================================================================
