------------------------------- MODULE MCSdhc -------------------------------
(* Cards of both kinds of addressing and of the three versions of the SCR.    *)
EXTENDS Sdhc

MCCards == [kind : {"byte", "block"}, ver : {0, 2}]
=============================================================================
