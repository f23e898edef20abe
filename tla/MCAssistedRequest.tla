-------------------------- MODULE MCAssistedRequest --------------------------
(***************************************************************************)
(* An instance of AssistedRequest for TLC: answers that are complete, too  *)
(* long, without effect, with a bad approver, and in part only; texts in   *)
(* the fixed pattern without effect, without a target, with nothing to     *)
(* change from, and too long with an approver that is no address.          *)
(***************************************************************************)
EXTENDS AssistedRequest

MCSummaries == {Blank, "x", "X", "y"}
MCFold == [s \in MCSummaries |-> IF s = "X" THEN "x" ELSE s]
MCApprovers == {Blank, "ann", "@ann", "@", ".@-b.co", "@-b.co"}
MCNormal == [a \in MCApprovers |-> CASE a = "ann" -> "@ann"
                                       [] a = ".@-b.co" -> "@-b.co"
                                       [] OTHER -> a]

Answer(t, x, y, a) == [target |-> t, from |-> x, to |-> y, approver |-> a]

MCAnswers ==
    {Answer("t", "x", "y", "ann"), Answer("long", "x", "y", "@ann"),
     Answer("t", "x", "X", "@ann"), Answer("t", "x", Blank, "@ann"),
     Answer("t", Blank, "X", "@ann"), Answer("t", "x", "y", "@")}

MCPatterns ==
    {Answer("t", "x", "X", "@ann"), Answer(Blank, "x", "y", "ann"),
     Answer("t", Blank, "y", "ann"), Answer("long", "x", "y", ".@-b.co")}
=============================================================================
