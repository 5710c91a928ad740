----------------------------- MODULE MCStatement -----------------------------
EXTENDS StatementProps

(* All texts of up to n pieces. *)
TextsOf(pieces, n) == {FlattenSeq(s) : s \in BoundedSeq(pieces, n)}

(* What may be hidden, with everything that hides it. *)
Strings == { <<"'">>, <<"E">>, <<"bs">>, <<"dq">>, <<":", "a">> }
Comments == { <<"-">>, <<"/">>, <<"/", "*">>, <<"*", "/">>, <<"nl">>, <<":", "a">> }
Dollars == { <<"$">>, <<"a">>, <<"1">>, <<":">>, <<"'">> }
Marks == { <<"?">>, <<":">>, <<"|">>, <<"a">>, <<" ">>, <<"$", "1">> }

(* Names that begin like an escape string. *)
Names == { <<":">>, <<"E", "'">>, <<"bs", "'">>, <<"?">> }

(* Several parameters, and arguments of every size for them. *)
Params == { <<":", "a">>, <<":", "b">>, <<"?">>, <<" ">>, <<"'">> }

Statements ==
  TextsOf(Strings, 5) \cup TextsOf(Comments, 5) \cup TextsOf(Dollars, 5)
  \cup TextsOf(Marks, 4) \cup TextsOf(Names, 4) \cup TextsOf(Params, 4)
=============================================================================
