--------------------------- MODULE MC_BlendSave ---------------------------
(* Instances of BlendSave for TLC. *)
EXTENDS BlendSave, FiniteSets
CONSTANTS t1, t2, a1, a2, a3, k1, k2, k3

Form(body, events, noweigh) ==
    [body |-> body, series |-> "day", events |-> events, noweigh |-> noweigh]

OneSingle     == (t1 :> "single")
TwoSingle     == (t1 :> "single" @@ t2 :> "single")
OneContinuous == (t1 :> "continuous")

(* A plain blend, in two versions of the worker's figures.                 *)
PlainForms == {Form("x", << <<>> >>, None), Form("y", << <<>> >>, None)}

(* Blends whose total was raised: by one approval, by two, without a       *)
(* manager; and a test saved without weighing.                             *)
RaisedForms == {Form("x", << <<1>> >>, None), Form("x", << <<Absent, 2>> >>, None),
                Form("x", << <<1, 2>> >>, None), Form("x", << <<>> >>, 2)}

(* Two lots weighed in one go, one of them raised; also as a test, whose   *)
(* LOTs are a series of their own.                                         *)
LotForms == {Form("x", << <<>>, <<>> >>, None),
             [Form("y", << <<>>, <<1>> >>, None) EXCEPT !.series = "test"],
             Form("x", << <<1>>, <<1>> >>, None)}

Symmetry == Permutations(Attempts) \cup Permutations(RequestIds)
=============================================================================
