----------------------------- MODULE MCFalloutQueue -----------------------------
(* Instances of FalloutQueue for TLC: an account uploaded sound, with a      *)
(* pending payment and with an expired contract, another account, and a line *)
(* without a name.                                                           *)
EXTENDS FalloutQueue

CONSTANTS s1, s2

(* A deployment whose staged entity keeps the fields the checks look at.   *)
WideEntity == Contract({"id", "name"}, KrakenAccount.required \cup
                       {"pendingPayment", "contractStatus"})
Sound(account) == [f \in FieldsOf(WideEntity) \ {"pendingPayment", "contractStatus"} |->
                      IF f = "number" THEN account
                      ELSE IF f = "accountType" THEN "DOMESTIC" ELSE "0"]
Upload == {Sound("a"), With(Sound("a"), "pendingPayment", "Y"),
           With(Sound("b"), "contractStatus", "EXPIRED"), With(Sound("b"), "name", "")}

Says(n, code) == [says |-> Wording(n), quotes |-> code]
Quotes(code) == [says |-> {}, quotes |-> code]
Answers == {[NoPayload EXCEPT !.message = Says(10302, CT(10302))],
            [NoPayload EXCEPT !.message = Quotes(<<"KT-GB", 4011>>)],
            [NoPayload EXCEPT !.code = CT(10021)],
            [NoPayload EXCEPT !.error = Quotes(CT(10006))]}
KrakenProject == [plugin |-> None, adapter |-> "kraken"]
TwoSessions == {s1, s2}
SessionSymmetry == Permutations(TwoSessions)
OnlyResolve == {"resolved"}
=============================================================================
