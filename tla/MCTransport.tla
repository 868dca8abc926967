---------------------------- MODULE MCTransport -----------------------------
(* Instances of Transport for TLC.                                         *)
EXTENDS Transport, TLC

(* One or two answers, the last of them perhaps a 101; then SSH, or none.  *)
Switch  == <<"101", "header", "blank">>
Other   == <<"status", "header", "blank">>
Banner  == <<"ssh">>
Heads   == {<<>>, Switch, Other, Other \o Switch, Other \o Other}
AnyAnswers == {h \o b : h \in Heads, b \in {<<>>, Banner}}
ASSUME HeadedAssumption == \A a \in AnyAnswers : Headed(a)

(* The proxy's single answer is "200 OK", as the shipped configuration     *)
(* expects, and the SSH server speaks next.                                *)
PlainAnswers == {Other \o Banner}

TCPSettings == [tls : BOOLEAN, payload : BOOLEAN, tail : BOOLEAN, kind : {"tcp"}]
AllSettings == [tls : BOOLEAN, payload : BOOLEAN, tail : BOOLEAN, kind : {"tcp", "ws"}]
=============================================================================
