----------------------------- MODULE MCShadowRun -----------------------------
(* Two runs of three models, with caps that the reservations offered exceed *)
(* together: the two Sonnet calls compete for their model's cap, the        *)
(* DeepSeek calls of run "a" for its number of calls.                       *)
EXTENDS ShadowRun

Amounts(cost, tokens) == [cost |-> cost, input |-> tokens, output |-> tokens]

D1 == Reservation("d1", "a", "1", "DEEPSEEK_PRIMARY", Amounts(2, 1))
D2 == Reservation("d2", "a", "2", "DEEPSEEK_PRIMARY", Amounts(2, 1))
D3 == Reservation("d3", "b", "1", "DEEPSEEK_PRIMARY", Amounts(2, 2))
S1 == Reservation("s1", "a", "3", "CLAUDE_SONNET_L1", Amounts(2, 1))
S3 == Reservation("s3", "b", "2", "CLAUDE_SONNET_L1", Amounts(2, 1))
O1 == Reservation("o1", "a", "4", "CLAUDE_OPUS_L2",   Amounts(2, 1))

\* The call of D1 under another reservation.
X1 == Reservation("x1", "a", "1", "DEEPSEEK_PRIMARY", Amounts(1, 1))

MCRequests == {<<D1>>, <<D2>>, <<X1>>, <<D1, S1>>, <<D3, S3>>}
MCEscalations == {O1}

One(r) == CallPlan(<<r>>, "CLOSED", TRUE)

MCPlans ==
    { Plan("a", <<CallPlan(<<D1, D2>>, "CLOSED", TRUE)>>, TRUE),
      Plan("a", <<One(D1), One(S1)>>, TRUE),
      Plan("a", <<One(D1), One(S1)>>, FALSE),
      Plan("a", <<One(D1), CallPlan(<<S1>>, "CLOSED", FALSE)>>, TRUE),
      Plan("a", <<One(D1), CallPlan(<<S1>>, "OPEN", TRUE)>>, TRUE),
      Plan("a", <<One(D1), One(S1), One(O1)>>, TRUE),
      Plan("b", <<CallPlan(<<D3>>, "HALF_OPEN", TRUE)>>, TRUE),
      Plan("b", <<One(D3), One(S3)>>, TRUE) }

MCUsages == {Amounts(1, 1), Amounts(2, 1)}

MCCap ==
    [ c \in {<<"cost", s>> : s \in {"total", "run", "DEEPSEEK", "ANTHROPIC",
                    "DEEPSEEK_PRIMARY", "CLAUDE_SONNET_L1", "CLAUDE_OPUS_L2"}}
            \cup {<<"input", "total">>, <<"output", "total">>} |->
        CASE c = <<"cost", "total">> -> 8
          [] c = <<"cost", "run">> -> 7
          [] c = <<"cost", "ANTHROPIC">> -> 5
          [] c = <<"cost", "CLAUDE_SONNET_L1">> -> 3
          [] c = <<"cost", "CLAUDE_OPUS_L2">> -> 2
          [] c \in {<<"cost", "DEEPSEEK">>, <<"cost", "DEEPSEEK_PRIMARY">>} -> 5
          [] OTHER -> 4 ]
=============================================================================
