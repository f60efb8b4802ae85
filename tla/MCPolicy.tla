------------------------------ MODULE MCPolicy ------------------------------
(***************************************************************************)
(* Instances of Policy for TLC: an agent that looks up orders, transfers   *)
(* money and keeps local notes, under a few small bundles.                 *)
(***************************************************************************)
EXTENDS Policy

CONSTANT all  \* an amount that is no number

Kinds == {"tool", "llm_call", "local"}
Tools == {"lookup", "transfer", "note"}
Call(kind, target, order, amount) ==
  [kind |-> kind, target |-> target, args |-> [order |-> order, amount |-> amount]]

Lookup1 == Call("tool", "lookup", "o1", Absent)
Transfer1 == Call("tool", "transfer", "o1", 1)
Transfer2 == Call("tool", "transfer", "o2", 2)
TransferAll == Call("tool", "transfer", "o1", all)
Note == Call("local", "note", "o1", Absent)
OneExecution == {"e1"}
TwoExecutions == {"e1", "e2"}
FewCalls == {Lookup1, Transfer1, Transfer2}
AllCalls == FewCalls \cup {TransferAll, Note}
Delivered == {[order |-> "delivered", amount |-> Absent]}

On(targets, arguments) == [targets |-> targets, kinds |-> Kinds, arguments |-> arguments]
SameOrder == {[name |-> "order", accepts |-> {"o1", "o2"}, equalsArg |-> "order"]}
IsDelivered == {[name |-> "order", accepts |-> {"delivered"}, equalsArg |-> Absent]}
NoJudgeConfig == [threshold |-> 0, fallback |-> ""]
Rule(when, history, then) ==
  [when |-> when, history |-> history, then |-> then, judge |-> NoJudgeConfig]
Clause(when, scope, within) ==
  [when |-> when, scope |-> scope, within |-> within, result |-> {}, sum |-> Absent,
   distinct |-> Absent, atLeast |-> NoBound, atMost |-> NoBound]

AllowLookups == Rule(On({"lookup"}, {}), <<>>, "allow")
AskTransfers == Rule(On({"transfer"}, {}), <<>>, "require_approval")
Looked(scope, within) == Clause(On({"lookup"}, SameOrder), scope, within)

(* A cap on the sum transferred, written above a stricter rule.            *)
Capped ==
  [rules |-> <<AllowLookups,
               Rule(On({"transfer"}, {}),
                    <<[Clause(On({"transfer"}, {}), "session", 2)
                         EXCEPT !.sum = "amount", !.atMost = 2]>>, "allow"),
               AskTransfers>>,
   default |-> "deny"]
(* Windows and scopes: a lookup of the same order just now; one in this    *)
(* execution after a note anywhere; transfers for two different orders.    *)
Looking ==
  [rules |-> <<Rule(On({"transfer"}, {}), <<Looked("session", 1)>>, "allow"),
               Rule(On({"transfer"}, {}),
                    <<Looked("execution", 2), Clause(On({"note"}, {}), "session", 0)>>, "deny"),
               Rule(On({"transfer"}, {}),
                    <<[Clause(On({"transfer"}, {}), "session", 2)
                         EXCEPT !.distinct = "order", !.atLeast = 2]>>, "allow"),
               AskTransfers>>,
   default |-> "allow"]
(* A transfer needs a lookup of the order that returned "delivered".       *)
AfterDelivery ==
  [rules |-> <<AllowLookups,
               Rule(On({"transfer"}, {}),
                    <<[Looked("execution", 0) EXCEPT !.result = IsDelivered]>>, "allow")>>,
   default |-> "deny"]
(* Small transfers are judged more easily than the others.                 *)
Judged ==
  [rules |-> <<[Rule(On({"transfer"}, {[name |-> "amount", accepts |-> {1}, equalsArg |-> Absent]}),
                     <<>>, "judge") EXCEPT !.judge = [threshold |-> 4, fallback |-> "deny"]],
               Rule(On({"transfer"}, {}), <<>>, "judge")>>,
   default |-> "allow"]
SomeBundles == {Capped, Looking, AfterDelivery, Judged}

Tenths(d, r) == [deny |-> d, require_approval |-> r, allow |-> 10 - d - r]
SomeAnswers ==
  {NoJudge, NoReply, Tenths(0, 0), Tenths(5, 5), Tenths(0, 5), Tenths(4, 4), Tenths(4, 3),
   Tenths(3, 3), Tenths(3, 6)}
=============================================================================
