---- MODULE MCReleaseCheck ----
(* A support agent with a model, an order lookup, refunds and a chat        *)
(* channel, for TLC.                                                        *)
EXTENDS ReleaseCheck

Alice == "alice@example.com"
Key == "sk_live_1234567890abcdef"
Phone == "4155552671"

MCLowered == "Authorization" :> "authorization" @@ "X-Customer" :> "x-customer" @@ "POST" :> "post"
               @@ "CALL" :> "call" @@ "SLACK.com" :> "slack.com"
MCUppered == "post" :> "POST"
MCEmails == {Alice, "user_" \o Alice \o "@scrub.local"}
MCDetected == Alice :> {"email"} @@ "user_" \o Alice \o "@scrub.local" :> {"email"} @@ Key :> {"api_key"}
                @@ Phone :> {"phone"}
MCWords == "issue_refund" :> <<"issue", "refund">> @@ "lookup_order" :> <<"lookup", "order">>
MCMentions ==
  "issue_refund" :> {"financial"} @@ "slack" :> {"external_message"} @@ "slack.com" :> {"external_message"}
    @@ "chat.postMessage" :> {"external_message"}
MCLiterals == "#200" :> "200" @@ "#500" :> "500" @@ "#5" :> "5" @@ "#phone" :> "4.155552671e+09"
MCNumberOf == "500" :> 500 @@ "#500" :> 500 @@ "#5" :> 5
MCTiers == <<"exact", "nearest_neighbor", "state_synthesis", "llm_synthesis">>
MCServiceIgnored ==
  "stagehand.tool" :> [request |-> {<<"body", "args", "nonce">>}, response |-> {<<"body", "at">>}]

Event(n, type, data) == [seq |-> n, t |-> n, sim |-> n, type |-> type, data |-> data, nested |-> ""]
Call(n, service, operation, protocol, method, url, headers, body, data) ==
  [run |-> "sdk", id |-> "int_" \o ToString(n), parent |-> "", seq |-> n, service |-> service,
   operation |-> operation, protocol |-> protocol, tier |-> "", url |-> url, method |-> method,
   headers |-> headers, body |-> body,
   events |-> <<Event(1, "request_sent", Absent), Event(2, "response_received", data)>>,
   redacted |-> {}, kinds |-> {}, policy |-> "v0", salt |-> "unset", latency |-> 1]

Tool(n, name, body) ==
  Call(n, "stagehand.tool", name, "tool", "CALL", [scheme |-> "tool", host |-> name, path |-> "", query |-> <<>>],
       Absent, Obj([name |-> Leaf(name), args |-> body]), Obj([body |-> Obj([at |-> Leaf("t" \o ToString(n))])]))

Chat(n) ==
  Call(n, "openai", "chat.completions.create", "https", "post",
       [scheme |-> "https", host |-> "api.openai.com", path |-> "/v1/chat", query |-> <<<<"user", Alice>>, <<"page", "1">>>>],
       Obj([Authorization |-> Arr(<<Leaf(Key)>>)]),
       Obj([model |-> Leaf("gpt"), messages |-> Arr(<<Leaf(Alice), Leaf(Phone), Leaf("hi")>>)]),
       Obj([status_code |-> Leaf("#200"), headers |-> Obj("X-Customer" :> Leaf(Alice)),
            body |-> Obj([text |-> Leaf(Key)])]))
Lookup(n, order) ==
  Tool(n, "lookup_order", Obj([order |-> Leaf(order), nonce |-> Leaf("n" \o ToString(n)),
                               phone |-> Leaf("#phone")]))
Approved == Obj([refund |-> Obj([amount |-> Leaf("#500")]), fee |-> Obj([amount |-> Leaf("#5")]),
                 approved_by |-> Leaf("bob")])
Refund(n) == Tool(n, "issue_refund", Approved)
Unapproved(n) == Tool(n, "issue_refund", Obj([amount |-> Leaf("500")]))
Sync(n) == Tool(n, "frobnicate", Obj([card |-> Leaf(Key)]))
Notify(n) ==
  Call(n, "slack", "chat.postMessage", "https", "POST",
       [scheme |-> "https", host |-> "slack.com", path |-> "/api", query |-> <<>>],
       Absent, Obj([to |-> Obj([channel |-> Leaf("#ops")]), copy |-> Obj([channel |-> Leaf("#all")])]), Absent)

MCBundles == {<<Chat(1), Lookup(2, "A1")>>, <<Lookup(1, "A1"), [Refund(2) EXCEPT !.parent = "int_1"]>>}
MCLiveCalls == {<<>>, <<Unapproved(9)>>, <<Notify(8), Sync(9)>>}

MCRules == <<Rule("card", <<"request", "body", "args", "card">>, "mask"),
             Rule("page", <<"request", "query", "page">>, "preserve")>>
MCOverrides == <<>>
MCApprovable == {Action(<<"tool", "frobnicate">>, "unknown", FALSE, <<>>, <<>>, {}, "")}

Anything == [selector |-> <<>>]
Gate(name, clause, body) == [name |-> name, clauses |-> clause :> body]
Gates ==
  <<Gate("new", "forbid_new_action", Anything),
    Gate("large", "max_amount", [selector |-> [tool |-> "issue_refund"], amount |-> 100]),
    Gate("money", "require_approval", [selector |-> [side_effect |-> "financial"], when |-> <<>>]),
    Gate("channel", "allowed_channels", [selector |-> [service |-> "slack"], values |-> <<"#ops">>]),
    Gate("domain", "allowed_domains", [selector |-> [service |-> "slack"], values |-> <<"SLACK.com">>]),
    Gate("unknown", "block_if", [selector |-> <<>>, when |-> [unknown_risk |-> TRUE]])>>
BadGates == <<Gate("bad", "max_amount", [selector |-> [tool |-> "issue_refund", service |-> "slack"], amount |-> 1])>>
MCGateFiles == {NoFile, Gates, BadGates}

MCAssertions ==
  <<[id |-> "once", type |-> "count", match |-> [tool |-> "lookup_order"],
     expect |-> [count |-> [min |-> 1, max |-> 1]]],
    [id |-> "first", type |-> "ordering", before |-> [tool |-> "lookup_order"],
     after |-> [side_effect |-> "financial", amount_gt |-> 100]],
    [id |-> "exact", type |-> "fallback-prohibition", match |-> [tool |-> "lookup_order"],
     expect |-> [disallowed_tiers |-> <<"nearest_neighbor">>]],
    [id |-> "order", type |-> "payload-field", match |-> [tool |-> "lookup_order"],
     expect |-> [path |-> <<"request", "body", "args", "order">>, equals |-> Leaf("A1")]],
    [id |-> "same", type |-> "cross-service",
     left |-> [tool |-> "lookup_order", path |-> <<"response", "body", "at">>],
     right |-> [tool |-> "lookup_order", path |-> <<"response", "body">>], relationship |-> "equals"],
    [id |-> "never", type |-> "forbidden-operation", match |-> [tool |-> "frobnicate"]]>>
BadAssertions == <<[id |-> "", type |-> "count"]>>
MCAssertionFiles == {NoFile, MCAssertions, BadAssertions}
====
