------------------------------ MODULE MCConfig ------------------------------
(* Deployments that differ in the knobs the export and the loader treat apart. *)
EXTENDS Integers, FiniteSets, Functions, TLC

VARIABLES deployment, shell, document, shown, left, running

Plain == <<"", "mnemonic">> :> "words" @@ <<"", "host">> :> "host"
Flag(stem, values) == {<<>>} \cup {<<stem, "enabled">> :> v : v \in values}
Knob(stem, field, values) == {<<>>} \cup {<<stem, field>> :> v : v \in values}
Onto(A, B) == {a @@ b : a \in A, b \in B}
Runs(envs, rows) == {[env |-> e @@ Plain, row |-> r] : e \in envs, r \in rows}

Lnd == <<"", "backend">> :> "lnd" @@ <<"", "socket">> :> "socket"
Dark == [k \in {<<s, "enabled">> : s \in {"LN_SEND", "LN_RECEIVE", "ONCHAIN_SEND"}} |-> "false"]
Token == <<"", "evmTokens">> :> "token" @@ <<"", "priceFeed">> :> "feed" @@ Dark
Asset(symbol) == <<"", "assetMarkets">> :> symbol @@ Dark

Btc ==
  Onto(Onto(Flag("LN_SEND", {"true", "false"}), Flag("LN_RECEIVE", {"false", "maybe"})),
       Onto(Flag("ONCHAIN_SEND", {"false"}),
            Onto({<<>>, Lnd, <<"", "backend">> :> "fake"}, Knob("", "network", {"regtest"}))))
Terms ==
  Onto({Lnd}, Onto(Onto(Knob("ONCHAIN_SEND", "minSats", {2, 9}), Knob("ONCHAIN_SEND", "maxSats", {3})),
                   Onto(Onto(Knob("ONCHAIN_SEND", "feeCapSats", {1}), Knob("ONCHAIN_SEND", "feeMinSats", {0, 2})),
                        Onto(Knob("LN_SEND", "feeCapSats", {1}), Knob("", "maxSwapSats", {4})))))
Scalars ==
  Onto({Lnd}, Onto(Onto(Knob("", "acceptGap", {"true", "false"}), Knob("LN_RECEIVE", "maxSats", {4})),
                   Onto(Knob("", "exitDelay", {1, 9}), Onto(Knob("", "refreshMs", {1, 901}), Knob("", "staleMs", {60})))))
Tokens ==
  Onto({Token, Dark}, Onto(Onto(Flag("EVM_SEND", {"false"}), Knob("EVM_RECEIVE", "minSats", {2})),
                     Onto(Onto(Knob("EVM_SEND", "minUnits", {5}), Knob("EVM_SEND", "maxUnits", {7})),
                          Onto(Knob("", "rpcUrl", {"url"}), Knob("", "chainId", {1})))))
Assets ==
  Onto({Asset("USDA"), Asset("BTC"), Dark},
       Onto(Onto(Flag("TO_BTC", {"true", "false"}), Flag("FROM_BTC", {"false"})),
            Onto(Onto(Flag("BUY", {"true", "false"}), Flag("SELL", {"false"})),
                 {<<>>, <<"", "offerMarkets">> :> {"BTC", "id"} @@ <<"", "minFill">> :> 1 @@ <<"", "maxFill">> :> 2,
                  <<"", "offerMarkets">> :> {"BTC", "id"} @@ <<"", "minFill">> :> 1})))

CD == INSTANCE ConfigDocument WITH
  NetworkLimits <- [bitcoin |-> [min |-> 1, max |-> 5], regtest |-> [min |-> 2, max |-> 6]], MaxBps <- 9999, MaxDelay <- 8,
  Deployments <- Runs(Btc \cup Terms \cup Scalars \cup Tokens, {"none"}) \cup Runs(Assets, {"none", "base", "quote"})

(* One deployment, for the behaviours that are about something else. *)
Sample(d) == d.env = Plain @@ Dark /\ d.row = "none"
ConfigInit == CD!ConfigInit
ConfigNext == CD!ConfigNext
ConfigurationIsKept == CD!ConfigurationIsKept
=============================================================================
