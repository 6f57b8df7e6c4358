--------------------------- MODULE ConfigDocument ---------------------------
(***************************************************************************)
(* Moving a deployment from environment variables to the config document:   *)
(* the export, the document an operator puts in place, and the boot that    *)
(* loads it (config.ts, config/*.ts).                                       *)
(*                                                                         *)
(* A set of knobs is a function of the knobs that are set, each named by    *)
(* its stem and its field.  One ERC-20 token and one Arkade asset stand for *)
(* the lists of them, and of the knobs read alike one or two of each kind.  *)
(* A result that may be refused is a set: empty for a thrown error.         *)
(***************************************************************************)
EXTENDS Integers, FiniteSets, Functions, TLC

CONSTANTS
  Deployments,     \* environments and the stored market row, [env, row]: row is "none", "base" or "quote"
  NetworkLimits,   \* the limits of each network, [network -> [min, max]]
  MaxBps, MaxDelay \* the largest fee rate, the longest exit delay that can be encoded

VARIABLES
  deployment,      \* what the old process ran with
  shell,           \* the old variables still set when the new process boots
  document,        \* {} or the document the operator put in place
  shown,           \* {} or the document a failed boot printed
  left,            \* the BTC corridors the operator took out of the document
  running          \* {} or the configuration in force

cvars == <<deployment, shell, document, shown, left, running>>

Get(knobs, k) == IF k \in DOMAIN knobs THEN {knobs[k]} ELSE {}
Else(knobs, k, default) == IF k \in DOMAIN knobs THEN knobs[k] ELSE default
Scalar(name) == <<"", name>>

-----------------------------------------------------------------------------
(* configFromKnobs *)

BtcStems == {"LN_SEND", "LN_RECEIVE", "ONCHAIN_SEND"}
EvmStems == {"EVM_SEND", "EVM_RECEIVE"}
AssetStems == {"FROM_BTC", "TO_BTC"}
Common == {"enabled", "minSats", "maxSats", "feeBps", "feeFlatSats"}
Fields(stem) ==
  CASE stem = "ONCHAIN_SEND" -> Common \cup {"feeCapSats", "feeMinSats"}
    [] stem \in EvmStems -> Common \cup {"minUnits", "maxUnits"}
    [] stem \in AssetStems -> {"enabled"}
    [] OTHER -> Common

(* An unset switch is on; one that says neither true nor false is an error. *)
corridorEnabledFrom(knobs, stem) == Else(knobs, <<stem, "enabled">>, "true") = "true"
Readable(knobs, k) == Get(knobs, k) \subseteq {"true", "false"}
Within(knobs, k, low, high) == Get(knobs, k) \subseteq low .. high
Positive(knobs, k) == \A n \in Get(knobs, k) : n > 0

Lower(a, b) == IF a < b THEN a ELSE b
Higher(a, b) == IF a > b THEN a ELSE b
(* Limits only narrow. *)
narrow(base, knobs, low, high) ==
  [min |-> Higher(base.min, Else(knobs, low, base.min)), max |-> Lower(base.max, Else(knobs, high, base.max))]
Narrows(base, knobs, low, high) ==
  /\ Positive(knobs, low) /\ Positive(knobs, high)
  /\ narrow(base, knobs, low, high).min <= narrow(base, knobs, low, high).max

Network(knobs) == Else(knobs, Scalar("network"), "bitcoin")
resolveLimits(knobs) == narrow(NetworkLimits[Network(knobs)], knobs, Scalar("unset"), Scalar("maxSwapSats"))

corridorLimits(knobs, stem) == narrow(resolveLimits(knobs), knobs, <<stem, "minSats">>, <<stem, "maxSats">>)
corridorFee(knobs, stem) ==
  [bps |-> Else(knobs, <<stem, "feeBps">>, 0), flat |-> Else(knobs, <<stem, "feeFlatSats">>, 0)]
FeeReadable(knobs, stem, high) ==
  Within(knobs, <<stem, "feeBps">>, 0, high) /\ Within(knobs, <<stem, "feeFlatSats">>, 0, 1000000)

(* Live pricing of the network fee: a floor needs a cap above it, and one corridor can be priced so. *)
corridorNetworkFee(knobs, stem) ==
  {[cap |-> cap, min |-> Else(knobs, <<stem, "feeMinSats">>, 0)] : cap \in Get(knobs, <<stem, "feeCapSats">>)}
NetworkFeeReadable(knobs, stem) ==
  /\ Within(knobs, <<stem, "feeCapSats">>, 1, 1000000)
  /\ Within(knobs, <<stem, "feeMinSats">>, 0, 1000000)
  /\ \A low \in Get(knobs, <<stem, "feeMinSats">>) : \E cap \in Get(knobs, <<stem, "feeCapSats">>) : low <= cap
  /\ Get(knobs, <<stem, "feeCapSats">>) # {} => stem = "ONCHAIN_SEND"

(* A BTC corridor needs a Lightning backend, an LND its socket, and mainnet no fake. *)
lnBackendReadable(knobs) ==
  /\ Get(knobs, Scalar("backend")) \subseteq {"lnd", "fake"}
  /\ Get(knobs, Scalar("backend")) = {} => \A stem \in BtcStems : ~corridorEnabledFrom(knobs, stem)
  /\ Get(knobs, Scalar("backend")) = {"fake"} => Network(knobs) # "bitcoin"
  /\ Get(knobs, Scalar("backend")) = {"lnd"} => Get(knobs, Scalar("socket")) # {}

(* Taking the loss of a censoring server is bounded by a cap set on purpose. *)
acceptsUnilateralGap(knobs) == Get(knobs, Scalar("acceptGap")) = {"true"}
GapReadable(knobs) ==
  /\ Readable(knobs, Scalar("acceptGap"))
  /\ acceptsUnilateralGap(knobs) /\ Network(knobs) = "bitcoin" => Get(knobs, <<"LN_RECEIVE", "maxSats">>) # {}

ExitDelayReadable(knobs) == Within(knobs, Scalar("exitDelay"), 1, MaxDelay)
FeeRateAges(knobs) == [refresh |-> Else(knobs, Scalar("refreshMs"), 60), stale |-> Else(knobs, Scalar("staleMs"), 900)]
AgesReadable(knobs) ==
  /\ Positive(knobs, Scalar("refreshMs")) /\ Positive(knobs, Scalar("staleMs"))
  /\ FeeRateAges(knobs).stale > FeeRateAges(knobs).refresh

(* Offers are bounded as soon as one market is named. *)
offerFill(knobs) ==
  IF Get(knobs, Scalar("offerMarkets")) = {} THEN [min |-> 0, max |-> 0]
  ELSE [min |-> knobs[Scalar("minFill")], max |-> knobs[Scalar("maxFill")]]
OffersReadable(knobs) ==
  Get(knobs, Scalar("offerMarkets")) # {} =>
    /\ {Scalar("minFill"), Scalar("maxFill")} \subseteq DOMAIN knobs
    /\ offerFill(knobs).min <= offerFill(knobs).max

(* Every listed token is served both ways unless switched off; each needs a feed, and its unit bounds come in pairs. *)
evmPolicy(knobs, stem) ==
  [enabled |-> corridorEnabledFrom(knobs, stem),
   min |-> Else(knobs, <<stem, "minSats">>, resolveLimits(knobs).min),
   max |-> Else(knobs, <<stem, "maxSats">>, resolveLimits(knobs).max),
   fee |-> corridorFee(knobs, stem),
   units |-> Get(knobs, <<stem, "minUnits">>) \cup Get(knobs, <<stem, "maxUnits">>)]
evmCorridorPolicies(knobs) == [s \in IF Get(knobs, Scalar("evmTokens")) = {} THEN {} ELSE EvmStems |-> evmPolicy(knobs, s)]
EvmReadable(knobs) ==
  Get(knobs, Scalar("evmTokens")) # {} =>
    /\ Get(knobs, Scalar("priceFeed")) # {}
    /\ \A stem \in EvmStems :
         /\ Readable(knobs, <<stem, "enabled">>) /\ FeeReadable(knobs, stem, MaxBps + 1)
         /\ \A n \in Get(knobs, <<stem, "minSats">>) : n > 0 /\ n >= resolveLimits(knobs).min
         /\ \A n \in Get(knobs, <<stem, "maxSats">>) : n > 0 /\ n <= resolveLimits(knobs).max
         /\ (Get(knobs, <<stem, "minUnits">>) = {}) = (Get(knobs, <<stem, "maxUnits">>) = {})
         /\ \A low \in Get(knobs, <<stem, "minUnits">>), high \in Get(knobs, <<stem, "maxUnits">>) : low <= high

(* The chain is configured as soon as it has an RPC, and then completely. *)
loadEvmChainConfig(knobs) == IF Get(knobs, Scalar("rpcUrl")) = {} THEN {} ELSE {Get(knobs, Scalar("chainId"))}
ChainReadable(knobs) == Get(knobs, Scalar("rpcUrl")) # {} => Get(knobs, Scalar("chainId")) # {}

(* The direction a client gives the asset and the one it gets it, unless switched off. *)
parseAssetRfqTokens(knobs) ==
  [id \in Get(knobs, Scalar("assetMarkets")) |-> [s \in AssetStems |-> corridorEnabledFrom(knobs, s)]]

KnobsReadable(knobs) ==
  /\ Network(knobs) \in DOMAIN NetworkLimits
  /\ Get(knobs, Scalar("mnemonic")) # {}
  /\ Narrows(NetworkLimits[Network(knobs)], knobs, Scalar("unset"), Scalar("maxSwapSats"))
  /\ \A stem \in BtcStems :
       /\ Readable(knobs, <<stem, "enabled">>) /\ FeeReadable(knobs, stem, MaxBps) /\ NetworkFeeReadable(knobs, stem)
       /\ Narrows(resolveLimits(knobs), knobs, <<stem, "minSats">>, <<stem, "maxSats">>)
  /\ lnBackendReadable(knobs) /\ GapReadable(knobs) /\ ExitDelayReadable(knobs) /\ AgesReadable(knobs) /\ OffersReadable(knobs)
  /\ EvmReadable(knobs) /\ ChainReadable(knobs)
  /\ Get(knobs, Scalar("assetMarkets")) # {} => \A stem \in AssetStems : Readable(knobs, <<stem, "enabled">>)

configFromKnobs(knobs) ==
  IF ~KnobsReadable(knobs) THEN {}
  ELSE {[network |-> Network(knobs), limits |-> resolveLimits(knobs),
         btc |-> [s \in BtcStems |-> [enabled |-> corridorEnabledFrom(knobs, s), limits |-> corridorLimits(knobs, s),
                                      fee |-> corridorFee(knobs, s), live |-> corridorNetworkFee(knobs, s)]],
         evm |-> evmCorridorPolicies(knobs), assets |-> parseAssetRfqTokens(knobs), chain |-> loadEvmChainConfig(knobs),
         backend |-> Get(knobs, Scalar("backend")), gap |-> acceptsUnilateralGap(knobs),
         delay |-> Get(knobs, Scalar("exitDelay")), ages |-> FeeRateAges(knobs), fill |-> offerFill(knobs),
         offers |-> Get(knobs, Scalar("offerMarkets")), mnemonic |-> knobs[Scalar("mnemonic")]]}

-----------------------------------------------------------------------------
(* The document: scalars by path, the chain, assets by label, terms by pair, the markets of offers by label. *)

Bitcoin == "arkade:BTC"
PairOf(stem, label) ==
  CASE stem = "LN_SEND" -> <<Bitcoin, "lightning:BTC">>
    [] stem = "LN_RECEIVE" -> <<"lightning:BTC", Bitcoin>>
    [] stem = "ONCHAIN_SEND" -> <<Bitcoin, "onchain:BTC">>
    [] stem \in {"EVM_SEND", "FROM_BTC"} -> <<Bitcoin, label>>
    [] stem \in {"EVM_RECEIVE", "TO_BTC"} -> <<label, Bitcoin>>
StemsOf(kind) == IF kind = "erc20" THEN EvmStems ELSE AssetStems
Paths == {Scalar(f) : f \in {"network", "mnemonic", "maxSwapSats", "backend", "socket", "acceptGap", "exitDelay", "refreshMs", "staleMs",
                             "minFill", "maxFill", "host"}}
ChainFields == {Scalar("rpcUrl"), Scalar("chainId")}
TokenLabel == "token@evm"
LabelOf(knobs, stem) ==
  IF stem \in EvmStems THEN TokenLabel ELSE Else(knobs, Scalar("assetMarkets"), "")
Copied(knobs, keys) == [k \in DOMAIN knobs \cap keys |-> knobs[k]]
TermsOf(knobs, stem) == [f \in {g \in Fields(stem) : <<stem, g>> \in DOMAIN knobs} |-> knobs[<<stem, f>>]]

(* The old names of an asset's directions mean what the stored row's orientation makes them: BUY has the client give the base. *)
Placed(knobs, row) ==
  LET givesAsset(suffix) == (suffix = "BUY") = (row = "base")
      named == {s \in {"BUY", "SELL"} : <<s, "enabled">> \in DOMAIN knobs}
  IN [stem \in {IF givesAsset(s) THEN "TO_BTC" ELSE "FROM_BTC" : s \in named} |->
        knobs[<<CHOOSE s \in named : givesAsset(s) = (stem = "TO_BTC"), "enabled">>]]
PlacedOver(terms, placed, stem) == IF stem \in DOMAIN placed THEN "enabled" :> placed[stem] ELSE terms

(* The corridors a document could name: the BTC ones, and those of the listed token and asset. *)
Exported(knobs) ==
  BtcStems \cup (IF Get(knobs, Scalar("evmTokens")) = {} THEN {} ELSE EvmStems)
           \cup (IF Get(knobs, Scalar("assetMarkets")) = {} THEN {} ELSE AssetStems)

Written(knobs, row, always) ==
  LET terms == [s \in Exported(knobs) |-> PlacedOver(TermsOf(knobs, s), Placed(knobs, row), s)]
      kept == {s \in Exported(knobs) : s \in always \/ DOMAIN terms[s] # {}}
  IN [p \in {PairOf(s, LabelOf(knobs, s)) : s \in kept} |-> terms[CHOOSE s \in kept : PairOf(s, LabelOf(knobs, s)) = p]]
(* Mutant: a corridor with no terms of its own is not written. *)
ListedIfTermed(knobs, row) == Written(knobs, row, {})
(* Every BTC corridor is written, with no terms too, since a document turns on only those it lists. *)
Listed(knobs, row) == Written(knobs, row, BtcStems)

(* The export: refused when an old direction has no row to place it by. *)
envToDocument(knobs, row) ==
  IF Get(knobs, Scalar("assetMarkets")) # {} /\ row = "none" /\ {<<"BUY", "enabled">>, <<"SELL", "enabled">>} \cap DOMAIN knobs # {}
  THEN {}
  ELSE {[scalars |-> Copied(knobs, Paths),
         chain |-> IF DOMAIN knobs \cap ChainFields # {} \/ Get(knobs, Scalar("evmTokens")) # {}
                   THEN {Copied(knobs, ChainFields)} ELSE {},
         assets |-> [l \in {TokenLabel : t \in Get(knobs, Scalar("evmTokens"))} |->
                       [kind |-> "erc20", feed |-> Get(knobs, Scalar("priceFeed"))]]
                    @@ [l \in Get(knobs, Scalar("assetMarkets")) |-> [kind |-> "arkade", feed |-> {}]],
         corridors |-> Listed(knobs, row),
         markets |-> {{IF leg = "id" /\ Get(knobs, Scalar("assetMarkets")) # {} THEN LabelOf(knobs, "TO_BTC") ELSE leg : leg \in pair}
                        : pair \in Get(knobs, Scalar("offerMarkets"))}]}

(* The schema: a switch holds a boolean. *)
parseDocument(doc) ==
  /\ Readable(doc.scalars, Scalar("acceptGap"))
  /\ \A p \in DOMAIN doc.corridors : Readable(doc.corridors[p], "enabled")

Known(doc) ==
  [p \in {PairOf(s, "") : s \in BtcStems} \cup UNION {{PairOf(s, l) : s \in StemsOf(doc.assets[l].kind)} : l \in DOMAIN doc.assets}
     |-> CHOOSE s \in BtcStems \cup EvmStems \cup AssetStems :
           \/ s \in BtcStems /\ p = PairOf(s, "")
           \/ \E l \in DOMAIN doc.assets : s \in StemsOf(doc.assets[l].kind) /\ p = PairOf(s, l)]
Flattens(doc) ==
  /\ \A l \in DOMAIN doc.assets : IF doc.assets[l].kind = "arkade" THEN l # "BTC" ELSE doc.chain # {}
  /\ \A p \in DOMAIN doc.corridors : p \in DOMAIN Known(doc) /\ DOMAIN doc.corridors[p] \subseteq Fields(Known(doc)[p])

(* Back to knobs: a listed corridor is on unless it says otherwise, a BTC corridor that is not listed is off. *)
documentToKnobs(doc) ==
  LET arkade == {l \in DOMAIN doc.assets : doc.assets[l].kind = "arkade"}
      tokens == DOMAIN doc.assets \ arkade
      feeds == UNION {doc.assets[l].feed : l \in tokens}
      given == {<<p, f>> \in (DOMAIN doc.corridors) \X (Common \cup {"feeCapSats", "feeMinSats", "minUnits", "maxUnits"}) :
                  f = "enabled" \/ f \in DOMAIN doc.corridors[p]}
      term(k) == LET g == CHOOSE g \in given : <<Known(doc)[g[1]], g[2]>> = k
                 IN Else(doc.corridors[g[1]], g[2], "true")
      only(name, S) == [k \in {Scalar(name) : x \in S} |-> CHOOSE x \in S : TRUE]
  IN doc.scalars
     @@ (IF doc.chain = {} THEN <<>> ELSE CHOOSE c \in doc.chain : TRUE)
     @@ only("evmTokens", {"token" : l \in tokens}) @@ only("priceFeed", feeds) @@ only("assetMarkets", arkade)
     @@ only("offerMarkets", {{IF leg \in arkade THEN "id" ELSE leg : leg \in pair} : pair \in doc.markets})
     @@ [k \in {<<Known(doc)[g[1]], g[2]>> : g \in given} |-> term(k)]
     @@ [k \in {<<s, "enabled">> : s \in BtcStems} |-> "false"]

Secrets == {Scalar("mnemonic"), Scalar("rpcUrl"), Scalar("priceFeed")}
Placeholder == "<variable>"
Unfilled(doc) ==
  \/ Placeholder \in {doc.scalars[k] : k \in DOMAIN doc.scalars \cap Secrets}
  \/ \E c \in doc.chain : Placeholder \in {c[k] : k \in DOMAIN c \cap Secrets}
  \/ \E l \in DOMAIN doc.assets : Placeholder \in doc.assets[l].feed
(* What a log may hold: every credential replaced by the name of its variable. *)
Masked(f) == [k \in DOMAIN f |-> IF k \in Secrets THEN Placeholder ELSE f[k]]
documentForLog(doc) ==
  [doc EXCEPT !.scalars = Masked(@), !.chain = {Masked(c) : c \in @},
              !.assets = [l \in DOMAIN @ |-> [@[l] EXCEPT !.feed = {Placeholder : x \in @}]]]

(* The boot: one document, no old variable beside it, no placeholder left in it. *)
Loaded(doc) == IF parseDocument(doc) /\ Flattens(doc) THEN configFromKnobs(documentToKnobs(doc)) ELSE {}
Legacy(names) == names \ {Scalar("host")}
loadConfig(doc, names) == IF Legacy(names) = {} /\ ~Unfilled(doc) THEN Loaded(doc) ELSE {}
(* An export is tried on the loader before it is printed. *)
exportDocument(knobs, row) == {doc \in envToDocument(knobs, row) : loadConfig(doc, {}) # {}}

-----------------------------------------------------------------------------
(* What the old deployment ran as, less the corridors taken out since. *)
Meant(d, out) ==
  LET placed == IF Get(d.env, Scalar("assetMarkets")) = {} THEN <<>> ELSE Placed(d.env, d.row)
      kept == [k \in {q \in DOMAIN d.env : q[1] \notin out} |-> d.env[k]]
  IN configFromKnobs([k \in {<<s, "enabled">> : s \in out} |-> "false"]
                     @@ [k \in {<<s, "enabled">> : s \in DOMAIN placed} |-> placed[k[1]]] @@ kept)

ConfigInit ==
  /\ deployment \in {d \in Deployments : Meant(d, {}) # {}}
  /\ shell = DOMAIN deployment.env
  /\ document = {} /\ shown = {} /\ left = {} /\ running = {}

(* `cli config-from-env`, under the old environment. *)
exportConfig ==
  /\ document = {} /\ shell = DOMAIN deployment.env
  /\ document' = exportDocument(deployment.env, deployment.row)
  /\ UNCHANGED <<deployment, shell, shown, left, running>>

(* A boot with no document prints the one the variables describe. *)
migrationHint ==
  /\ document = {} /\ shown = {} /\ Legacy(shell) # {} /\ shell = DOMAIN deployment.env
  /\ shown' = {documentForLog(doc) : doc \in exportDocument(deployment.env, deployment.row)}
  /\ UNCHANGED <<deployment, shell, document, left, running>>

(* The operator takes the printed document, puts the values back, leaves a corridor out, unsets variables. *)
Paste ==
  /\ document = {} /\ document' = shown
  /\ UNCHANGED <<deployment, shell, shown, left, running>>
FillIn ==
  /\ running = {}
  /\ \E doc \in document :
       /\ Unfilled(doc)
       /\ \E whole \in exportDocument(deployment.env, deployment.row), all \in BOOLEAN :
            document' = {[doc EXCEPT !.scalars = whole.scalars, !.chain = IF all THEN whole.chain ELSE @,
                                     !.assets = IF all THEN whole.assets ELSE @]}
  /\ UNCHANGED <<deployment, shell, shown, left, running>>
LeaveOut(stem) ==
  /\ running = {} /\ document # {} /\ left = {}
  /\ left' = {stem}
  /\ document' = {[doc EXCEPT !.corridors = Restrict(@, DOMAIN @ \ {PairOf(stem, "")})] : doc \in document}
  /\ UNCHANGED <<deployment, shell, shown, running>>
Unset(names) ==
  /\ shell = DOMAIN deployment.env /\ document # {} /\ running = {}
  /\ shell' = names
  /\ UNCHANGED <<deployment, document, shown, left, running>>

Boot ==
  /\ running = {}
  /\ \E doc \in document : running' = loadConfig(doc, shell) /\ running' # {}
  /\ UNCHANGED <<deployment, shell, document, shown, left>>

ConfigNext ==
  \/ exportConfig \/ migrationHint \/ Paste \/ FillIn \/ Boot
  \/ \E stem \in BtcStems : LeaveOut(stem)
  \/ \E names \in {{}, {Scalar("host")}, {Scalar("mnemonic")}} : names \subseteq DOMAIN deployment.env /\ Unset(names)
ConfigSpec == ConfigInit /\ [][ConfigNext]_cvars

-----------------------------------------------------------------------------
(* The process that boots from the document runs as the old one did, less the corridors left out of it: no corridor switched
   off comes on, none that served goes dark, every bound and fee is the same. *)
RunsAsBefore == running = {} \/ running = Meant(deployment, left)
(* The log of a failed boot holds no credential, and a placeholder printed there is never run with. *)
CredentialsStayPrivate ==
  /\ \A doc \in shown : doc.scalars[Scalar("mnemonic")] = Placeholder
  /\ \A c \in running : c.mnemonic # Placeholder /\ Legacy(shell) = {}
ConfigurationIsKept == RunsAsBefore /\ CredentialsStayPrivate
=============================================================================
