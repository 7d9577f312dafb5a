---------------------------- MODULE Configuration ----------------------------
(***************************************************************************)
(* What the daemon makes of its configuration when it starts.  A           *)
(* configuration is a record:                                              *)
(*   chain       the default chain                                         *)
(*   default     per chain, the asset of new invoices (a partial function) *)
(*   assets      per chain, further assets to watch                        *)
(*   recipients  the chains with a valid recipient address                 *)
(*   endpoints   per chain, its endpoints: a url, and whether it is        *)
(*               Universal or for the operations it lists only             *)
(* An asset id is a string.  A chain client parses it and prints it in its *)
(* own way: an address with its checksum, a number without leading zeros.  *)
(***************************************************************************)
EXTENDS Naturals, FiniteSets

CONSTANTS
  Chains,            \* ChainType
  AssetIds,          \* asset ids, however they are spelled
  Canonical,         \* per asset id, from_str followed by to_string
  BuiltinAsset,      \* per chain, the asset if the configuration has none
  BuiltinEndpoints   \* per chain, the endpoints if it has none

ASSUME ConfigurationAssumption ==
  /\ Canonical \in [AssetIds -> AssetIds]
  /\ \A a \in AssetIds : Canonical[Canonical[a]] = Canonical[a]
  /\ BuiltinAsset \in [Chains -> AssetIds]

(* EndpointAllowedOperation                                                *)
Operations == {"Requests", "Subscriptions"}

(* ChainEndpoint: a bare url, or a url with a list, which may be empty.    *)
Universal(url) == [url |-> url, kind |-> "Universal", operations |-> {}]
Specific(url, ops) == [url |-> url, kind |-> "Specific", operations |-> ops]
ChainEndpoints(urls) ==
  {Universal(url) : url \in urls}
    \cup {Specific(url, ops) : url \in urls, ops \in SUBSET Operations}

(* get_endpoints_with_allowed_operation                                    *)
EndpointsFor(c, ch, op) ==
  {e \in c.endpoints[ch] : e.kind = "Universal" \/ op \in e.operations}

set_default_chains_if_missing(c) ==
  [c EXCEPT !.endpoints =
     [ch \in Chains |->
        IF ch \in DOMAIN @ /\ @[ch] # {} THEN @[ch] ELSE BuiltinEndpoints[ch]]]

set_default_asset_id_if_missing(c) ==
  [c EXCEPT !.default =
     [ch \in Chains |-> IF ch \in DOMAIN @ THEN @[ch] ELSE BuiltinAsset[ch]]]

(* chains_config_with_prefix and payments_config_with_prefix, once the     *)
(* file and the environment are read.                                      *)
Loaded(c) == set_default_chains_if_missing(set_default_asset_id_if_missing(c))

validate_recipients(c, chains) == chains \subseteq c.recipients

add_default_asset_ids(c) ==
  [c EXCEPT !.assets = [ch \in Chains |-> @[ch] \cup {c.default[ch]}]]

(* Mutant: the assets of restored invoices are forgotten.                  *)
AddNothing(c, used) == c

add_restored_asset_ids(c, used) ==
  [c EXCEPT !.assets = [ch \in Chains |-> @[ch] \cup used[ch]]]

(* validate_and_extend_configs: used are the assets of restored invoices.  *)
RequiredChains(c, used) == {c.chain} \cup {ch \in Chains : used[ch] # {}}
Acceptable(c, used) == validate_recipients(c, RequiredChains(c, used))
Extended(c, used) == add_restored_asset_ids(add_default_asset_ids(c), used)
=============================================================================
