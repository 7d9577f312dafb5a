---------------------------- MODULE MCMonitoring ----------------------------
(* Two chains with two endpoints, one asset on each, and on Polygon a      *)
(* second one that the configuration spells in lower case.                 *)
EXTENDS Monitoring

ChainTypes == {"AssetHub", "Polygon"}
Assets == {"1337", "0xUsdc", "0xDai", "0xdai"}
Spelling == [a \in Assets |-> IF a = "0xdai" THEN "0xDai" ELSE a]
Builtin == [ch \in ChainTypes |-> IF ch = "Polygon" THEN "0xUsdc" ELSE "1337"]
BuiltinUrls ==
  [ch \in ChainTypes |->
     IF ch = "Polygon" THEN {Universal("p1"), Universal("p2")}
                       ELSE {Universal("h1")}]

NoFile == [ch \in {} |-> {}]
Unwatched == [ch \in ChainTypes |-> {}]

(* Nothing but a recipient; another chain, no recipient for the first one  *)
(* and an endpoint of it that is for nothing; another asset, further       *)
(* assets, and endpoints with allowed operations.                          *)
Plain == [chain |-> "Polygon", default |-> NoFile, assets |-> Unwatched,
          recipients |-> {"Polygon"}, endpoints |-> NoFile]
Moved == [Plain EXCEPT
            !.chain = "AssetHub", !.recipients = {"AssetHub"},
            !.endpoints = [ch \in {"Polygon"} |-> {Universal("p1"), Specific("p2", {})}]]
Tuned ==
  [chain |-> "Polygon", default |-> [ch \in {"Polygon"} |-> "0xdai"],
   assets |-> [Unwatched EXCEPT !["Polygon"] = {"0xDai"}],
   recipients |-> ChainTypes,
   endpoints |-> [ch \in {"Polygon"} |->
     {Specific("p1", {"Requests"}), Specific("p2", {"Subscriptions"})}]]
Files == {Plain, Moved, Tuned}
=============================================================================
