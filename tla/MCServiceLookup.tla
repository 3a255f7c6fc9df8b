-------------------------- MODULE MCServiceLookup --------------------------
(***************************************************************************)
(* Small instances of ServiceLookup for TLC.                               *)
(***************************************************************************)
EXTENDS ServiceLookup

CONSTANTS u1, u2, plain

Https == {u1, u2}
UrlLists == {<<u1>>, <<u2, u1>>, <<plain>>, <<plain, u2>>}

(* Lists of one or two. *)
Few(S) == {<<x>> : x \in S} \cup {<<x, y>> : x \in S, y \in S}
ServicesOver(entries, urls) == [entries : Few(entries), urls : urls]
Of(kind, offered, keys) ==
  [registry : {[kind |-> kind, services |-> s] : s \in Few(offered)}, key : keys]

(* "", com, example.com and net; www.example.com, com, net and org. *)
Zones == {<<>>, <<1>>, <<1, 2>>, <<3>>}
Names == {<<1, 2, 3>>, <<1>>, <<3>>, <<4>>}
Ranges == {<<0, 1>>, <<1, 1>>, <<1, 3>>, <<2, 3>>}

SmallLookups == Of("tree", ServicesOver(Zones, UrlLists), Names)
                \cup Of("range", ServicesOver(Ranges, {<<u1>>, <<u2, u1>>}), 0 .. 3)
=============================================================================
